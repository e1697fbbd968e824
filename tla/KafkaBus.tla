------------------------------ MODULE KafkaBus ------------------------------
(***************************************************************************)
(* The buses of the participants of one merged map (KafkaBus.scala): every *)
(* owner has a producer, which appends its opinions to the topic of the    *)
(* map, and a consumer thread, which hands the messages of the topic to    *)
(* the map in the order of the topic's single partition.                   *)
(*                                                                         *)
(* The topic, the offsets a consumer group has committed and the queue of  *)
(* the producer are Kafka's; they are modelled from how the bus configures *)
(* and calls them (log compaction, auto.offset.reset, acks, send).         *)
(***************************************************************************)
EXTENDS MergedMapOps, Sequences

CONSTANTS
  Compacted,      \* what log compaction leaves at the offset of a message
  CanEncodeNull,  \* the serializer of the map accepts a null value
  Monotone,       \* the clock an owner stamps its values with never goes back
  Writer,         \* the participant whose process opens the map first
  Barriered,      \* the processes meet at MergedMapTestBench's barriers: the
                  \* writer opens the map before the readers do, and nobody
                  \* publishes before all have opened it
  MaxMessages,    \* bound: opinions published
  MaxCrashes,     \* bound: processes killed
  MaxCommits,     \* bound: offsets committed while running
  MaxShutdowns,   \* bound: calls of shutdown
  MaxLost         \* bound: sends the brokers do not accept

ASSUME BusAssumption ==
  /\ Writer \in Owners
  /\ {CanEncodeNull, Barriered, Monotone} \subseteq BOOLEAN
  /\ {MaxMessages, MaxCrashes, MaxCommits, MaxShutdowns, MaxLost}
       \subseteq Nat

\* What a producer sends: an opinion of its owner; a null value removes it.
Messages == [key: Keys, value: Values \cup {Null}, owner: Owners]

\* What compaction leaves behind is no message.
ASSUME CompactedAssumption == Compacted \notin Messages

VARIABLES
  topic,      \* the topic exists
  log,        \* its messages; offsets count from 0
  committed,  \* owner -> the offset its consumer group has committed
  bus,        \* owner -> how far its bus has come
  mapped,     \* owner -> its MergedMap has subscribed to the bus
  joined,     \* owner -> the position of its consumer when it did (history)
  position,   \* owner -> the offset its consumer thread reads next
  sending,    \* owner -> messages its producer has accepted, not yet in the log
  inbox,      \* owner -> messages on their way to the executor of its map
  intent,     \* owner -> key -> the opinion its application last asked for
              \* (history: no action but onNext uses it)
  clock,      \* owner -> the last value it put, or null
  published, crashes, commits, shutdowns, lost   \* counters, for the bounds

asked    == <<intent, clock, published>>
counters == <<crashes, commits, shutdowns, lost>>
busVars  == <<topic, log, committed, bus, mapped, joined, position, sending, inbox,
              asked, counters>>

BusInit ==
  /\ topic = FALSE
  /\ log = <<>>
  /\ committed = [o \in Owners |-> 0]
  /\ bus = [o \in Owners |-> "down"]
  /\ mapped = [o \in Owners |-> FALSE]
  /\ joined = [o \in Owners |-> 0]
  /\ position = [o \in Owners |-> 0]
  /\ sending = [o \in Owners |-> <<>>]
  /\ inbox = [o \in Owners |-> <<>>]
  /\ intent = [o \in Owners |-> EmptyMap]
  /\ clock = [o \in Owners |-> Null]
  /\ published = 0 /\ crashes = 0 /\ commits = 0 /\ shutdowns = 0 /\ lost = 0

-----------------------------------------------------------------------------
(* The constructor.                                                        *)

\* createTopicIfNeeded asks whether the topic exists...
topicExists(o) ==
  /\ bus[o] = "down"
  /\ Barriered => o = Writer \/ mapped[Writer]
  /\ bus' = [bus EXCEPT ![o] = IF topic THEN "connecting" ELSE "creating"]
  /\ UNCHANGED <<topic, log, committed, mapped, joined, position, sending, inbox, asked, counters>>

\* ...and creates it if not; when another bus has created it since, createTopic
\* throws and the constructor with it.
createTopic(o) ==
  /\ bus[o] = "creating"
  /\ topic' = TRUE
  /\ bus' = [bus EXCEPT ![o] = IF topic THEN "failed" ELSE "connecting"]
  /\ UNCHANGED <<log, committed, mapped, joined, position, sending, inbox, asked, counters>>

\* createProducer, createConsumer, createConsumerIt and the start of the consumer
\* thread.  The consumer begins at the offset its group has committed; without
\* one, auto.offset.reset = smallest makes it begin at the start of the topic.
connect(o) ==
  /\ bus[o] = "connecting"
  /\ bus' = [bus EXCEPT ![o] = "consuming"]
  /\ position' = [position EXCEPT ![o] = committed[o]]
  /\ UNCHANGED <<topic, log, committed, mapped, joined, sending, inbox, asked, counters>>

\* The constructor of MergedMap, which is given the bus, subscribes to it.
subscribeMap(o) ==
  /\ bus[o] = "consuming" /\ ~mapped[o]
  /\ mapped' = [mapped EXCEPT ![o] = TRUE]
  /\ joined' = [joined EXCEPT ![o] = position[o]]
  /\ UNCHANGED <<topic, log, committed, bus, position, sending, inbox, asked, counters>>

-----------------------------------------------------------------------------
(* The consumer.                                                           *)

\* Two messages in a row are handed over the wrong way round.
consume_Mutant(o) ==
  /\ bus[o] \in {"consuming", "closing"}
  /\ position[o] < Len(log)
  /\ position' = [position EXCEPT ![o] = @ + 1]
  /\ inbox' = [inbox EXCEPT ![o] =
                 IF mapped[o] /\ log[position[o] + 1] # Compacted
                 THEN <<log[position[o] + 1]>> \o @ ELSE @]
  /\ UNCHANGED <<topic, log, committed, bus, mapped, joined, sending, asked, counters>>

\* The last message of the topic is not seen before another one follows it.
consumeLate_Mutant(o) ==
  /\ bus[o] \in {"consuming", "closing"}
  /\ position[o] + 1 < Len(log)
  /\ position' = [position EXCEPT ![o] = @ + 1]
  /\ inbox' = [inbox EXCEPT ![o] =
                 IF mapped[o] /\ log[position[o] + 1] # Compacted
                 THEN Append(@, log[position[o] + 1]) ELSE @]
  /\ UNCHANGED <<topic, log, committed, bus, mapped, joined, sending, asked, counters>>

\* One turn of consumerRunnable: take the next message and emit it on inputSubj.
\* A PublishSubject that nobody has subscribed to drops what it is given.
consume(o) ==
  /\ bus[o] \in {"consuming", "closing"}
  /\ position[o] < Len(log)
  /\ position' = [position EXCEPT ![o] = @ + 1]
  /\ inbox' = [inbox EXCEPT ![o] =
                 IF mapped[o] /\ log[position[o] + 1] # Compacted
                 THEN Append(@, log[position[o] + 1]) ELSE @]
  /\ UNCHANGED <<topic, log, committed, bus, mapped, joined, sending, asked, counters>>

\* Kafka commits the offset of a consumer from time to time.
autoCommit(o) ==
  /\ bus[o] = "consuming"
  /\ committed[o] # position[o] /\ commits < MaxCommits
  /\ commits' = commits + 1
  /\ committed' = [committed EXCEPT ![o] = position[o]]
  /\ UNCHANGED <<topic, log, bus, mapped, joined, position, sending, inbox, asked,
                 crashes, shutdowns, lost>>

-----------------------------------------------------------------------------
(* The producer.                                                           *)

\* putOpinion or (with a null value) removeOpinion of the owner's map, through
\* producerObserver.onNext.  A serializer that fails on null makes onNext throw,
\* which rx answers with producerObserver.onError: the bus shuts down.
onNext(o, k, v) ==
  /\ mapped[o] /\ bus[o] = "consuming"
  /\ published < MaxMessages
  /\ Barriered => \A p \in Owners : mapped[p]
  /\ Monotone /\ v # Null /\ clock[o] # Null => crStrategy(v, clock[o]) >= 0
  /\ published' = published + 1
  /\ clock' = [clock EXCEPT ![o] = IF v = Null THEN @ ELSE v]
  /\ intent' = [intent EXCEPT ![o] = PutOrRemove(@, k, v)]
  /\ IF v = Null /\ ~CanEncodeNull
     THEN bus' = [bus EXCEPT ![o] = "closing"] /\ UNCHANGED sending
     ELSE /\ sending' = [sending EXCEPT ![o] =
                           Append(@, [key |-> k, value |-> v, owner |-> o])]
          /\ UNCHANGED bus
  /\ UNCHANGED <<topic, log, committed, mapped, joined, position, inbox, counters>>

\* The brokers append the oldest message of a producer to the topic.
deliver(o) ==
  /\ sending[o] # <<>>
  /\ log' = Append(log, Head(sending[o]))
  /\ sending' = [sending EXCEPT ![o] = Tail(@)]
  /\ UNCHANGED <<topic, committed, bus, mapped, joined, position, inbox, asked, counters>>

\* A send fails: sendCallBack logs it, and nothing else happens.
sendFails(o) ==
  /\ sending[o] # <<>> /\ lost < MaxLost
  /\ lost' = lost + 1
  /\ sending' = [sending EXCEPT ![o] = Tail(@)]
  /\ UNCHANGED <<topic, log, committed, bus, mapped, joined, position, inbox, asked,
                 crashes, commits, shutdowns>>

\* The message key leaves out the owner.
SameKafkaKey_Mutant(m, n) == m.key = n.key

\* The message key is keyAsString(key) + "-" + ownerId.
SameKafkaKey(m, n) == m.key = n.key /\ m.owner = n.owner

\* cleanup.policy = compact: a message may go once a later one has its key.
compact(i) ==
  /\ log[i] # Compacted
  /\ \E j \in i + 1 .. Len(log) : log[j] # Compacted /\ SameKafkaKey(log[i], log[j])
  /\ log' = [log EXCEPT ![i] = Compacted]
  /\ UNCHANGED <<topic, committed, bus, mapped, joined, position, sending, inbox, asked, counters>>

-----------------------------------------------------------------------------
(* The end of a bus.                                                       *)

\* shutdown() is called (by the benchmark, after the barrier that follows the
\* last write): producer.close() waits for the sends under way...
shutdown(o) ==
  /\ bus[o] = "consuming" /\ mapped[o]
  /\ Barriered => published = MaxMessages
  /\ shutdowns < MaxShutdowns
  /\ shutdowns' = shutdowns + 1
  /\ bus' = [bus EXCEPT ![o] = "closing"]
  /\ UNCHANGED <<topic, log, committed, mapped, joined, position, sending, inbox,
                 asked, crashes, commits, lost>>

\* ...then the consumer stops, which commits its offset.
consumerShutdown(o) ==
  /\ bus[o] = "closing" /\ sending[o] = <<>>
  /\ bus' = [bus EXCEPT ![o] = "closed"]
  /\ committed' = [committed EXCEPT ![o] = position[o]]
  /\ UNCHANGED <<topic, log, mapped, joined, position, sending, inbox, asked, counters>>

\* The process dies: what it held in memory is gone, and it may start again
\* under the same owner name (MapSetBenchmark opens "arp" as "owner").
crash(o) ==
  /\ bus[o] \in {"connecting", "consuming", "closing"}
  /\ crashes < MaxCrashes
  /\ crashes' = crashes + 1
  /\ bus' = [bus EXCEPT ![o] = "down"]
  /\ mapped' = [mapped EXCEPT ![o] = FALSE]
  /\ sending' = [sending EXCEPT ![o] = <<>>]
  /\ inbox' = [inbox EXCEPT ![o] = <<>>]
  /\ UNCHANGED <<topic, log, committed, joined, position, asked, commits,
                 shutdowns, lost>>

BusStep(o) ==
  \/ topicExists(o) \/ createTopic(o) \/ connect(o) \/ subscribeMap(o)
  \/ consume(o) \/ autoCommit(o)
  \/ \E k \in Keys, v \in Values \cup {Null} : onNext(o, k, v)
  \/ deliver(o) \/ sendFails(o)
  \/ shutdown(o) \/ consumerShutdown(o)

-----------------------------------------------------------------------------
(* What the topic says.                                                    *)

\* The messages in the topic for a key and an owner, by offset.
OffsetsOf(k, o) ==
  {i \in 1..Len(log) : log[i] # Compacted /\ log[i].key = k /\ log[i].owner = o}

\* The latest value an owner has in the topic for a key, or null.
Latest(k, o) ==
  IF OffsetsOf(k, o) = {} THEN Null
  ELSE log[CHOOSE i \in OffsetsOf(k, o) : \A j \in OffsetsOf(k, o) : j <= i].value
=============================================================================
