-------------------------- MODULE MergedMapCluster --------------------------
(***************************************************************************)
(* A merged map as its participants share it: their Kafka buses, and at    *)
(* each of them a replica that handles the messages of its bus.  A handler *)
(* is one step here; MergedMap takes it apart and shows that it settles on *)
(* the same winners.                                                       *)
(***************************************************************************)
EXTENDS KafkaBus

VARIABLES
  cache,    \* owner -> the cache of its replica
  winners   \* owner -> the winners of its replica

mapVars == <<cache, winners>>
vars == <<busVars, mapVars>>

-----------------------------------------------------------------------------
Init ==
  /\ BusInit
  /\ cache = [o \in Owners |-> EmptyMap]
  /\ winners = [o \in Owners |-> EmptyMap]

\* The whole of onOpinionAddition.
Addition(c, w, m) ==
  [cache   |-> WithOpinion(c, m.key, m.value, m.owner),
   winners |-> IF AdditionWins(c, m.key, m.value, m.owner)
               THEN Put(w, m.key, m.value) ELSE w]

\* The whole of onOpinionRemoval.
Removal(c, w, m) ==
  IF m.key \notin DOMAIN c THEN [cache |-> c, winners |-> w]
  ELSE [cache   |-> WithoutOpinion(c, m.key, m.owner),
        winners |-> IF RemovalChangesWinner(c, m.key, m.owner)
                    THEN PutOrRemove(w, m.key,
                                     winningPair(Drop(c[m.key], m.owner))[2])
                    ELSE w]

\* onNewOpinion for the oldest message of the replica's inbox.
onNewOpinion(o) ==
  /\ inbox[o] # <<>>
  /\ LET m == Head(inbox[o])
         after == IF m.value = Null THEN Removal(cache[o], winners[o], m)
                                    ELSE Addition(cache[o], winners[o], m)
     IN /\ cache' = [cache EXCEPT ![o] = after.cache]
        /\ winners' = [winners EXCEPT ![o] = after.winners]
  /\ inbox' = [inbox EXCEPT ![o] = Tail(@)]
  /\ UNCHANGED <<topic, log, committed, bus, mapped, joined, position, sending, asked, counters>>

\* The replica dies with its process.
processDies(o) ==
  /\ crash(o)
  /\ cache' = [cache EXCEPT ![o] = EmptyMap]
  /\ winners' = [winners EXCEPT ![o] = EmptyMap]

Next ==
  \/ \E o \in Owners : BusStep(o) /\ UNCHANGED mapVars
  \/ \E i \in DOMAIN log : compact(i) /\ UNCHANGED mapVars
  \/ \E o \in Owners : onNewOpinion(o) \/ processDies(o)

\* Every thread runs: the constructors, the consumer threads, the executors and
\* the producers' I/O threads get on with what they have to do.  Nobody has to
\* publish, compact, commit, fail or crash.
Fairness ==
  \A o \in Owners :
    /\ WF_vars((topicExists(o) \/ createTopic(o) \/ connect(o) \/ subscribeMap(o))
               /\ UNCHANGED mapVars)
    /\ WF_vars(consume(o) /\ UNCHANGED mapVars)
    /\ WF_vars(deliver(o) /\ UNCHANGED mapVars)
    /\ WF_vars(consumerShutdown(o) /\ UNCHANGED mapVars)
    /\ WF_vars(onNewOpinion(o))

Spec == Init /\ [][Next]_vars
FairSpec == Spec /\ Fairness

-----------------------------------------------------------------------------
(* Properties.                                                             *)

\* A replica has handled everything in the topic.
CaughtUp(o) ==
  mapped[o] /\ bus[o] = "consuming" /\ position[o] = Len(log) /\ inbox[o] = <<>>

\* The opinion of an owner on a key, as a replica holds it.
Held(r, k, o) ==
  IF o \in DOMAIN OpinionsOn(cache[r], k) THEN OpinionsOn(cache[r], k)[o] ELSE Null

\* "Configure the consumer such that it can read all messages in the topic (also
\* those published before subscribing to the topic)": a replica that has reached
\* the end of the topic, compacted or not, holds exactly the latest opinion of
\* every owner on every key.  So it is when nobody publishes before all maps have
\* subscribed, as the barriers of the benchmark see to; it is not for a map that
\* is opened on a topic in use, since the consumer thread is started before the
\* map subscribes and what it reads meanwhile is dropped.
ReadsAllMessages ==
  \A r \in Owners : CaughtUp(r) =>
    \A k \in Keys, o \in Owners : Held(r, k, o) = Latest(k, o)

\* What is left of that without the barriers, and when a process restarts at the
\* offset its group has committed: a replica that has reached the end of the topic
\* holds the latest opinion of an owner on a key if it lies behind the position its
\* consumer had when the map subscribed to the bus, and nothing otherwise.
HoldsSinceJoined ==
  \A r \in Owners : CaughtUp(r) =>
    \A k \in Keys, o \in Owners :
      Held(r, k, o) = IF \E i \in OffsetsOf(k, o) : i > joined[r]
                      THEN Latest(k, o) ELSE Null

\* Every replica exposes the winners among the opinions it holds, whatever it
\* missed and whatever was compacted away before it came to it.
ReplicasResolve == \A r \in Owners : winners[r] = Resolved(cache[r])

\* Nothing is under way between an owner and a replica.
Quiet(o, r) == sending[o] = <<>> /\ CaughtUp(r)

\* If no send failed and nobody crashed, a quiet replica holds what each owner last asked for: a
\* put took effect, and a remove took effect.
LastWordHolds ==
  lost = 0 /\ crashes = 0 => \A o, r \in Owners : Quiet(o, r) =>
    \A k \in Keys :
      Held(r, k, o) = IF k \in DOMAIN intent[o] THEN intent[o][k] ELSE Null

\* At a replica, the opinion of an owner never goes back to an earlier one.
NoRegression ==
  [][\A r, o \in Owners, k \in Keys :
       (mapped'[r] /\ Held(r, k, o) # Null /\ Held(r, k, o)' # Null)
         => crStrategy(Held(r, k, o)', Held(r, k, o)) >= 0]_vars

\* The replicas settle: in the end every running replica has handled the whole
\* topic, and they expose the same winners for good.
EventuallyAgree ==
  <>[](\A r, s \in Owners :
         mapped[r] /\ bus[r] = "consuming" /\ mapped[s] /\ bus[s] = "consuming"
           => CaughtUp(r) /\ CaughtUp(s) /\ winners[r] = winners[s])
=============================================================================
