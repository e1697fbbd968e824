------------------------------ MODULE MergedMap ------------------------------
(***************************************************************************)
(* One replica of a merged map (class MergedMap of MergedMap.scala).       *)
(*                                                                         *)
(* Opinions coming from the bus and subscriptions to the map are handled   *)
(* by one executor thread.  Other threads call size, get, containsKey,     *)
(* snapshot (and getByValue) at any time, so the writes of a handler that  *)
(* they can see (entryCount, winners, the emission of the new winner) are  *)
(* steps of their own; the executor takes them one after the other and     *)
(* handles nothing else in between.                                        *)
(***************************************************************************)
EXTENDS MergedMapOps

CONSTANTS
  Subscribers,   \* observers of the map
  MonotoneKeys   \* the keys on which an owner never publishes a value below its
                 \* own last one, as the benchmark's writers do between their
                 \* timed writes (a value carries the time of the write, those
                 \* of the warm-up carry 0); on other keys it publishes anything

ASSUME MonotoneAssumption == MonotoneKeys \subseteq Keys

VARIABLES
  cache,        \* key -> owner -> value; used by the executor only
  entryCount,   \* AtomicInteger behind size
  winners,      \* TrieMap behind get, containsKey, snapshot, getByValue
  task,         \* the rest of the handler the executor is in
  subscriber,   \* how far the subscription of an observer has come
  view,         \* the map an observer rebuilds from the events it received
  completed     \* the bus has signalled onError or onCompleted

vars == <<cache, entryCount, winners, task, subscriber, view, completed>>

Idle == [at |-> "idle", key |-> Null, value |-> Null]

\* The executor is inside onSubscribe.call.
Joining == [at |-> "join", key |-> Null, value |-> Null]

Tasks == {Idle, Joining}
         \cup [at: {"update", "emit"}, key: Keys, value: Values \cup {Null}]

SubscriberStates == {"unsubscribed", "requested", "joining", "subscribed",
                     "completed"}

-----------------------------------------------------------------------------
(* The methods other threads call.                                         *)

size == entryCount
containsKey(k) == k \in DOMAIN winners
get(k) == IF containsKey(k) THEN winners[k] ELSE Null
snapshot == winners

-----------------------------------------------------------------------------
Init ==
  /\ cache = EmptyMap
  /\ entryCount = 0
  /\ winners = EmptyMap
  /\ task = Idle
  /\ subscriber = [s \in Subscribers |-> "unsubscribed"]
  /\ view = [s \in Subscribers |-> EmptyMap]
  /\ completed = FALSE

\* onNewOpinion of a (key, value, owner): count the entry if it is new, record
\* the opinion, and go on to update the winners if it is the winning pair.
onOpinionAddition(k, v, o) ==
  /\ task = Idle /\ ~completed
  /\ k \in MonotoneKeys /\ o \in DOMAIN OpinionsOn(cache, k)
       => crStrategy(v, OpinionsOn(cache, k)[o]) >= 0
  /\ entryCount' = IF EntryAppears(cache, k) THEN entryCount + 1 ELSE entryCount
  /\ cache' = WithOpinion(cache, k, v, o)
  /\ task' = IF AdditionWins(cache, k, v, o)
             THEN [at |-> "update", key |-> k, value |-> v]
             ELSE Idle
  /\ UNCHANGED <<winners, subscriber, view, completed>>

\* onNewOpinion of a (key, null, owner) on a key the cache knows (on another
\* key it does nothing): drop the opinion, count the entry out if it was the
\* last one, and go on to the winners if the winning pair is another one.
onOpinionRemoval(k, o) ==
  /\ task = Idle /\ ~completed
  /\ k \in DOMAIN cache
  /\ cache' = WithoutOpinion(cache, k, o)
  /\ entryCount' = IF EntryDisappears(cache, k, o) THEN entryCount - 1
                                                   ELSE entryCount
  /\ task' = IF RemovalChangesWinner(cache, k, o)
             THEN [at |-> "update", key |-> k,
                   value |-> winningPair(Drop(cache[k], o))[2]]
             ELSE Idle
  /\ UNCHANGED <<winners, subscriber, view, completed>>

\* winners.put(key, value), or winners.remove(key) when no opinion is left.
updateWinners ==
  /\ task.at = "update"
  /\ winners' = PutOrRemove(winners, task.key, task.value)
  /\ task' = [task EXCEPT !.at = "emit"]
  /\ UNCHANGED <<cache, entryCount, subscriber, view, completed>>

\* winningSubject onNext (key, value): every current subscriber receives it.
emitWinner ==
  /\ task.at = "emit"
  /\ view' = [s \in Subscribers |->
                IF subscriber[s] = "subscribed"
                THEN PutOrRemove(view[s], task.key, task.value)
                ELSE view[s]]
  /\ task' = Idle
  /\ UNCHANGED <<cache, entryCount, winners, subscriber, completed>>

\* observable.subscribe: subscribeOn hands the subscription to the executor.
Subscribe(s) ==
  /\ subscriber[s] = "unsubscribed"
  /\ subscriber' = [subscriber EXCEPT ![s] = "requested"]
  /\ UNCHANGED <<cache, entryCount, winners, task, view, completed>>

\* Without subscribeOn: the executor goes on with opinions between the emission
\* of the winners and the subscription to the subject.
onSubscribe_Mutant(s) ==
  /\ task = Idle
  /\ subscriber[s] = "requested"
  /\ view' = [view EXCEPT ![s] = winners]
  /\ subscriber' = [subscriber EXCEPT ![s] = "joining"]
  /\ UNCHANGED <<cache, entryCount, winners, task, completed>>

\* onSubscribe.call, on the executor: first emit the winners to the observer...
onSubscribe(s) ==
  /\ task = Idle
  /\ subscriber[s] = "requested"
  /\ view' = [view EXCEPT ![s] = winners]
  /\ subscriber' = [subscriber EXCEPT ![s] = "joining"]
  /\ task' = Joining
  /\ UNCHANGED <<cache, entryCount, winners, completed>>

\* ...then winningSubject subscribe s, which answers with onCompleted when the
\* subject has completed already.
joinSubject(s) ==
  /\ subscriber[s] = "joining"
  /\ subscriber' = [subscriber EXCEPT ![s] =
                      IF completed THEN "completed" ELSE "subscribed"]
  /\ task' = Idle
  /\ UNCHANGED <<cache, entryCount, winners, view, completed>>

\* onError and onCompleted of the subscription to the bus: both complete the
\* bus's observer and the winning subject; the bus emits nothing afterwards.
onCompleted ==
  /\ task = Idle /\ ~completed
  /\ completed' = TRUE
  /\ subscriber' = [s \in Subscribers |->
                      IF subscriber[s] = "subscribed" THEN "completed"
                                                      ELSE subscriber[s]]
  /\ UNCHANGED <<cache, entryCount, winners, task, view>>

\* The handler of one message of the bus.
onNewOpinion(k, v, o) ==
  IF v = Null THEN onOpinionRemoval(k, o) ELSE onOpinionAddition(k, v, o)

Next ==
  \/ \E k \in Keys, o \in Owners, v \in Values \cup {Null} : onNewOpinion(k, v, o)
  \/ updateWinners
  \/ emitWinner
  \/ \E s \in Subscribers : Subscribe(s) \/ onSubscribe(s) \/ joinSubject(s)
  \/ onCompleted

Spec == Init /\ [][Next]_vars

-----------------------------------------------------------------------------
(* Properties.                                                             *)

\* Every variable has its type; size never goes below zero.
TypeOK ==
  /\ cache \in Caches
  /\ entryCount \in Nat
  /\ winners \in Winners
  /\ task \in Tasks
  /\ subscriber \in [Subscribers -> SubscriberStates]
  /\ view \in [Subscribers -> Winners]
  /\ completed \in BOOLEAN

\* The winners once the handler in progress has done its update.
SettledWinners ==
  IF task.at = "update" THEN PutOrRemove(winners, task.key, task.value)
                        ELSE winners

\* size, read by any thread at any moment, is off by at most one from the
\* number of keys that containsKey accepts, and is exact between handlers
\* (the comment of onOpinionRemoval: "can temporarily give a result that is off
\* by one ... This should be tolerated").
SizeTolerance ==
  LET off == size - Cardinality({k \in Keys : containsKey(k)}) IN
  /\ off \in {-1, 0, 1}
  /\ task.at # "update" => off = 0

\* Whatever the owners publish and in whatever order, a key is exposed exactly
\* when some owner has an opinion on it, once the handler is through.
ExposedIffOpinion == DOMAIN SettledWinners = Opinioned(cache)

\* No live opinion beats the exposed one: winners may hold a value that is not
\* an opinion any more (see WinnersAreWinning) but never one that an owner's
\* current opinion is greater than.
NoOpinionBeatsWinner ==
  \A k \in DOMAIN SettledWinners : \A o \in DOMAIN OpinionsOn(cache, k) :
    crStrategy(SettledWinners[k], OpinionsOn(cache, k)[o]) >= 0

\* An observer that subscribed at any moment (snapshot first, updates after, on
\* one thread) rebuilds exactly the winners: it misses and doubles nothing.
SubscribersInStep ==
  \A s \in Subscribers :
    subscriber[s] = "subscribed" =>
      snapshot = IF task.at = "emit"
                 THEN PutOrRemove(view[s], task.key, task.value)
                 ELSE view[s]

\* "A map storing the winning opinion for each key": between handlers, winners
\* is the result of conflict resolution over the live opinions.  It is not on a
\* key whose winning owner has lowered its own opinion.
WinnersAreWinning == task.at # "update" => snapshot = Resolved(cache)

\* The part of it that the code keeps to: on a key whose owners do not lower
\* their own opinions, whatever happens on other keys meanwhile, get answers the
\* winning value, and null if nobody has an opinion.
MonotoneKeysResolve ==
  task.at # "update" =>
    \A k \in MonotoneKeys : get(k) = winningPair(OpinionsOn(cache, k))[2]

-----------------------------------------------------------------------------
(* What makes these invariants inductive.                                  *)

\* entryCount counts the keys with an opinion.
CountsOpinioned == entryCount = Cardinality(Opinioned(cache))

\* An observer is between the snapshot and the subject only while the executor
\* is in its onSubscribe, so nothing can change the winners meanwhile.
JoiningHoldsExecutor ==
  \A s \in Subscribers :
    subscriber[s] = "joining" =>
      /\ task = Joining
      /\ view[s] = winners
      /\ \A t \in Subscribers : subscriber[t] = "joining" => t = s

IInv ==
  /\ TypeOK
  /\ CountsOpinioned
  /\ ExposedIffOpinion
  /\ NoOpinionBeatsWinner
  /\ SubscribersInStep
  /\ JoiningHoldsExecutor

\* The strengthening of MonotoneKeysResolve that holds in every state.
SettledAreWinning ==
  \A k \in MonotoneKeys \cap DOMAIN SettledWinners :
    SettledWinners[k] = winningPair(OpinionsOn(cache, k))[2]

-----------------------------------------------------------------------------
(* Properties of steps, and what the replica implements.                   *)

\* An addition never replaces an exposed value by a lower one: only the removal
\* of an opinion can make the exposed value of such a key go down or away.
AdditionRaisesWinner ==
  [][\A k \in MonotoneKeys, o \in Owners, v \in Values :
       (onOpinionAddition(k, v, o) /\ task'.at = "update" /\ k \in DOMAIN winners)
         => crStrategy(v, winners[k]) >= 0]_vars

\* The replica implements the promise of a merged map on these keys: the
\* opinions are those in the cache and what is exposed is what the handler
\* settles on.
Promise == INSTANCE OpinionMap WITH
             Keys     <- MonotoneKeys,
             opinions <- [k \in MonotoneKeys |-> OpinionsOn(cache, k)],
             exposed  <- [k \in MonotoneKeys \cap DOMAIN SettledWinners |->
                            SettledWinners[k]]

ImplementsPromise == Promise!Spec
=============================================================================
