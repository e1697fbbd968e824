---------------------------- MODULE MergedMapOps ----------------------------
(***************************************************************************)
(* The data of a merged map (MergedMap.scala) and the pure part of its     *)
(* conflict resolution: several owners hold an opinion on a key, the       *)
(* strategy of the map orders opinions, the greatest one is exposed.       *)
(* A (mutable) map of the code is a function whose domain is its key set.  *)
(***************************************************************************)
EXTENDS Integers, FiniteSets

CONSTANTS
  Keys,               \* K of MergedMap[K, V]
  Owners,             \* the owner strings of the participants
  Values,             \* V of MergedMap[K, V]
  Null,               \* Scala's null: no owner, no value
  crStrategy(_, _),   \* crStrategy.compare: an Ordering[V]
  iterationRank       \* the place of an owner in a HashMap's iteration

ASSUME NullAssumption == Null \notin Owners /\ Null \notin Values

ASSUME OwnersAssumption == IsFiniteSet(Owners) /\ IsFiniteSet(Keys)

\* The contract of scala.math.Ordering.
ASSUME OrderingAssumption ==
  /\ \A x, y \in Values : crStrategy(x, y) \in Int
  /\ \A x, y \in Values : crStrategy(x, y) > 0 <=> crStrategy(y, x) < 0
  /\ \A x, y, z \in Values :
       crStrategy(x, y) >= 0 /\ crStrategy(y, z) >= 0 => crStrategy(x, z) >= 0

\* Iterating over a HashMap visits its entries in some order of the owners.
ASSUME IterationAssumption ==
  /\ iterationRank \in [Owners -> Int]
  /\ \A o, p \in Owners : iterationRank[o] = iterationRank[p] => o = p

-----------------------------------------------------------------------------
(* Maps as functions with a varying domain.                                *)

MapOf(S, T) == UNION { [D -> T] : D \in SUBSET S }

EmptyMap == [x \in {} |-> Null]

Put(m, k, v) == [x \in DOMAIN m \cup {k} |-> IF x = k THEN v ELSE m[x]]

Drop(m, k) == [x \in DOMAIN m \ {k} |-> m[x]]

\* What (key, value) does to a map of winners, where a null value is a removal.
PutOrRemove(m, k, v) == IF v = Null THEN Drop(m, k) ELSE Put(m, k, v)

Opinions == MapOf(Owners, Values)
Caches   == MapOf(Keys, Opinions)
Winners  == MapOf(Keys, Values)

-----------------------------------------------------------------------------
(* Conflict resolution.                                                    *)

\* opinions.maxBy keeps the first maximal entry it meets: a later entry
\* replaces it only when it is strictly greater.
Beats(opinions, o, p) ==
  \/ crStrategy(opinions[o], opinions[p]) > 0
  \/ /\ crStrategy(opinions[o], opinions[p]) = 0
     /\ iterationRank[o] < iterationRank[p]

winningOwner(opinions) ==
  CHOOSE o \in DOMAIN opinions :
    \A p \in DOMAIN opinions \ {o} : Beats(opinions, o, p)

winningPair(opinions) ==
  IF DOMAIN opinions = {}
  THEN <<Null, Null>>
  ELSE <<winningOwner(opinions), opinions[winningOwner(opinions)]>>

\* The opinions on a key; a key the cache does not hold has none.
OpinionsOn(cache, k) == IF k \in DOMAIN cache THEN cache[k] ELSE EmptyMap

\* The keys that have an opinion.
Opinioned(cache) == {k \in Keys : DOMAIN OpinionsOn(cache, k) # {}}

\* The winning value of every key that has an opinion: what the map is meant
\* to expose.
Resolved(cache) ==
  [k \in Opinioned(cache) |-> winningPair(OpinionsOn(cache, k))[2]]

-----------------------------------------------------------------------------
(* What a handler does to the cache, as functions of the cache it meets.   *)
(* A definition that ends in _Mutant is a plausible bug in the definition  *)
(* after it; it is used only to show that a property notices the bug.      *)

\* cache(key) += owner -> value, on an entry that is created when absent.
WithOpinion(cache, k, v, o) == Put(cache, k, Put(OpinionsOn(cache, k), o, v))

\* The test of retain the wrong way round: the others' opinions are dropped.
WithoutOpinion_Mutant(cache, k, o) ==
  Put(cache, k, [x \in DOMAIN cache[k] \cap {o} |-> cache[k][x]])

\* opinions.retain((o, v) => !o.equals(owner)); the key stays in the cache.
WithoutOpinion(cache, k, o) == Put(cache, k, Drop(cache[k], o))

\* A key whose opinions were all removed is not counted in again.
EntryAppears_Mutant(cache, k) == k \notin DOMAIN cache

\* entryCount is incremented: the key is new, or its opinions were all removed.
EntryAppears(cache, k) == k \notin DOMAIN cache \/ DOMAIN cache[k] = {}

\* prevValue != null is not tested: a second removal counts out again.
EntryDisappears_Mutant(cache, k, o) == DOMAIN Drop(cache[k], o) = {}

\* entryCount is decremented: the last opinion on the key goes away now.
EntryDisappears(cache, k, o) ==
  /\ DOMAIN Drop(cache[k], o) = {}
  /\ winningPair(cache[k])[2] # Null

\* The winner is determined before the opinion is recorded.
AdditionWinsBefore_Mutant(cache, k, v, o) ==
  winningPair(OpinionsOn(cache, k)) = <<o, v>>

\* The last opinion wins.
AdditionWins_Mutant(cache, k, v, o) == TRUE

\* The opinion that was just added is the winning pair.
AdditionWins(cache, k, v, o) ==
  winningPair(OpinionsOn(WithOpinion(cache, k, v, o), k)) = <<o, v>>

\* The winner is looked at only when the last opinion goes away.
RemovalChangesWinner_Mutant(cache, k, o) == DOMAIN Drop(cache[k], o) = {}

\* The removal changes the winning pair.
RemovalChangesWinner(cache, k, o) ==
  winningPair(cache[k]) # winningPair(Drop(cache[k], o))
=============================================================================
