--------------------------- MODULE WinnerTheorems ---------------------------
(***************************************************************************)
(* Facts about the operators of MergedMapOps, for every set of keys,       *)
(* owners and values and every ordering: maps, and the existence and       *)
(* uniqueness of the winner that opinions.maxBy returns.                   *)
(***************************************************************************)
EXTENDS MergedMapOps, FiniteSetTheorems, TLAPS

-----------------------------------------------------------------------------
(* Maps.                                                                   *)

\* A function is a map over S and T when its domain lies in S and its values
\* in T.
LEMMA MapOfIntro ==
  ASSUME NEW S, NEW T, NEW D \in SUBSET S, NEW m \in [D -> T]
  PROVE  m \in MapOf(S, T)
BY DEF MapOf

\* A map is a function over its domain.
LEMMA MapOfElim ==
  ASSUME NEW S, NEW T, NEW m \in MapOf(S, T)
  PROVE  /\ DOMAIN m \in SUBSET S
         /\ m \in [DOMAIN m -> T]
         /\ \A x \in DOMAIN m : x \in S /\ m[x] \in T
<1>1. PICK D \in SUBSET S : m \in [D -> T]
  BY DEF MapOf
<1> QED
  BY <1>1

\* The empty map is a map.
LEMMA EmptyMapType ==
  ASSUME NEW S, NEW T
  PROVE  EmptyMap \in MapOf(S, T) /\ DOMAIN EmptyMap = {}
<1>1. EmptyMap \in [{} -> T]
  BY DEF EmptyMap
<1> QED
  BY <1>1, MapOfIntro

\* What put does to a map.
LEMMA PutMap ==
  ASSUME NEW S, NEW T, NEW m \in MapOf(S, T), NEW k \in S, NEW v \in T
  PROVE  /\ Put(m, k, v) \in MapOf(S, T)
         /\ DOMAIN Put(m, k, v) = DOMAIN m \cup {k}
         /\ Put(m, k, v)[k] = v
         /\ \A x \in DOMAIN m \ {k} : Put(m, k, v)[x] = m[x]
<1>1. DOMAIN m \in SUBSET S /\ m \in [DOMAIN m -> T]
  BY MapOfElim
<1>2. Put(m, k, v) \in [DOMAIN m \cup {k} -> T]
  BY <1>1 DEF Put
<1>3. Put(m, k, v) \in MapOf(S, T)
  <2>1. DOMAIN m \cup {k} \in SUBSET S
    BY <1>1
  <2> QED
    BY <1>2, <2>1, MapOfIntro
<1> QED
  BY <1>2, <1>3 DEF Put

\* What remove does to a map.
LEMMA DropMap ==
  ASSUME NEW S, NEW T, NEW m \in MapOf(S, T), NEW k \in S
  PROVE  /\ Drop(m, k) \in MapOf(S, T)
         /\ DOMAIN Drop(m, k) = DOMAIN m \ {k}
         /\ \A x \in DOMAIN m \ {k} : Drop(m, k)[x] = m[x]
<1>1. DOMAIN m \in SUBSET S /\ m \in [DOMAIN m -> T]
  BY MapOfElim
<1>2. Drop(m, k) \in [DOMAIN m \ {k} -> T]
  BY <1>1 DEF Drop
<1>3. Drop(m, k) \in MapOf(S, T)
  <2>1. DOMAIN m \ {k} \in SUBSET S
    BY <1>1
  <2> QED
    BY <1>2, <2>1, MapOfIntro
<1> QED
  BY <1>2, <1>3 DEF Drop

\* Two maps are equal when they have the same domain and the same values.
LEMMA MapEqual ==
  ASSUME NEW S, NEW T, NEW m \in MapOf(S, T), NEW n \in MapOf(S, T),
         DOMAIN m = DOMAIN n, \A x \in DOMAIN m : m[x] = n[x]
  PROVE  m = n
<1>1. m \in [DOMAIN m -> T] /\ n \in [DOMAIN m -> T]
  BY MapOfElim
<1> QED
  BY <1>1

\* What an emitted pair, whose null value is a removal, does to a map of winners.
LEMMA PutOrRemoveMap ==
  ASSUME NEW m \in Winners, NEW k \in Keys, NEW v \in Values \cup {Null}
  PROVE  /\ PutOrRemove(m, k, v) \in Winners
         /\ DOMAIN PutOrRemove(m, k, v) = IF v = Null THEN DOMAIN m \ {k}
                                                      ELSE DOMAIN m \cup {k}
         /\ v # Null => PutOrRemove(m, k, v)[k] = v
         /\ \A x \in DOMAIN m \ {k} : PutOrRemove(m, k, v)[x] = m[x]
<1>0. m \in MapOf(Keys, Values)
  BY DEF Winners
<1>1. CASE v = Null
  <2>1. PutOrRemove(m, k, v) = Drop(m, k)
    BY <1>1 DEF PutOrRemove
  <2>2. Drop(m, k) \in MapOf(Keys, Values)
    BY <1>0, DropMap
  <2> QED
    BY <1>1, <2>1, <2>2 DEF Winners, Drop
<1>2. CASE v # Null
  <2>1. PutOrRemove(m, k, v) = Put(m, k, v) /\ v \in Values
    BY <1>2 DEF PutOrRemove
  <2>2. /\ Put(m, k, v) \in MapOf(Keys, Values)
        /\ DOMAIN Put(m, k, v) = DOMAIN m \cup {k}
        /\ Put(m, k, v)[k] = v
        /\ \A x \in DOMAIN m \ {k} : Put(m, k, v)[x] = m[x]
    <3>1. v \in Values
      BY <2>1
    <3>2. Put(m, k, v) \in MapOf(Keys, Values)
      BY <1>0, <3>1, PutMap
    <3> QED
      BY <3>2 DEF Put
  <2> QED
    BY <1>2, <2>1, <2>2 DEF Winners
<1> QED
  BY <1>1, <1>2

-----------------------------------------------------------------------------
(* The winner.                                                             *)

\* Between any two opinions one beats the other, and only one does.
LEMMA BeatsTotal ==
  ASSUME NEW op \in Opinions, NEW o \in DOMAIN op, NEW p \in DOMAIN op, o # p
  PROVE  /\ Beats(op, o, p) \/ Beats(op, p, o)
         /\ ~(Beats(op, o, p) /\ Beats(op, p, o))
<1>1. /\ o \in Owners /\ p \in Owners
      /\ op[o] \in Values /\ op[p] \in Values
  BY MapOfElim DEF Opinions
<1>2. /\ iterationRank[o] \in Int /\ iterationRank[p] \in Int
      /\ iterationRank[o] # iterationRank[p]
  BY <1>1, IterationAssumption
<1>3. /\ crStrategy(op[o], op[p]) \in Int /\ crStrategy(op[p], op[o]) \in Int
      /\ crStrategy(op[o], op[p]) > 0 <=> crStrategy(op[p], op[o]) < 0
      /\ crStrategy(op[p], op[o]) > 0 <=> crStrategy(op[o], op[p]) < 0
  BY <1>1, OrderingAssumption
<1> QED
  BY <1>2, <1>3 DEF Beats

\* Beating is transitive.
LEMMA BeatsTransitive ==
  ASSUME NEW op \in Opinions, NEW o \in DOMAIN op, NEW p \in DOMAIN op,
         NEW q \in DOMAIN op, Beats(op, o, p), Beats(op, p, q)
  PROVE  Beats(op, o, q)
<1>1. /\ o \in Owners /\ p \in Owners /\ q \in Owners
      /\ op[o] \in Values /\ op[p] \in Values /\ op[q] \in Values
  BY MapOfElim DEF Opinions
<1>2. /\ iterationRank[o] \in Int /\ iterationRank[p] \in Int
      /\ iterationRank[q] \in Int
  BY <1>1, IterationAssumption
<1>3. \A x, y \in {op[o], op[p], op[q]} :
        /\ crStrategy(x, y) \in Int
        /\ crStrategy(x, y) > 0 <=> crStrategy(y, x) < 0
        /\ \A z \in {op[o], op[p], op[q]} :
             crStrategy(x, y) >= 0 /\ crStrategy(y, z) >= 0
               => crStrategy(x, z) >= 0
  BY <1>1, OrderingAssumption
<1> DEFINE a == crStrategy(op[o], op[p])
           b == crStrategy(op[p], op[q])
           c == crStrategy(op[o], op[q])
           ra == crStrategy(op[p], op[o])
           rb == crStrategy(op[q], op[p])
           rc == crStrategy(op[q], op[o])
<1>4. /\ a \in Int /\ b \in Int /\ c \in Int
      /\ ra \in Int /\ rb \in Int /\ rc \in Int
      /\ (a > 0 <=> ra < 0) /\ (b > 0 <=> rb < 0) /\ (c > 0 <=> rc < 0)
      /\ (ra > 0 <=> a < 0) /\ (rb > 0 <=> b < 0) /\ (rc > 0 <=> c < 0)
  BY <1>3
<1>5. /\ a >= 0 /\ b >= 0 => c >= 0
      /\ rc >= 0 /\ a >= 0 => rb >= 0
      /\ b >= 0 /\ rc >= 0 => ra >= 0
  BY <1>3
<1>6. /\ a > 0 \/ (a = 0 /\ iterationRank[o] < iterationRank[p])
      /\ b > 0 \/ (b = 0 /\ iterationRank[p] < iterationRank[q])
  BY DEF Beats
<1>7. c > 0 \/ (c = 0 /\ iterationRank[o] < iterationRank[q])
  <2> HIDE DEF a, b, c, ra, rb, rc
  <2> QED
    BY <1>2, <1>4, <1>5, <1>6
<1> QED
  BY <1>7 DEF Beats

\* Among the opinions of any non-empty set of owners, one beats all the others.
\* The proof takes a smallest set without such an owner (the finite subsets
\* of Owners are well-founded under strict inclusion).
LEMMA WinnerAmong ==
  ASSUME NEW op \in Opinions, NEW D \in SUBSET DOMAIN op, D # {}
  PROVE  \E o \in D : \A p \in D \ {o} : Beats(op, o, p)
<1> DEFINE Has(X) == \E o \in X : \A p \in X \ {o} : Beats(op, o, p)
           Bad == {X \in SUBSET DOMAIN op : X # {} /\ ~Has(X)}
           R == StrictSubsetOrdering(Owners)
<1>1. DOMAIN op \subseteq Owners
  BY MapOfElim DEF Opinions
<1>2. IsWellFoundedOn(R, FiniteSubsetsOf(Owners))
  BY FS_StrictSubsetOrderingWellFounded
<1>3. FiniteSubsetsOf(Owners) = SUBSET Owners
  BY FS_FiniteSubsetsOfFinite, OwnersAssumption
<1>4. SUFFICES ASSUME Bad # {}
               PROVE  FALSE
  OBVIOUS
<1>5. Bad \subseteq FiniteSubsetsOf(Owners)
  BY <1>1, <1>3
<1>6. PICK X \in Bad : \A Y \in Bad : ~(<<Y, X>> \in R)
  <2> HIDE DEF Bad, R
  <2> QED
    BY <1>2, <1>4, <1>5, WFMin
<1>7. PICK x : x \in X
  BY <1>6
<1>8. X \ {x} \notin Bad
  <2>1. X \ {x} \in SUBSET Owners /\ X \in SUBSET Owners /\ X \ {x} # X
    BY <1>1, <1>6, <1>7
  <2>2. <<X \ {x}, X>> \in R
    BY <2>1 DEF StrictSubsetOrdering
  <2> QED
    BY <1>6, <2>2
<1>9. X \in SUBSET DOMAIN op /\ ~Has(X)
  BY <1>6
<1>10. CASE X \ {x} = {}
  BY <1>7, <1>9, <1>10
<1>11. CASE X \ {x} # {}
  <2>1. PICK o \in X \ {x} : \A p \in (X \ {x}) \ {o} : Beats(op, o, p)
    BY <1>8, <1>9, <1>11
  <2>2. CASE Beats(op, o, x)
    BY <1>9, <2>1, <2>2
  <2>3. CASE Beats(op, x, o)
    <3>1. \A p \in X \ {x} : Beats(op, x, p)
      BY <1>7, <1>9, <2>1, <2>3, BeatsTransitive
    <3> QED
      BY <1>7, <1>9, <3>1
  <2> QED
    BY <1>7, <1>9, <2>1, <2>2, <2>3, BeatsTotal
<1> QED
  BY <1>10, <1>11

\* winningPair of a non-empty map is an entry of the map that beats every other
\* entry, and the only one that does.
THEOREM WinningPairIsMaximal ==
  ASSUME NEW op \in Opinions, DOMAIN op # {}
  PROVE  LET w == winningOwner(op) IN
         /\ w \in DOMAIN op /\ w \in Owners
         /\ winningPair(op) = <<w, op[w]>>
         /\ op[w] \in Values
         /\ \A p \in DOMAIN op \ {w} : Beats(op, w, p)
         /\ \A o \in DOMAIN op :
              (\A p \in DOMAIN op \ {o} : Beats(op, o, p)) => o = w
<1> DEFINE w == winningOwner(op)
<1>1. w \in DOMAIN op /\ \A p \in DOMAIN op \ {w} : Beats(op, w, p)
  <2>1. \E o \in DOMAIN op : \A p \in DOMAIN op \ {o} : Beats(op, o, p)
    BY WinnerAmong
  <2> QED
    BY <2>1 DEF winningOwner
<1>2. w \in Owners /\ op[w] \in Values
  BY <1>1, MapOfElim DEF Opinions
<1>3. winningPair(op) = <<w, op[w]>>
  BY DEF winningPair
<1>4. ASSUME NEW o \in DOMAIN op, \A p \in DOMAIN op \ {o} : Beats(op, o, p)
      PROVE  o = w
  <2> HIDE DEF w
  <2> QED
    BY <1>1, <1>4, BeatsTotal
<1> QED
  BY <1>1, <1>2, <1>3, <1>4

\* winningPair of an empty map is (null, null).
LEMMA WinningPairOfEmpty ==
  ASSUME NEW op, DOMAIN op = {}
  PROVE  winningPair(op) = <<Null, Null>>
BY DEF winningPair

\* The winning value is null exactly when there is no opinion.
LEMMA WinningValue ==
  ASSUME NEW op \in Opinions
  PROVE  /\ winningPair(op)[2] \in Values \cup {Null}
         /\ winningPair(op)[2] = Null <=> DOMAIN op = {}
<1>1. CASE DOMAIN op = {}
  BY <1>1, WinningPairOfEmpty
<1>2. CASE DOMAIN op # {}
  <2>1. winningPair(op)[2] = op[winningOwner(op)]
        /\ op[winningOwner(op)] \in Values
    BY <1>2, WinningPairIsMaximal
  <2> QED
    BY <1>2, <2>1, NullAssumption
<1> QED
  BY <1>1, <1>2

\* A value compares as equal to itself.
LEMMA OrderingReflexive ==
  ASSUME NEW x \in Values
  PROVE  crStrategy(x, x) = 0
<1>1. crStrategy(x, x) \in Int
      /\ (crStrategy(x, x) > 0 <=> crStrategy(x, x) < 0)
  BY OrderingAssumption
<1> QED
  BY <1>1

\* No opinion is greater than the winning value.
LEMMA WinningValueIsGreatest ==
  ASSUME NEW op \in Opinions, NEW p \in DOMAIN op
  PROVE  crStrategy(winningPair(op)[2], op[p]) >= 0
<1> DEFINE w == winningOwner(op)
<1>1. /\ winningPair(op)[2] = op[w] /\ op[w] \in Values
      /\ p # w => Beats(op, w, p)
  BY WinningPairIsMaximal
<1>2. op[p] \in Values
  BY MapOfElim DEF Opinions
<1>3. crStrategy(op[w], op[p]) \in Int
  BY <1>1, <1>2, OrderingAssumption
<1>4. CASE p = w
  BY <1>1, <1>4, OrderingReflexive
<1>5. CASE p # w
  BY <1>1, <1>3, <1>5 DEF Beats
<1> QED
  BY <1>1, <1>4, <1>5

\* The only opinion on a key wins.
LEMMA OnlyOpinionWins ==
  ASSUME NEW op \in Opinions, NEW o, DOMAIN op = {o}
  PROVE  winningPair(op) = <<o, op[o]>>
BY WinningPairIsMaximal

-----------------------------------------------------------------------------
(* The cache.                                                              *)

\* The opinions on a key, present in the cache or not, are a map.
LEMMA OpinionsOnType ==
  ASSUME NEW c \in Caches, NEW k \in Keys
  PROVE  OpinionsOn(c, k) \in Opinions
<1>1. CASE k \in DOMAIN c
  BY <1>1, MapOfElim DEF OpinionsOn, Caches
<1>2. CASE k \notin DOMAIN c
  BY <1>2, EmptyMapType DEF OpinionsOn, Opinions
<1> QED
  BY <1>1, <1>2

\* Recording an opinion changes the opinions on its key and no others.
LEMMA WithOpinionCache ==
  ASSUME NEW c \in Caches, NEW k \in Keys, NEW v \in Values, NEW o \in Owners
  PROVE  LET d == WithOpinion(c, k, v, o) IN
         /\ d \in Caches
         /\ OpinionsOn(d, k) = Put(OpinionsOn(c, k), o, v)
         /\ \A x \in Keys \ {k} : OpinionsOn(d, x) = OpinionsOn(c, x)
         /\ Opinioned(d) = Opinioned(c) \cup {k}
<1> DEFINE op == Put(OpinionsOn(c, k), o, v)
           d == WithOpinion(c, k, v, o)
<1>1. OpinionsOn(c, k) \in MapOf(Owners, Values)
  BY OpinionsOnType DEF Opinions
<1>2. op \in MapOf(Owners, Values)
  BY <1>1, PutMap
<1>3. d = Put(c, k, op)
  BY DEF WithOpinion
<1>4. c \in MapOf(Keys, Opinions) /\ op \in Opinions
  BY <1>2 DEF Caches, Opinions
<1>5. d \in MapOf(Keys, Opinions)
  <2> HIDE DEF op, d
  <2> QED
    BY <1>3, <1>4, PutMap
<1>6. DOMAIN d = DOMAIN c \cup {k} /\ d[k] = op
      /\ \A x \in DOMAIN c \ {k} : d[x] = c[x]
  <2> HIDE DEF op, d
  <2> QED
    BY <1>3 DEF Put
<1>7. OpinionsOn(d, k) = op
  BY <1>6 DEF OpinionsOn
<1>8. \A x \in Keys \ {k} : OpinionsOn(d, x) = OpinionsOn(c, x)
  <2> HIDE DEF op, d
  <2> QED
    BY <1>6 DEF OpinionsOn
<1>9. DOMAIN op # {}
  BY DEF Put
<1>10. Opinioned(d) = Opinioned(c) \cup {k}
  <2> HIDE DEF op, d
  <2> QED
    BY <1>7, <1>8, <1>9 DEF Opinioned
<1> QED
  BY <1>5, <1>7, <1>8, <1>10 DEF Caches

\* Removing an opinion changes the opinions on its key and no others.
LEMMA WithoutOpinionCache ==
  ASSUME NEW c \in Caches, NEW k \in DOMAIN c, NEW o \in Owners
  PROVE  LET d == WithoutOpinion(c, k, o) IN
         /\ k \in Keys
         /\ d \in Caches
         /\ OpinionsOn(c, k) = c[k]
         /\ OpinionsOn(d, k) = Drop(c[k], o)
         /\ Drop(c[k], o) \in Opinions
         /\ \A x \in Keys \ {k} : OpinionsOn(d, x) = OpinionsOn(c, x)
         /\ Opinioned(d) = IF DOMAIN Drop(c[k], o) = {}
                           THEN Opinioned(c) \ {k} ELSE Opinioned(c)
<1> DEFINE op == Drop(c[k], o)
           d == WithoutOpinion(c, k, o)
<1>1. k \in Keys /\ c[k] \in Opinions
  BY MapOfElim DEF Caches
<1>2. c[k] \in MapOf(Owners, Values)
  BY <1>1 DEF Opinions
<1>3. op \in MapOf(Owners, Values)
  BY <1>2, DropMap
<1>4. d = Put(c, k, op)
  BY DEF WithoutOpinion
<1>5. c \in MapOf(Keys, Opinions) /\ op \in Opinions
  BY <1>3 DEF Caches, Opinions
<1>6. d \in MapOf(Keys, Opinions)
  <2> HIDE DEF op, d
  <2> QED
    BY <1>1, <1>4, <1>5, PutMap
<1>7. DOMAIN d = DOMAIN c \cup {k} /\ d[k] = op
      /\ \A x \in DOMAIN c \ {k} : d[x] = c[x]
  <2> HIDE DEF op, d
  <2> QED
    BY <1>4 DEF Put
<1>8. OpinionsOn(d, k) = op /\ OpinionsOn(c, k) = c[k]
  BY <1>7 DEF OpinionsOn
<1>9. \A x \in Keys \ {k} : OpinionsOn(d, x) = OpinionsOn(c, x)
  <2> HIDE DEF op, d
  <2> QED
    BY <1>7 DEF OpinionsOn
<1>10. DOMAIN op # {} => DOMAIN c[k] # {}
  BY DEF Drop
<1>11. Opinioned(d) = IF DOMAIN op = {} THEN Opinioned(c) \ {k} ELSE Opinioned(c)
  <2> HIDE DEF op, d
  <2> QED
    BY <1>1, <1>8, <1>9, <1>10 DEF Opinioned
<1> QED
  BY <1>1, <1>5, <1>6, <1>8, <1>9, <1>11 DEF Caches

\* entryCount is incremented exactly when the key had no opinion.
LEMMA EntryAppearsMeaning ==
  ASSUME NEW c \in Caches, NEW k \in Keys
  PROVE  EntryAppears(c, k) <=> k \notin Opinioned(c)
BY EmptyMapType DEF EntryAppears, Opinioned, OpinionsOn

\* entryCount is decremented exactly when the key loses its last opinion.
LEMMA EntryDisappearsMeaning ==
  ASSUME NEW c \in Caches, NEW k \in DOMAIN c, NEW o \in Owners
  PROVE  EntryDisappears(c, k, o) <=>
           k \in Opinioned(c) /\ DOMAIN Drop(c[k], o) = {}
<1>1. k \in Keys /\ c[k] \in Opinions /\ OpinionsOn(c, k) = c[k]
  BY MapOfElim DEF Caches, OpinionsOn
<1>2. winningPair(c[k])[2] = Null <=> DOMAIN c[k] = {}
  BY <1>1, WinningValue
<1> QED
  BY <1>1, <1>2 DEF EntryDisappears, Opinioned

-----------------------------------------------------------------------------
(* An addition that does not win.                                          *)

\* Then another owner wins, it had its opinion before, and that opinion is no
\* smaller than the one just added.
LEMMA LosingAddition ==
  ASSUME NEW op \in Opinions, NEW o \in Owners, NEW v \in Values,
         winningPair(Put(op, o, v)) # <<o, v>>
  PROVE  LET w == winningOwner(Put(op, o, v)) IN
         /\ Put(op, o, v) \in Opinions
         /\ w # o /\ w \in DOMAIN op
         /\ winningPair(Put(op, o, v)) = <<w, op[w]>>
         /\ op[w] \in Values
         /\ crStrategy(op[w], v) >= 0
         /\ \A p \in DOMAIN op \ {o, w} : Beats(op, w, p)
         /\ \/ crStrategy(op[w], v) > 0
            \/ crStrategy(op[w], v) = 0 /\ iterationRank[w] < iterationRank[o]
<1> DEFINE new == Put(op, o, v)
           w == winningOwner(new)
<1>1. op \in MapOf(Owners, Values)
  BY DEF Opinions
<1>2. new \in Opinions
  BY <1>1, PutMap DEF Opinions
<1>3. /\ DOMAIN new = DOMAIN op \cup {o} /\ new[o] = v
      /\ \A x \in DOMAIN op \ {o} : new[x] = op[x]
  BY DEF Put
<1>4. /\ w \in DOMAIN new /\ winningPair(new) = <<w, new[w]>>
      /\ \A p \in DOMAIN new \ {w} : Beats(new, w, p)
      /\ new[w] \in Values
  BY <1>2, <1>3, WinningPairIsMaximal
<1>5. w # o
  <2> HIDE DEF w, new
  <2> QED
    BY <1>3, <1>4 DEF new
<1>6. w \in DOMAIN op /\ new[w] = op[w]
  BY <1>3, <1>4, <1>5
<1>7. Beats(new, w, o)
  BY <1>3, <1>4, <1>5
<1>8. \A p \in DOMAIN op \ {o, w} : Beats(op, w, p)
  <2> HIDE DEF w, new
  <2>1. \A p \in DOMAIN op \ {o, w} : Beats(new, w, p) /\ new[p] = op[p]
    BY <1>3, <1>4
  <2> QED
    BY <1>6, <2>1 DEF Beats
<1>9. \/ crStrategy(op[w], v) > 0
      \/ crStrategy(op[w], v) = 0 /\ iterationRank[w] < iterationRank[o]
  <2> HIDE DEF w, new
  <2> QED
    BY <1>3, <1>6, <1>7 DEF Beats
<1>10. crStrategy(op[w], v) \in Int
  BY <1>4, <1>6, OrderingAssumption
<1>11. crStrategy(op[w], v) >= 0
  BY <1>9, <1>10
<1> QED
  BY <1>2, <1>4, <1>5, <1>6, <1>8, <1>9, <1>11

\* If moreover the owner does not lower its own opinion, the winning pair is the
\* one there was before.
LEMMA MonotoneLosingAddition ==
  ASSUME NEW op \in Opinions, NEW o \in Owners, NEW v \in Values,
         winningPair(Put(op, o, v)) # <<o, v>>,
         o \in DOMAIN op => crStrategy(v, op[o]) >= 0
  PROVE  winningPair(Put(op, o, v)) = winningPair(op)
<1> DEFINE w == winningOwner(Put(op, o, v))
<1>1. /\ w # o /\ w \in DOMAIN op
      /\ winningPair(Put(op, o, v)) = <<w, op[w]>>
      /\ op[w] \in Values
      /\ \A p \in DOMAIN op \ {o, w} : Beats(op, w, p)
      /\ \/ crStrategy(op[w], v) > 0
         \/ crStrategy(op[w], v) = 0 /\ iterationRank[w] < iterationRank[o]
  BY LosingAddition
<1> HIDE DEF w
<1>2. ASSUME o \in DOMAIN op
      PROVE  Beats(op, w, o)
  <2>1. op[o] \in Values /\ crStrategy(v, op[o]) >= 0
    BY <1>2, MapOfElim DEF Opinions
  <2> DEFINE a == crStrategy(op[w], v)
             b == crStrategy(v, op[o])
             c == crStrategy(op[w], op[o])
             ra == crStrategy(v, op[w])
             rc == crStrategy(op[o], op[w])
  <2>2. /\ a \in Int /\ b \in Int /\ c \in Int /\ ra \in Int /\ rc \in Int
        /\ (a > 0 <=> ra < 0) /\ (c > 0 <=> rc < 0)
        /\ (ra > 0 <=> a < 0) /\ (rc > 0 <=> c < 0)
    BY <1>1, <2>1, OrderingAssumption
  <2>3. /\ a >= 0 /\ b >= 0 => c >= 0
        /\ b >= 0 /\ rc >= 0 => ra >= 0
    BY <1>1, <2>1, OrderingAssumption
  <2>4. b >= 0 /\ (a > 0 \/ (a = 0 /\ iterationRank[w] < iterationRank[o]))
    BY <1>1, <2>1
  <2>5. c > 0 \/ (c = 0 /\ iterationRank[w] < iterationRank[o])
    <3> HIDE DEF a, b, c, ra, rc
    <3> QED
      BY <2>2, <2>3, <2>4
  <2> QED
    BY <2>5 DEF Beats
<1>3. \A p \in DOMAIN op \ {w} : Beats(op, w, p)
  BY <1>1, <1>2
<1>4. w = winningOwner(op) /\ winningPair(op) = <<winningOwner(op), op[winningOwner(op)]>>
  BY <1>1, <1>3, WinningPairIsMaximal
<1> QED
  BY <1>1, <1>4
=============================================================================
