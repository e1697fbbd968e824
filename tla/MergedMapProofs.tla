-------------------------- MODULE MergedMapProofs --------------------------
(***************************************************************************)
(* Proofs about one replica of a merged map, for every set of keys,        *)
(* owners, values and subscribers and every ordering of the values.        *)
(***************************************************************************)
EXTENDS MergedMap, WinnerTheorems

-----------------------------------------------------------------------------
(* Type correctness.                                                       *)

\* The fields of a task.
LEMMA TaskFields ==
  ASSUME task \in Tasks
  PROVE  /\ task.at \in {"idle", "join", "update", "emit"}
         /\ task.at \in {"update", "emit"} =>
              task.key \in Keys /\ task.value \in Values \cup {Null}
         /\ task = Idle <=> task.at = "idle"
         /\ task = Joining <=> task.at = "join"
BY DEF Tasks, Idle, Joining

\* The types hold initially.
LEMMA TypeInit == Init => TypeOK
<1> SUFFICES ASSUME Init PROVE TypeOK
  OBVIOUS
<1>1. EmptyMap \in Caches /\ EmptyMap \in Winners
  BY EmptyMapType DEF Caches, Winners
<1> QED
  BY <1>1 DEF Init, TypeOK, Tasks, SubscriberStates

\* entryCount is left out: that it stays a natural number needs the invariant
\* that it counts the keys with an opinion.
TypeOKButCount ==
  /\ cache \in Caches
  /\ winners \in Winners
  /\ task \in Tasks
  /\ subscriber \in [Subscribers -> SubscriberStates]
  /\ view \in [Subscribers -> Winners]
  /\ completed \in BOOLEAN

\* Every step keeps the types.
LEMMA TypeStep ==
  ASSUME TypeOK, [Next]_vars
  PROVE  TypeOKButCount'
<1> USE DEF TypeOK, TypeOKButCount
<1>1. ASSUME NEW k \in Keys, NEW v \in Values, NEW o \in Owners,
             onOpinionAddition(k, v, o)
      PROVE  TypeOKButCount'
  <2>1. cache' \in Caches
    BY <1>1, WithOpinionCache DEF onOpinionAddition
  <2>2. task' \in Tasks
    BY <1>1 DEF onOpinionAddition, Tasks
  <2> QED
    BY <1>1, <2>1, <2>2 DEF onOpinionAddition
<1>2. ASSUME NEW k \in Keys, NEW o \in Owners, onOpinionRemoval(k, o)
      PROVE  TypeOKButCount'
  <2>1. cache' \in Caches /\ Drop(cache[k], o) \in Opinions
    BY <1>2, WithoutOpinionCache DEF onOpinionRemoval
  <2>2. winningPair(Drop(cache[k], o))[2] \in Values \cup {Null}
    BY <2>1, WinningValue
  <2>3. task' \in Tasks
    BY <1>2, <2>2 DEF onOpinionRemoval, Tasks
  <2> QED
    BY <1>2, <2>1, <2>3 DEF onOpinionRemoval
<1>3. CASE updateWinners
  <2>1. task.key \in Keys /\ task.value \in Values \cup {Null}
    BY <1>3, TaskFields DEF updateWinners
  <2>2. winners' \in Winners
    BY <1>3, <2>1, PutOrRemoveMap DEF updateWinners
  <2>3. task' \in Tasks
    <3>1. task \in [at: {"update", "emit"}, key: Keys, value: Values \cup {Null}]
      BY <1>3 DEF updateWinners, Tasks, Idle, Joining
    <3> QED
      BY <1>3, <3>1 DEF updateWinners, Tasks
  <2> QED
    BY <1>3, <2>2, <2>3 DEF updateWinners
<1>4. CASE emitWinner
  <2>1. task.key \in Keys /\ task.value \in Values \cup {Null}
    BY <1>4, TaskFields DEF emitWinner
  <2>2. \A s \in Subscribers : PutOrRemove(view[s], task.key, task.value) \in Winners
    BY <2>1, PutOrRemoveMap
  <2>3. view' \in [Subscribers -> Winners]
    BY <1>4, <2>2 DEF emitWinner
  <2> QED
    BY <1>4, <2>3 DEF emitWinner, Tasks
<1>5. ASSUME NEW s \in Subscribers, Subscribe(s)
      PROVE  TypeOKButCount'
  BY <1>5 DEF Subscribe, SubscriberStates
<1>6. ASSUME NEW s \in Subscribers, onSubscribe(s)
      PROVE  TypeOKButCount'
  BY <1>6 DEF onSubscribe, SubscriberStates, Tasks
<1>7. ASSUME NEW s \in Subscribers, joinSubject(s)
      PROVE  TypeOKButCount'
  BY <1>7 DEF joinSubject, SubscriberStates, Tasks
<1>8. CASE onCompleted
  BY <1>8 DEF onCompleted, SubscriberStates
<1>9. CASE UNCHANGED vars
  BY <1>9 DEF vars
<1> QED
  BY <1>1, <1>2, <1>3, <1>4, <1>5, <1>6, <1>7, <1>8, <1>9
     DEF Next, onNewOpinion

-----------------------------------------------------------------------------
(* The inductive invariant.                                                *)

\* The winners with a task's update applied are a map of winners.
LEMMA SettledType ==
  ASSUME NEW m \in Winners, NEW t \in Tasks
  PROVE  (IF t.at = "update" THEN PutOrRemove(m, t.key, t.value) ELSE m) \in Winners
<1>1. t.at = "update" => t.key \in Keys /\ t.value \in Values \cup {Null}
  BY DEF Tasks, Idle, Joining
<1> QED
  BY <1>1, PutOrRemoveMap

\* No opinion has been recorded at the start.
LEMMA NothingOpinioned ==
  Opinioned(EmptyMap) = {}
BY DEF Opinioned, OpinionsOn, EmptyMap

\* The invariant holds initially.
LEMMA InvInit == Init => IInv
<1> SUFFICES ASSUME Init PROVE IInv
  OBVIOUS
<1>1. TypeOK
  BY TypeInit
<1>2. CountsOpinioned
  BY NothingOpinioned, FS_EmptySet DEF Init, CountsOpinioned
<1>3. SettledWinners = EmptyMap /\ DOMAIN EmptyMap = {}
  BY DEF Init, Idle, SettledWinners, EmptyMap
<1>4. ExposedIffOpinion /\ NoOpinionBeatsWinner
  BY <1>3, NothingOpinioned DEF Init, ExposedIffOpinion, NoOpinionBeatsWinner
<1>5. SubscribersInStep /\ JoiningHoldsExecutor
  BY DEF Init, SubscribersInStep, JoiningHoldsExecutor
<1> QED
  BY <1>1, <1>2, <1>4, <1>5 DEF IInv

\* onOpinionAddition preserves the invariant.
LEMMA InvAddition ==
  ASSUME IInv, TypeOKButCount',
         NEW k \in Keys, NEW v \in Values, NEW o \in Owners,
         onOpinionAddition(k, v, o)
  PROVE  IInv'
<1> DEFINE op == OpinionsOn(cache, k)
           new == Put(op, o, v)
<1>1. TypeOK /\ task.at = "idle" /\ winners \in Winners /\ cache \in Caches
  BY DEF IInv, TypeOK, onOpinionAddition, Idle
<1>2. /\ cache' \in Caches
      /\ OpinionsOn(cache', k) = new
      /\ \A x \in Keys \ {k} : OpinionsOn(cache', x) = OpinionsOn(cache, x)
      /\ Opinioned(cache') = Opinioned(cache) \cup {k}
  BY <1>1, WithOpinionCache DEF onOpinionAddition
<1>3. op \in Opinions /\ new \in Opinions
  BY <1>1, <1>2, OpinionsOnType
<1>4. SettledWinners = winners /\ winners' = winners
  BY <1>1 DEF SettledWinners, onOpinionAddition
<1>5. AdditionWins(cache, k, v, o) <=> winningPair(new) = <<o, v>>
  BY <1>2 DEF AdditionWins, onOpinionAddition
<1>6. SettledWinners' = IF winningPair(new) = <<o, v>> THEN Put(winners, k, v)
                                                       ELSE winners
  <2>1. CASE winningPair(new) = <<o, v>>
    <3>1. task'.at = "update" /\ task'.key = k /\ task'.value = v
      BY <1>5, <2>1 DEF onOpinionAddition
    <3> QED
      BY <1>4, <2>1, <3>1, NullAssumption DEF SettledWinners, PutOrRemove
  <2>2. CASE winningPair(new) # <<o, v>>
    <3>1. task'.at = "idle"
      BY <1>5, <2>2 DEF onOpinionAddition, Idle
    <3> QED
      BY <1>4, <2>2, <3>1 DEF SettledWinners
  <2> QED
    BY <2>1, <2>2
<1>7. winningPair(new) # <<o, v>> => k \in DOMAIN winners
  <2> SUFFICES ASSUME winningPair(new) # <<o, v>> PROVE k \in DOMAIN winners
    OBVIOUS
  <2>1. DOMAIN op # {}
    BY <1>3, LosingAddition
  <2> QED
    BY <1>4, <2>1 DEF IInv, ExposedIffOpinion, Opinioned
<1>8. CountsOpinioned'
  <2>1. IsFiniteSet(Opinioned(cache))
    BY FS_Subset, OwnersAssumption DEF Opinioned
  <2>2. EntryAppears(cache, k) <=> k \notin Opinioned(cache)
    BY <1>1, EntryAppearsMeaning
  <2> QED
    BY <1>2, <2>1, <2>2, FS_AddElement
       DEF IInv, CountsOpinioned, onOpinionAddition
<1>9. TypeOK'
  <2>1. entryCount' \in Nat
    BY DEF IInv, TypeOK, onOpinionAddition
  <2> QED
    BY <2>1 DEF TypeOK, TypeOKButCount
<1>10. ExposedIffOpinion'
  <2>1. DOMAIN winners = Opinioned(cache)
    BY <1>4 DEF IInv, ExposedIffOpinion
  <2>2. DOMAIN Put(winners, k, v) = DOMAIN winners \cup {k}
    BY DEF Put
  <2> QED
    BY <1>2, <1>6, <1>7, <2>1, <2>2 DEF ExposedIffOpinion
<1>11. NoOpinionBeatsWinner'
  <2> SUFFICES ASSUME NEW x \in DOMAIN SettledWinners',
                      NEW p \in DOMAIN OpinionsOn(cache', x)
               PROVE  crStrategy(SettledWinners'[x], OpinionsOn(cache', x)[p]) >= 0
    BY DEF NoOpinionBeatsWinner
  <2>1. x \in Keys /\ (x # k => x \in DOMAIN winners)
    <3>1. DOMAIN winners \subseteq Keys
      BY <1>1, MapOfElim DEF Winners
    <3> QED
      BY <1>6, <3>1 DEF Put
  <2>2. CASE x # k
    <3>1. SettledWinners'[x] = winners[x]
      BY <1>6, <2>1, <2>2 DEF Put
    <3> QED
      BY <1>2, <1>4, <2>1, <2>2, <3>1 DEF IInv, NoOpinionBeatsWinner
  <2>3. CASE x = k /\ winningPair(new) = <<o, v>>
    <3>1. SettledWinners'[x] = winningPair(new)[2]
      BY <1>6, <2>3 DEF Put
    <3> QED
      BY <1>2, <1>3, <2>3, <3>1, WinningValueIsGreatest
  <2>4. CASE x = k /\ winningPair(new) # <<o, v>>
    <3> DEFINE w == winningOwner(new)
    <3>1. w \in DOMAIN op /\ op[w] \in Values /\ crStrategy(op[w], v) >= 0
      BY <1>3, <2>4, LosingAddition
    <3>2. k \in DOMAIN winners /\ winners[k] \in Values /\ SettledWinners'[x] = winners[k]
      BY <1>1, <1>6, <1>7, <2>4, MapOfElim DEF Winners
    <3>3. \A q \in DOMAIN op : crStrategy(winners[k], op[q]) >= 0
      BY <1>4, <3>2 DEF IInv, NoOpinionBeatsWinner
    <3>4. CASE p = o
      <4>1. OpinionsOn(cache', x)[p] = v
        BY <1>2, <2>4, <3>4 DEF Put
      <4>2. crStrategy(winners[k], op[w]) >= 0
        BY <3>1, <3>3
      <4>3. crStrategy(winners[k], v) >= 0
        BY <3>1, <3>2, <4>2, OrderingAssumption
      <4> QED
        BY <3>2, <4>1, <4>3
    <3>5. CASE p # o
      <4>1. p \in DOMAIN op /\ OpinionsOn(cache', x)[p] = op[p]
        BY <1>2, <2>4, <3>5 DEF Put
      <4> QED
        BY <3>2, <3>3, <4>1
    <3> QED
      BY <3>4, <3>5
  <2> QED
    BY <2>2, <2>3, <2>4
<1>12. task'.at # "emit" /\ task' # Joining /\ task # Joining
  BY <1>1 DEF onOpinionAddition, Idle, Joining
<1>13. SubscribersInStep'
  BY <1>1, <1>12 DEF IInv, SubscribersInStep, onOpinionAddition, snapshot
<1>14. JoiningHoldsExecutor'
  BY <1>12 DEF IInv, JoiningHoldsExecutor, onOpinionAddition
<1> QED
  BY <1>8, <1>9, <1>10, <1>11, <1>13, <1>14 DEF IInv

\* onOpinionRemoval preserves the invariant.
LEMMA InvRemoval ==
  ASSUME IInv, TypeOKButCount', NEW k \in Keys, NEW o \in Owners,
         onOpinionRemoval(k, o)
  PROVE  IInv'
<1> DEFINE op == cache[k]
           new == Drop(cache[k], o)
           nv == winningPair(new)[2]
<1>1. /\ TypeOK /\ task.at = "idle" /\ winners \in Winners /\ cache \in Caches
      /\ k \in DOMAIN cache
  BY DEF IInv, TypeOK, onOpinionRemoval, Idle
<1>2. /\ cache' \in Caches
      /\ OpinionsOn(cache, k) = op
      /\ OpinionsOn(cache', k) = new
      /\ new \in Opinions
      /\ \A x \in Keys \ {k} : OpinionsOn(cache', x) = OpinionsOn(cache, x)
      /\ Opinioned(cache') = IF DOMAIN new = {} THEN Opinioned(cache) \ {k}
                                                 ELSE Opinioned(cache)
  BY <1>1, WithoutOpinionCache DEF onOpinionRemoval
<1>3. op \in Opinions
  BY <1>1, <1>2, OpinionsOnType
<1>4. SettledWinners = winners /\ winners' = winners
  BY <1>1 DEF SettledWinners, onOpinionRemoval
<1>5. nv \in Values \cup {Null} /\ (nv = Null <=> DOMAIN new = {})
  BY <1>2, WinningValue
<1>6. SettledWinners' = IF winningPair(op) # winningPair(new)
                        THEN PutOrRemove(winners, k, nv) ELSE winners
  <2>1. CASE winningPair(op) # winningPair(new)
    <3>1. task'.at = "update" /\ task'.key = k /\ task'.value = nv
      BY <2>1 DEF onOpinionRemoval, RemovalChangesWinner
    <3> QED
      BY <1>4, <2>1, <3>1 DEF SettledWinners
  <2>2. CASE winningPair(op) = winningPair(new)
    <3>1. task'.at = "idle"
      BY <2>2 DEF onOpinionRemoval, RemovalChangesWinner, Idle
    <3> QED
      BY <1>4, <2>2, <3>1 DEF SettledWinners
  <2> QED
    BY <2>1, <2>2
<1>7. winningPair(op) = winningPair(new) => (DOMAIN op = {} <=> DOMAIN new = {})
  BY <1>2, <1>3, WinningValue
<1>8. IsFiniteSet(Opinioned(cache)) /\ (k \in Opinioned(cache) <=> DOMAIN op # {})
  BY <1>2, FS_Subset, OwnersAssumption DEF Opinioned
<1>9. CountsOpinioned' /\ entryCount' \in Nat
  <2>1. EntryDisappears(cache, k, o) <=> k \in Opinioned(cache) /\ DOMAIN new = {}
    BY <1>1, EntryDisappearsMeaning
  <2>2. Cardinality(Opinioned(cache) \ {k}) =
          IF k \in Opinioned(cache) THEN Cardinality(Opinioned(cache)) - 1
                                    ELSE Cardinality(Opinioned(cache))
    BY <1>8, FS_RemoveElement
  <2>3. CountsOpinioned'
    BY <1>2, <1>8, <2>1, <2>2 DEF IInv, CountsOpinioned, onOpinionRemoval
  <2>4. IsFiniteSet(Opinioned(cache'))
    BY <1>2, <1>8, FS_RemoveElement
  <2> QED
    BY <2>3, <2>4, FS_CardinalityType DEF CountsOpinioned
<1>10. TypeOK'
  BY <1>9 DEF TypeOK, TypeOKButCount
<1>11. /\ DOMAIN PutOrRemove(winners, k, nv) =
            IF nv = Null THEN DOMAIN winners \ {k} ELSE DOMAIN winners \cup {k}
       /\ nv # Null => PutOrRemove(winners, k, nv)[k] = nv
       /\ \A x \in DOMAIN winners \ {k} : PutOrRemove(winners, k, nv)[x] = winners[x]
  <2> HIDE DEF nv
  <2> QED
    BY DEF PutOrRemove, Put, Drop
<1>12. ExposedIffOpinion'
  <2>1. DOMAIN winners = Opinioned(cache)
    BY <1>4 DEF IInv, ExposedIffOpinion
  <2>2. CASE winningPair(op) = winningPair(new)
    BY <1>2, <1>6, <1>7, <1>8, <2>1, <2>2 DEF ExposedIffOpinion
  <2>3. CASE winningPair(op) # winningPair(new)
    <3>1. DOMAIN new # {} => DOMAIN op # {}
      BY DEF Drop
    <3> QED
      BY <1>2, <1>5, <1>6, <1>8, <1>11, <2>1, <2>3, <3>1 DEF ExposedIffOpinion
  <2> QED
    BY <2>2, <2>3
<1>13. NoOpinionBeatsWinner'
  <2> SUFFICES ASSUME NEW x \in DOMAIN SettledWinners',
                      NEW p \in DOMAIN OpinionsOn(cache', x)
               PROVE  crStrategy(SettledWinners'[x], OpinionsOn(cache', x)[p]) >= 0
    BY DEF NoOpinionBeatsWinner
  <2>1. DOMAIN winners \subseteq Keys
    BY <1>1, MapOfElim DEF Winners
  <2>2. CASE x # k
    <3>1. x \in DOMAIN winners
      BY <1>6, <1>11, <2>2
    <3>2. SettledWinners'[x] = winners[x]
      BY <1>6, <1>11, <2>2, <3>1
    <3> QED
      BY <1>2, <1>4, <2>1, <2>2, <3>1, <3>2 DEF IInv, NoOpinionBeatsWinner
  <2>3. CASE x = k /\ winningPair(op) # winningPair(new)
    <3>1. p \in DOMAIN new /\ OpinionsOn(cache', x)[p] = new[p]
      BY <1>2, <2>3
    <3>2. nv # Null
      BY <1>5, <3>1
    <3>3. SettledWinners'[x] = nv
      BY <1>6, <1>11, <2>3, <3>2
    <3> QED
      BY <1>2, <3>1, <3>3, WinningValueIsGreatest
  <2>4. CASE x = k /\ winningPair(op) = winningPair(new)
    <3>1. SettledWinners'[x] = winners[k] /\ k \in DOMAIN winners
      BY <1>6, <2>4
    <3>2. p \in DOMAIN op /\ OpinionsOn(cache', x)[p] = op[p]
      BY <1>2, <2>4 DEF Drop
    <3> QED
      BY <1>2, <1>4, <3>1, <3>2 DEF IInv, NoOpinionBeatsWinner
  <2> QED
    BY <2>2, <2>3, <2>4
<1>14. task'.at # "emit" /\ task' # Joining /\ task # Joining
  BY <1>1 DEF onOpinionRemoval, Idle, Joining
<1>15. SubscribersInStep'
  BY <1>1, <1>14 DEF IInv, SubscribersInStep, onOpinionRemoval, snapshot
<1>16. JoiningHoldsExecutor'
  BY <1>14 DEF IInv, JoiningHoldsExecutor, onOpinionRemoval
<1> QED
  BY <1>9, <1>10, <1>12, <1>13, <1>15, <1>16 DEF IInv

\* The steps that leave the opinions and the settled winners alone preserve the
\* part of the invariant about them.
LEMMA InvSameOpinions ==
  ASSUME IInv, TypeOKButCount', cache' = cache, entryCount' = entryCount,
         SettledWinners' = SettledWinners
  PROVE  TypeOK' /\ CountsOpinioned' /\ ExposedIffOpinion' /\ NoOpinionBeatsWinner'
BY DEF IInv, TypeOK, TypeOKButCount, CountsOpinioned, ExposedIffOpinion,
       NoOpinionBeatsWinner

\* updateWinners keeps it: what was to be settled is now exposed.
LEMMA InvUpdate ==
  ASSUME IInv, TypeOKButCount', updateWinners
  PROVE  IInv'
<1>1. /\ task'.at = "emit" /\ task'.key = task.key /\ task'.value = task.value
      /\ task # Joining
  BY TaskFields DEF IInv, TypeOK, updateWinners, Tasks, Idle, Joining
<1>2. SettledWinners' = SettledWinners
  BY <1>1 DEF updateWinners, SettledWinners
<1>3. TypeOK' /\ CountsOpinioned' /\ ExposedIffOpinion' /\ NoOpinionBeatsWinner'
  BY <1>2, InvSameOpinions DEF updateWinners
<1>4. SubscribersInStep'
  BY <1>1 DEF IInv, SubscribersInStep, updateWinners, snapshot
<1>5. JoiningHoldsExecutor'
  BY <1>1 DEF IInv, JoiningHoldsExecutor, updateWinners
<1> QED
  BY <1>3, <1>4, <1>5 DEF IInv

\* emitWinner keeps it: the views of the subscribers follow the winners.
LEMMA InvEmit ==
  ASSUME IInv, TypeOKButCount', emitWinner
  PROVE  IInv'
<1>1. task'.at = "idle" /\ task # Joining
  BY DEF emitWinner, Idle, Joining
<1>2. SettledWinners' = SettledWinners
  BY <1>1 DEF emitWinner, SettledWinners
<1>3. TypeOK' /\ CountsOpinioned' /\ ExposedIffOpinion' /\ NoOpinionBeatsWinner'
  BY <1>2, InvSameOpinions DEF emitWinner
<1>4. SubscribersInStep'
  BY <1>1 DEF IInv, SubscribersInStep, emitWinner, snapshot
<1>5. JoiningHoldsExecutor'
  BY <1>1 DEF IInv, JoiningHoldsExecutor, emitWinner
<1> QED
  BY <1>3, <1>4, <1>5 DEF IInv

\* The three steps of a subscription.
LEMMA InvSubscription ==
  ASSUME IInv, TypeOKButCount', NEW s \in Subscribers,
         Subscribe(s) \/ onSubscribe(s) \/ joinSubject(s)
  PROVE  IInv'
<1>0. subscriber \in [Subscribers -> SubscriberStates]
      /\ view \in [Subscribers -> Winners]
  BY DEF IInv, TypeOK
<1>1. CASE Subscribe(s)
  <2>1. SettledWinners' = SettledWinners
    BY <1>1 DEF Subscribe, SettledWinners
  <2>2. TypeOK' /\ CountsOpinioned' /\ ExposedIffOpinion' /\ NoOpinionBeatsWinner'
    BY <1>1, <2>1, InvSameOpinions DEF Subscribe
  <2>3. SubscribersInStep' /\ JoiningHoldsExecutor'
    BY <1>0, <1>1 DEF IInv, SubscribersInStep, JoiningHoldsExecutor, Subscribe, snapshot
  <2> QED
    BY <2>2, <2>3 DEF IInv
<1>2. CASE onSubscribe(s)
  <2>1. task.at = "idle" /\ task'.at = "join" /\ task # Joining /\ task' = Joining
    BY <1>2 DEF onSubscribe, Idle, Joining
  <2>2. SettledWinners' = SettledWinners
    BY <1>2, <2>1 DEF onSubscribe, SettledWinners
  <2>3. TypeOK' /\ CountsOpinioned' /\ ExposedIffOpinion' /\ NoOpinionBeatsWinner'
    BY <1>2, <2>2, InvSameOpinions DEF onSubscribe
  <2>4. SubscribersInStep'
    BY <1>0, <1>2, <2>1 DEF IInv, SubscribersInStep, onSubscribe, snapshot
  <2>5. JoiningHoldsExecutor'
    BY <1>0, <1>2, <2>1 DEF IInv, JoiningHoldsExecutor, onSubscribe
  <2> QED
    BY <2>3, <2>4, <2>5 DEF IInv
<1>3. CASE joinSubject(s)
  <2>1. task = Joining /\ task.at = "join" /\ task'.at = "idle" /\ view[s] = winners
    BY <1>3 DEF IInv, JoiningHoldsExecutor, joinSubject, Idle, Joining
  <2>2. SettledWinners' = SettledWinners
    BY <1>3, <2>1 DEF joinSubject, SettledWinners
  <2>3. TypeOK' /\ CountsOpinioned' /\ ExposedIffOpinion' /\ NoOpinionBeatsWinner'
    BY <1>3, <2>2, InvSameOpinions DEF joinSubject
  <2>4. SubscribersInStep'
    BY <1>0, <1>3, <2>1 DEF IInv, SubscribersInStep, joinSubject, snapshot
  <2>5. JoiningHoldsExecutor'
    BY <1>0, <1>3, <2>1 DEF IInv, JoiningHoldsExecutor, joinSubject
  <2> QED
    BY <2>3, <2>4, <2>5 DEF IInv
<1> QED
  BY <1>1, <1>2, <1>3

\* onCompleted keeps it.
LEMMA InvCompleted ==
  ASSUME IInv, TypeOKButCount', onCompleted \/ UNCHANGED vars
  PROVE  IInv'
<1>0. subscriber \in [Subscribers -> SubscriberStates]
  BY DEF IInv, TypeOK
<1>1. SettledWinners' = SettledWinners
  BY DEF onCompleted, vars, SettledWinners
<1>2. TypeOK' /\ CountsOpinioned' /\ ExposedIffOpinion' /\ NoOpinionBeatsWinner'
  BY <1>1, InvSameOpinions DEF onCompleted, vars
<1>3. SubscribersInStep' /\ JoiningHoldsExecutor'
  BY <1>0 DEF IInv, SubscribersInStep, JoiningHoldsExecutor, onCompleted, vars, snapshot
<1> QED
  BY <1>2, <1>3 DEF IInv

\* IInv holds in every state: what the owners publish and when observers
\* subscribe does not matter.
THEOREM Invariance == Spec => []IInv
<1>1. Init => IInv
  BY InvInit
<1>2. IInv /\ [Next]_vars => IInv'
  <2> SUFFICES ASSUME IInv, [Next]_vars PROVE IInv'
    OBVIOUS
  <2>1. TypeOKButCount'
    BY TypeStep DEF IInv
  <2> QED
    BY <2>1, InvAddition, InvRemoval, InvUpdate, InvEmit, InvSubscription,
       InvCompleted DEF Next, onNewOpinion
<1> QED
  BY <1>1, <1>2, PTL DEF Spec

\* Type correctness, in particular that size is never negative.
THEOREM TypeCorrect == Spec => []TypeOK
<1>1. IInv => TypeOK
  BY DEF IInv
<1> QED
  BY <1>1, Invariance, PTL

-----------------------------------------------------------------------------
(* What follows from the invariant.                                        *)

\* A key is exposed exactly when an owner has an opinion on it.
THEOREM ExposedCorrect == Spec => []ExposedIffOpinion
<1>1. IInv => ExposedIffOpinion
  BY DEF IInv
<1> QED
  BY <1>1, Invariance, PTL

\* No live opinion is greater than the exposed value of its key.
THEOREM NeverBeaten == Spec => []NoOpinionBeatsWinner
<1>1. IInv => NoOpinionBeatsWinner
  BY DEF IInv
<1> QED
  BY <1>1, Invariance, PTL

\* Every subscriber rebuilds the winners exactly.
THEOREM SubscribersCorrect == Spec => []SubscribersInStep
<1>1. IInv => SubscribersInStep
  BY DEF IInv
<1> QED
  BY <1>1, Invariance, PTL

\* size is off by at most one while a handler updates the winners, and exact
\* otherwise: entryCount counts the domain of the settled winners, which differs
\* from the domain of the winners in at most the key of the handler.
THEOREM SizeCorrect == Spec => []SizeTolerance
<1>1. IInv => SizeTolerance
  <2> SUFFICES ASSUME IInv PROVE SizeTolerance
    OBVIOUS
  <2> DEFINE D == DOMAIN winners
             n == Cardinality(D)
  <2>1. TypeOK /\ entryCount = Cardinality(DOMAIN SettledWinners)
    BY DEF IInv, CountsOpinioned, ExposedIffOpinion
  <2>2. D \in SUBSET Keys /\ {x \in Keys : containsKey(x)} = D
    BY <2>1, MapOfElim DEF TypeOK, Winners, containsKey
  <2>3. IsFiniteSet(D) /\ n \in Nat
    BY <2>2, FS_Subset, FS_CardinalityType, OwnersAssumption
  <2>4. task.at # "update" => entryCount = n
    BY <2>1 DEF SettledWinners
  <2>5. task.at = "update" => entryCount \in {n - 1, n, n + 1}
    <3> SUFFICES ASSUME task.at = "update" PROVE entryCount \in {n - 1, n, n + 1}
      OBVIOUS
    <3>1. DOMAIN SettledWinners = D \cup {task.key}
          \/ DOMAIN SettledWinners = D \ {task.key}
      BY DEF SettledWinners, PutOrRemove, Put, Drop
    <3>2. Cardinality(D \cup {task.key}) \in {n, n + 1}
      BY <2>3, FS_AddElement
    <3>3. Cardinality(D \ {task.key}) \in {n - 1, n}
      BY <2>3, FS_RemoveElement
    <3> QED
      BY <2>1, <3>1, <3>2, <3>3
  <2> HIDE DEF n
  <2>6. size - n \in {-1, 0, 1} /\ (task.at # "update" => size - n = 0)
    BY <2>3, <2>4, <2>5 DEF size
  <2> QED
    BY <2>2, <2>6 DEF SizeTolerance, n
<1> QED
  BY <1>1, Invariance, PTL

-----------------------------------------------------------------------------
(* Monotone keys: the winners are the winning opinions.                    *)

\* On keys whose owners do not lower their own opinions, the settled winners are
\* the result of conflict resolution at every step, additions to other keys
\* included.
LEMMA SettledAddition ==
  ASSUME IInv, IInv', SettledAreWinning,
         NEW k \in Keys, NEW v \in Values, NEW o \in Owners,
         onOpinionAddition(k, v, o),
         NEW x \in MonotoneKeys \cap DOMAIN SettledWinners'
  PROVE  SettledWinners'[x] = winningPair(OpinionsOn(cache', x))[2]
<1> DEFINE op == OpinionsOn(cache, k)
           new == Put(op, o, v)
<1>1. task.at = "idle" /\ cache \in Caches /\ winners' = winners
  BY DEF IInv, TypeOK, onOpinionAddition, Idle
<1>2. /\ OpinionsOn(cache', k) = new
      /\ \A y \in Keys \ {k} : OpinionsOn(cache', y) = OpinionsOn(cache, y)
  BY <1>1, WithOpinionCache DEF onOpinionAddition
<1>3. op \in Opinions
  BY <1>1, OpinionsOnType
<1>4. \A y \in MonotoneKeys \cap DOMAIN winners :
        winners[y] = winningPair(OpinionsOn(cache, y))[2]
  BY <1>1 DEF SettledAreWinning, SettledWinners
<1>5. AdditionWins(cache, k, v, o) <=> winningPair(new) = <<o, v>>
  BY <1>2 DEF AdditionWins, onOpinionAddition
<1>6. x \in Keys
  BY DEF IInv, ExposedIffOpinion, Opinioned
<1>7. CASE winningPair(new) = <<o, v>>
  <2>1. task'.at = "update" /\ task'.key = k /\ task'.value = v
    BY <1>5, <1>7 DEF onOpinionAddition
  <2>2. SettledWinners' = Put(winners, k, v)
    BY <1>1, <2>1, NullAssumption DEF SettledWinners, PutOrRemove
  <2>3. CASE x = k
    BY <1>2, <1>7, <2>2, <2>3 DEF Put
  <2>4. CASE x # k
    <3>1. x \in DOMAIN winners /\ SettledWinners'[x] = winners[x]
      BY <2>2, <2>4 DEF Put
    <3> QED
      BY <1>2, <1>4, <1>6, <2>4, <3>1
  <2> QED
    BY <2>3, <2>4
<1>8. CASE winningPair(new) # <<o, v>>
  <2>1. task'.at = "idle"
    BY <1>5, <1>8 DEF onOpinionAddition, Idle
  <2>2. SettledWinners' = winners
    BY <1>1, <2>1 DEF SettledWinners
  <2>3. winners[x] = winningPair(OpinionsOn(cache, x))[2]
    BY <1>4, <2>2
  <2>4. CASE x = k
    <3>1. winningPair(new) = winningPair(op)
      BY <1>3, <1>8, <2>4, MonotoneLosingAddition DEF onOpinionAddition
    <3> QED
      BY <1>2, <2>2, <2>3, <2>4, <3>1
  <2>5. CASE x # k
    BY <1>2, <1>6, <2>2, <2>3, <2>5
  <2> QED
    BY <2>4, <2>5
<1> QED
  BY <1>7, <1>8

\* A removal settles on the winners of what is left.
LEMMA SettledRemoval ==
  ASSUME IInv, IInv', SettledAreWinning, NEW k \in Keys, NEW o \in Owners,
         onOpinionRemoval(k, o),
         NEW x \in MonotoneKeys \cap DOMAIN SettledWinners'
  PROVE  SettledWinners'[x] = winningPair(OpinionsOn(cache', x))[2]
<1> DEFINE new == Drop(cache[k], o)
           nv == winningPair(new)[2]
<1>1. /\ task.at = "idle" /\ cache \in Caches /\ winners' = winners
      /\ k \in DOMAIN cache
  BY DEF IInv, TypeOK, onOpinionRemoval, Idle
<1>2. /\ OpinionsOn(cache, k) = cache[k]
      /\ OpinionsOn(cache', k) = new
      /\ \A y \in Keys \ {k} : OpinionsOn(cache', y) = OpinionsOn(cache, y)
  BY <1>1, WithoutOpinionCache DEF onOpinionRemoval
<1>3. \A y \in MonotoneKeys \cap DOMAIN winners :
        winners[y] = winningPair(OpinionsOn(cache, y))[2]
  BY <1>1 DEF SettledAreWinning, SettledWinners
<1>4. x \in Keys
  BY DEF IInv, ExposedIffOpinion, Opinioned
<1>5. CASE winningPair(cache[k]) # winningPair(new)
  <2>1. task'.at = "update" /\ task'.key = k /\ task'.value = nv
    BY <1>5 DEF onOpinionRemoval, RemovalChangesWinner
  <2>2. SettledWinners' = PutOrRemove(winners, k, nv)
    BY <1>1, <2>1 DEF SettledWinners
  <2> HIDE DEF nv
  <2>3. CASE x = k
    <3>1. SettledWinners'[k] = nv
      BY <2>2, <2>3 DEF PutOrRemove, Put, Drop
    <3> QED
      BY <1>2, <2>3, <3>1 DEF nv
  <2>4. CASE x # k
    <3>1. x \in DOMAIN winners /\ SettledWinners'[x] = winners[x]
      BY <2>2, <2>4 DEF PutOrRemove, Put, Drop
    <3> QED
      BY <1>2, <1>3, <1>4, <2>4, <3>1
  <2> QED
    BY <2>3, <2>4
<1>6. CASE winningPair(cache[k]) = winningPair(new)
  <2>1. task'.at = "idle"
    BY <1>6 DEF onOpinionRemoval, RemovalChangesWinner, Idle
  <2>2. SettledWinners' = winners
    BY <1>1, <2>1 DEF SettledWinners
  <2>3. winners[x] = winningPair(OpinionsOn(cache, x))[2]
    BY <1>3, <2>2
  <2> QED
    BY <1>2, <1>4, <1>6, <2>2, <2>3
<1> QED
  BY <1>5, <1>6

\* Every step keeps the settled winners of these keys equal to the resolved ones.
LEMMA SettledStep ==
  ASSUME IInv, IInv', SettledAreWinning, [Next]_vars
  PROVE  SettledAreWinning'
<1>1. ASSUME SettledWinners' = SettledWinners, cache' = cache
      PROVE  SettledAreWinning'
  BY <1>1 DEF SettledAreWinning
<1>3. ASSUME NEW k \in Keys, NEW v \in Values, NEW o \in Owners,
             onOpinionAddition(k, v, o)
      PROVE  SettledAreWinning'
  BY <1>3, SettledAddition DEF SettledAreWinning
<1>4. ASSUME NEW k \in Keys, NEW o \in Owners, onOpinionRemoval(k, o)
      PROVE  SettledAreWinning'
  BY <1>4, SettledRemoval DEF SettledAreWinning
<1>5. CASE updateWinners
  <2>1. task'.at = "emit"
    BY <1>5 DEF updateWinners, TypeOK, IInv, Tasks, Idle, Joining
  <2> QED
    BY <1>1, <1>5, <2>1 DEF updateWinners, SettledWinners
<1>6. CASE emitWinner
  BY <1>1, <1>6 DEF emitWinner, SettledWinners, Idle
<1>7. ASSUME NEW s \in Subscribers,
             Subscribe(s) \/ onSubscribe(s) \/ joinSubject(s)
      PROVE  SettledAreWinning'
  BY <1>1, <1>7 DEF Subscribe, onSubscribe, joinSubject, SettledWinners, Idle,
                    Joining, IInv, JoiningHoldsExecutor
<1>8. CASE onCompleted \/ UNCHANGED vars
  BY <1>1, <1>8 DEF onCompleted, vars, SettledWinners
<1> QED
  BY <1>3, <1>4, <1>5, <1>6, <1>7, <1>8 DEF Next, onNewOpinion

\* An empty map is settled.
LEMMA SettledInit == Init => SettledAreWinning
BY DEF Init, Idle, SettledWinners, SettledAreWinning, EmptyMap

\* The settled winners of monotone keys are the resolved ones in every state.
LEMMA SettledInvariance == Spec => []SettledAreWinning
<1>1. SettledAreWinning /\ IInv /\ IInv' /\ [Next]_vars => SettledAreWinning'
  BY SettledStep
<1> QED
  BY <1>1, SettledInit, Invariance, PTL DEF Spec

\* On a key whose owners never lower their own opinion, get answers the winning
\* one, whatever the owners do on other keys.
THEOREM MonotoneKeysCorrect == Spec => []MonotoneKeysResolve
<1>1. IInv /\ SettledAreWinning => MonotoneKeysResolve
  <2> SUFFICES ASSUME IInv, SettledAreWinning, task.at # "update",
                      NEW k \in MonotoneKeys
               PROVE  get(k) = winningPair(OpinionsOn(cache, k))[2]
    BY DEF MonotoneKeysResolve
  <2>1. SettledWinners = winners /\ k \in Keys
    BY MonotoneAssumption DEF SettledWinners
  <2>2. k \in DOMAIN winners <=> DOMAIN OpinionsOn(cache, k) # {}
    BY <2>1 DEF IInv, ExposedIffOpinion, Opinioned
  <2>3. CASE k \in DOMAIN winners
    BY <2>1, <2>3 DEF SettledAreWinning, get, containsKey
  <2>4. CASE k \notin DOMAIN winners
    BY <2>2, <2>4 DEF get, containsKey, winningPair
  <2> QED
    BY <2>3, <2>4
<1> QED
  BY <1>1, Invariance, SettledInvariance, PTL

\* "A map storing the winning opinion for each key" is true of owners that never
\* lower their own opinion on any key.
THEOREM WinnersCorrect ==
  ASSUME MonotoneKeys = Keys
  PROVE  Spec => []WinnersAreWinning
<1>1. IInv /\ SettledAreWinning => WinnersAreWinning
  <2> SUFFICES ASSUME IInv, SettledAreWinning, task.at # "update"
               PROVE  winners = Resolved(cache)
    BY DEF WinnersAreWinning, snapshot
  <2>1. SettledWinners = winners /\ winners \in MapOf(Keys, Values)
    BY DEF SettledWinners, IInv, TypeOK, Winners
  <2>2. DOMAIN winners = Opinioned(cache)
    BY <2>1 DEF IInv, ExposedIffOpinion
  <2>3. \A k \in Opinioned(cache) : winners[k] = winningPair(OpinionsOn(cache, k))[2]
    BY <2>1, <2>2 DEF SettledAreWinning, Opinioned
  <2> QED
    BY <2>1, <2>2, <2>3, MapOfElim DEF Resolved
<1> QED
  BY <1>1, Invariance, SettledInvariance, PTL

\* An addition never lowers the exposed value of a monotone key.
THEOREM AdditionRaises == Spec => AdditionRaisesWinner
<1> DEFINE Raises == \A k \in MonotoneKeys, o \in Owners, v \in Values :
             (onOpinionAddition(k, v, o) /\ task'.at = "update" /\ k \in DOMAIN winners)
               => crStrategy(v, winners[k]) >= 0
<1>1. IInv /\ SettledAreWinning /\ [Next]_vars => [Raises]_vars
  <2> SUFFICES ASSUME IInv, SettledAreWinning,
                      NEW k \in MonotoneKeys, NEW o \in Owners, NEW v \in Values,
                      onOpinionAddition(k, v, o), task'.at = "update",
                      k \in DOMAIN winners
               PROVE  crStrategy(v, winners[k]) >= 0
    OBVIOUS
  <2> DEFINE op == OpinionsOn(cache, k)
             new == Put(op, o, v)
             w == winningOwner(op)
  <2>1. task.at = "idle" /\ cache \in Caches /\ k \in Keys
    BY MonotoneAssumption DEF IInv, TypeOK, onOpinionAddition, Idle
  <2>2. op \in Opinions /\ new \in Opinions
        /\ OpinionsOn(WithOpinion(cache, k, v, o), k) = new
    BY <2>1, WithOpinionCache, OpinionsOnType
  <2>3. winningPair(new) = <<o, v>>
    BY <2>2 DEF onOpinionAddition, AdditionWins, Idle
  <2>4. winners[k] = winningPair(op)[2] /\ DOMAIN op # {}
    BY <2>1 DEF IInv, ExposedIffOpinion, SettledAreWinning, SettledWinners, Opinioned
  <2>5. winners[k] = op[w] /\ w \in DOMAIN op
    BY <2>2, <2>4, WinningPairIsMaximal
  <2>6. CASE w = o
    BY <2>5, <2>6 DEF onOpinionAddition
  <2>7. CASE w # o
    <3>1. w \in DOMAIN new /\ new[w] = op[w]
      BY <2>5, <2>7 DEF Put
    <3>2. crStrategy(winningPair(new)[2], new[w]) >= 0
      BY <2>2, <3>1, WinningValueIsGreatest
    <3> QED
      BY <2>3, <2>5, <3>1, <3>2
  <2> QED
    BY <2>6, <2>7
<1>2. Spec => [][Raises]_vars
  BY <1>1, Invariance, SettledInvariance, PTL DEF Spec
<1> QED
  BY <1>2 DEF AdditionRaisesWinner

-----------------------------------------------------------------------------
(* The replica implements the promise of a merged map.                     *)

\* The abstract map's operators are the replica's, on the monotone keys.
LEMMA SameOperators ==
  /\ Promise!EmptyMap = EmptyMap
  /\ \A m, k, v : Promise!Put(m, k, v) = Put(m, k, v)
  /\ \A m, k : Promise!Drop(m, k) = Drop(m, k)
  /\ \A c : Promise!Resolved(c) =
       [k \in MonotoneKeys \cap Opinioned(c) |-> winningPair(OpinionsOn(c, k))[2]]
<1>1. \A c, k : Promise!OpinionsOn(c, k) = OpinionsOn(c, k)
  BY DEF Promise!OpinionsOn, OpinionsOn, Promise!EmptyMap, EmptyMap
<1>2. \A op : Promise!winningPair(op) = winningPair(op)
  BY DEF Promise!winningPair, winningPair, Promise!winningOwner, winningOwner,
         Promise!Beats, Beats
<1>3. \A c : Promise!Opinioned(c) = MonotoneKeys \cap Opinioned(c)
  BY <1>1, MonotoneAssumption DEF Promise!Opinioned, Opinioned
<1>4. \A c : Promise!Resolved(c) =
        [k \in MonotoneKeys \cap Opinioned(c) |-> winningPair(OpinionsOn(c, k))[2]]
  BY <1>1, <1>2, <1>3 DEF Promise!Resolved
<1> QED
  BY <1>4 DEF Promise!EmptyMap, EmptyMap, Promise!Put, Put, Promise!Drop, Drop

\* What the abstract map sees of the replica: the opinions on the monotone keys
\* and the settled winners of these.
PromisedOpinions == [k \in MonotoneKeys |-> OpinionsOn(cache, k)]
PromisedWinners ==
  [k \in MonotoneKeys \cap DOMAIN SettledWinners |-> SettledWinners[k]]

\* Conflict resolution sees no difference between a key without opinions and a
\* key the cache does not hold, so the one is resolved from the other.
LEMMA PromisedResolved ==
  IInv /\ SettledAreWinning => PromisedWinners = Promise!Resolved(PromisedOpinions)
<1> SUFFICES ASSUME IInv, SettledAreWinning
             PROVE  PromisedWinners = Promise!Resolved(PromisedOpinions)
  OBVIOUS
<1> DEFINE all == PromisedOpinions
<1>1. \A k \in MonotoneKeys : OpinionsOn(all, k) = OpinionsOn(cache, k)
  BY DEF OpinionsOn, PromisedOpinions
<1> HIDE DEF all
<1>2. MonotoneKeys \cap Opinioned(all) = MonotoneKeys \cap Opinioned(cache)
  BY <1>1 DEF Opinioned
<1>3. DOMAIN SettledWinners = Opinioned(cache)
  BY DEF IInv, ExposedIffOpinion
<1>4. PromisedWinners = [k \in MonotoneKeys \cap Opinioned(cache) |->
                           winningPair(OpinionsOn(cache, k))[2]]
  BY <1>3 DEF PromisedWinners, SettledAreWinning
<1>5. Promise!Resolved(all) = [k \in MonotoneKeys \cap Opinioned(cache) |->
                                 winningPair(OpinionsOn(cache, k))[2]]
  BY <1>1, <1>2, SameOperators
<1> QED
  BY <1>4, <1>5 DEF all

\* Every step of the replica is a step of the abstract map, or leaves it alone.
LEMMA PromiseStep ==
  ASSUME IInv, IInv', SettledAreWinning, SettledAreWinning', [Next]_vars
  PROVE  [Promise!Next]_(Promise!vars)
<1> DEFINE all == PromisedOpinions
           exposed == PromisedWinners
<1>1. cache \in Caches
  BY DEF IInv, TypeOK
<1>2. exposed = Promise!Resolved(all) /\ exposed' = Promise!Resolved(all')
  <2>1. exposed = Promise!Resolved(all)
    BY PromisedResolved
  <2>2. (PromisedWinners = Promise!Resolved(PromisedOpinions))'
    BY PromisedResolved, PTL
  <2> QED
    BY <2>1, <2>2
<1>3. ASSUME all' = all PROVE UNCHANGED Promise!vars
  BY <1>2, <1>3 DEF Promise!vars, PromisedOpinions, PromisedWinners
<1>4. ASSUME NEW k \in Keys, NEW v \in Values, NEW o \in Owners,
             onOpinionAddition(k, v, o)
      PROVE  [Promise!Next]_(Promise!vars)
  <2>1. /\ OpinionsOn(cache', k) = Put(OpinionsOn(cache, k), o, v)
        /\ \A x \in Keys \ {k} : OpinionsOn(cache', x) = OpinionsOn(cache, x)
    BY <1>1, <1>4, WithOpinionCache DEF onOpinionAddition
  <2>2. CASE k \in MonotoneKeys
    <3>1. all' = [all EXCEPT ![k] = Put(@, o, v)]
      BY <2>1, <2>2, MonotoneAssumption DEF PromisedOpinions
    <3>2. Promise!Publish(k, o, v)
      BY <1>2, <3>1, SameOperators
         DEF Promise!Publish, PromisedOpinions, PromisedWinners
    <3> QED
      BY <2>2, <3>2 DEF Promise!Next
  <2>3. CASE k \notin MonotoneKeys
    BY <1>3, <2>1, <2>3, MonotoneAssumption DEF PromisedOpinions
  <2> QED
    BY <2>2, <2>3
<1>5. ASSUME NEW k \in Keys, NEW o \in Owners, onOpinionRemoval(k, o)
      PROVE  [Promise!Next]_(Promise!vars)
  <2>1. /\ OpinionsOn(cache', k) = Drop(OpinionsOn(cache, k), o)
        /\ \A x \in Keys \ {k} : OpinionsOn(cache', x) = OpinionsOn(cache, x)
    BY <1>1, <1>5, WithoutOpinionCache DEF onOpinionRemoval
  <2>2. CASE k \in MonotoneKeys
    <3>1. all' = [all EXCEPT ![k] = Drop(@, o)]
      BY <2>1, <2>2, MonotoneAssumption DEF PromisedOpinions
    <3>2. Promise!Withdraw(k, o)
      BY <1>2, <3>1, SameOperators
         DEF Promise!Withdraw, PromisedOpinions, PromisedWinners
    <3> QED
      BY <2>2, <3>2 DEF Promise!Next
  <2>3. CASE k \notin MonotoneKeys
    BY <1>3, <2>1, <2>3, MonotoneAssumption DEF PromisedOpinions
  <2> QED
    BY <2>2, <2>3
<1>6. CASE UNCHANGED cache
  BY <1>3, <1>6 DEF PromisedOpinions
<1> QED
  BY <1>4, <1>5, <1>6 DEF Next, onNewOpinion, updateWinners, emitWinner, Subscribe,
     onSubscribe, joinSubject, onCompleted, vars

\* A replica, thread interleavings included, implements the abstract map that
\* exposes the winning opinion at once, on the keys whose owners are monotone.
THEOREM Implementation == Spec => ImplementsPromise
<1>1. Init => Promise!Init
  <2> SUFFICES ASSUME Init PROVE Promise!Init
    OBVIOUS
  <2>1. [k \in MonotoneKeys \cap DOMAIN SettledWinners |-> SettledWinners[k]] = EmptyMap
    BY DEF Init, Idle, SettledWinners, EmptyMap
  <2>2. \A k \in Keys : OpinionsOn(cache, k) = EmptyMap
    BY DEF Init, OpinionsOn, EmptyMap
  <2> QED
    BY <2>1, <2>2, SameOperators, MonotoneAssumption DEF Promise!Init
<1>2. IInv /\ IInv' /\ SettledAreWinning /\ SettledAreWinning' /\ [Next]_vars
        => [Promise!Next]_(Promise!vars)
  BY PromiseStep
<1> QED
  BY <1>1, <1>2, Invariance, SettledInvariance, PTL
     DEF Spec, ImplementsPromise, Promise!Spec
=============================================================================
