----------------------------- MODULE OpinionMap -----------------------------
(***************************************************************************)
(* What a merged map promises: owners publish and withdraw opinions, and   *)
(* the map exposes, for every key with an opinion, the winning one.        *)
(***************************************************************************)
EXTENDS MergedMapOps

VARIABLES
  opinions,   \* the live opinions: key -> owner -> value
  exposed     \* what get, containsKey and snapshot answer from

vars == <<opinions, exposed>>

Init ==
  /\ opinions = [k \in Keys |-> EmptyMap]
  /\ exposed = EmptyMap

\* A step changes the opinion of one owner on one key, and exposes the winners
\* that result.
Publish(k, o, v) ==
  /\ opinions' = [opinions EXCEPT ![k] = Put(@, o, v)]
  /\ exposed' = Resolved(opinions')

Withdraw(k, o) ==
  /\ opinions' = [opinions EXCEPT ![k] = Drop(@, o)]
  /\ exposed' = Resolved(opinions')

Next == \E k \in Keys, o \in Owners :
          Withdraw(k, o) \/ \E v \in Values : Publish(k, o, v)

Spec == Init /\ [][Next]_vars
=============================================================================
