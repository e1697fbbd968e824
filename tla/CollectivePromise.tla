-------------------------- MODULE CollectivePromise --------------------------
(* What MPI_Barrier and MPI_Bcast promise to the ranks that call them, one *)
(* after the other in the order of a script: a barrier lets nobody through *)
(* before everybody has come, and a broadcast leaves the root's data in    *)
(* everybody's buffer.                                                     *)
EXTENDS Integers, Sequences

VARIABLES
    config,   \* [size, script, long]: the job
    calls,    \* [r]: collectives rank r has entered
    returns,  \* [r]: collectives rank r has returned from
    result    \* [r]: what r finds in its buffer, once returned

vars == <<config, calls, returns, result>>

Ranks == 0 .. config.size - 1

(* The root's data of the k-th collective.                                 *)
DataOf(k) == [i \in 0 .. config.script[k].count - 1 |-> <<k, i>>]

Nothing == <<>>

Enter(r) ==
    /\ calls[r] = returns[r]
    /\ calls[r] < Len(config.script)
    /\ calls' = [calls EXCEPT ![r] = @ + 1]
    /\ result' = [result EXCEPT ![r] = Nothing]
    /\ UNCHANGED <<config, returns>>

(* A barrier ends for nobody before it has begun for all.                  *)
LeaveBarrier(r, k) ==
    /\ config.script[k].op = "barrier"
    /\ \A p \in Ranks : calls[p] >= k
    /\ UNCHANGED result

(* A broadcast ends with the root's data, for which the root has to have   *)
(* called it if there are any.                                             *)
LeaveBcast(r, k) ==
    /\ config.script[k].op = "bcast"
    /\ config.script[k].count > 0 => calls[config.script[k].root] >= k
    /\ result' = [result EXCEPT ![r] = DataOf(k)]

Leave(r) ==
    /\ returns[r] < calls[r]
    /\ LeaveBarrier(r, calls[r]) \/ LeaveBcast(r, calls[r])
    /\ returns' = [returns EXCEPT ![r] = @ + 1]
    /\ UNCHANGED <<config, calls>>

Init ==
    /\ calls = [r \in Ranks |-> 0]
    /\ returns = [r \in Ranks |-> 0]
    /\ result = [r \in Ranks |-> Nothing]

Next == \E r \in Ranks : Enter(r) \/ Leave(r)

Spec == Init /\ [][Next]_vars
=============================================================================
