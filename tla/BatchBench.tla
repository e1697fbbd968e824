----------------------------- MODULE BatchBench -----------------------------
(* A batch of benchmarks (BatchTestBench.java, testrun-batch.sh): a shell  *)
(* script starts an MPI job for each run of the batch, with a counter, and *)
(* goes on as long as it finds the file restart_jvm, which rank 0 of a job *)
(* creates after a run and deletes when there is no run left.              *)
(*                                                                         *)
(* A job may be killed at any time, the file may be there from an earlier  *)
(* batch, and it may not be possible to create it.  That a broadcast waits *)
(* for its root, and a barrier for as many calls of everybody, is what     *)
(* Collectives shows.  The benchmark is TestBench, of which only the       *)
(* barriers are left here: an exception that makes a rank miss some of     *)
(* them lets its later calls meet other calls of the other ranks.          *)
EXTENDS Integers, FiniteSets

CONSTANTS
    Ranks,          \* the ranks of a job
    BenchBarriers,  \* barriers of a benchmark: 5, and one for each rank
    MaxRuns,        \* bound: runs of the batch
    MaxKills        \* bound: jobs that are killed

ASSUME RanksAssumption == IsFiniteSet(Ranks) /\ 0 \in Ranks
ASSUME BenchAssumption == BenchBarriers \in Nat \ {0}
ASSUME BatchAssumption == MaxRuns \in Nat /\ MaxKills \in Nat

VARIABLES
    runs,         \* the number of runs in the configuration
    kind,         \* [n]: run n is a "bench", or there is "none" to be run
    counter,      \* the shell's counter, a job's bench.restarts
    restart_jvm,  \* the file exists
    shell,        \* "waits" for the job, "looks" for the file, "stopped"
    pc,           \* [r]: what rank r of the job does next
    preRunOk,     \* [r]: what r knows of the pre-run script
    calls,        \* [r]: how often r has called barrier in this job
    left,         \* [r]: barriers of the benchmark r has still to call
    executed,     \* <<n, r>>: r came to the end of the benchmark n (history)
    refused,      \* runs whose pre-run script failed (history)
    thrown,       \* runs in which a rank met an exception (history)
    killed,       \* jobs that were killed, by their counter (history)
    createFailed  \* the file could not be created (history)

jobVars == <<runs, kind, counter, shell, killed>>
fileVars == <<restart_jvm, createFailed>>
barrierVars == <<calls, left>>
history == <<executed, refused, thrown>>
vars == <<jobVars, fileVars, pc, preRunOk, barrierVars, history>>

Root == 0
AllAt(p) == [r \in Ranks |-> p]

Init ==
    /\ runs \in 0 .. MaxRuns
    /\ kind \in [1 .. runs -> {"bench", "none"}]
    /\ counter = 1
    /\ restart_jvm \in BOOLEAN
    /\ shell = "waits"
    /\ pc = AllAt("construct")
    /\ preRunOk = AllAt("unknown")
    /\ calls = AllAt(0) /\ left = AllAt(0)
    /\ executed = {} /\ refused = {} /\ thrown = {} /\ killed = {}
    /\ createFailed = FALSE

AtExit == {"barrier", "exited"}
AllAtExit == \A r \in Ranks : pc[r] \in AtExit

(* A barrier that r is in lets it go on.                                   *)
Released(r) == \A q \in Ranks : calls[q] >= calls[r]

-----------------------------------------------------------------------------
(* Mutant: the last run is not found.                                      *)
Construct_Mutant(r) ==
    /\ shell = "waits" /\ pc[r] = "construct"
    /\ r # Root => pc[Root] # "construct"
    /\ pc' = [pc EXCEPT ![r] = IF runs > counter THEN "prerun" ELSE "unmark"]
    /\ UNCHANGED <<jobVars, fileVars, preRunOk, barrierVars, history>>

(* The constructor: the number of the run is broadcast, but the run is     *)
(* looked up by the parameter, the rank's own bench.restarts.              *)
Construct(r) ==
    /\ shell = "waits" /\ pc[r] = "construct"
    /\ r # Root => pc[Root] # "construct"
    /\ pc' = [pc EXCEPT ![r] = IF runs >= counter THEN "prerun" ELSE "unmark"]
    /\ UNCHANGED <<jobVars, fileVars, preRunOk, barrierVars, history>>

(* preRun at the root: the script, and the broadcast of its outcome.       *)
PreRunRoot ==
    /\ shell = "waits" /\ pc[Root] = "prerun"
    /\ \E ok \in BOOLEAN :
          /\ preRunOk' = [preRunOk EXCEPT ![Root] = IF ok THEN "yes" ELSE "no"]
          /\ pc' = [pc EXCEPT ![Root] = IF ok THEN "test" ELSE "mark"]
          /\ refused' = IF ok THEN refused ELSE refused \cup {counter}
    /\ UNCHANGED <<jobVars, fileVars, barrierVars, executed, thrown>>

(* Mutant: the outcome is not passed on.                                   *)
PreRun_Mutant(r) ==
    /\ shell = "waits" /\ r # Root /\ pc[r] = "prerun"
    /\ preRunOk[Root] # "unknown"
    /\ preRunOk' = [preRunOk EXCEPT ![r] = "yes"]
    /\ pc' = [pc EXCEPT ![r] = "test"]
    /\ UNCHANGED <<jobVars, fileVars, barrierVars, history>>

(* preRun at the others: they learn the outcome from the root.             *)
PreRun(r) ==
    /\ shell = "waits" /\ r # Root /\ pc[r] = "prerun"
    /\ preRunOk[Root] # "unknown"
    /\ preRunOk' = [preRunOk EXCEPT ![r] = preRunOk[Root]]
    /\ pc' = [pc EXCEPT ![r] = IF preRunOk[Root] = "yes" THEN "test" ELSE "mark"]
    /\ UNCHANGED <<jobVars, fileVars, barrierVars, history>>

(* Before the broadcast: executePreRunScript does not find a key of the    *)
(* configuration.  The exception leaves run, the others wait for the       *)
(* outcome.                                                                *)
PreRunThrows ==
    /\ shell = "waits" /\ pc[Root] = "prerun"
    /\ pc' = [pc EXCEPT ![Root] = "mark"]
    /\ thrown' = thrown \cup {counter}
    /\ UNCHANGED <<jobVars, fileVars, preRunOk, barrierVars, executed, refused>>

-----------------------------------------------------------------------------
(* An unknown type of benchmark, too few nodes for it or a configuration   *)
(* without its keys: every rank goes on with nothing run.                  *)
RunNothing(r) ==
    /\ shell = "waits" /\ pc[r] = "test" /\ kind[counter] = "none"
    /\ pc' = [pc EXCEPT ![r] = "mark"]
    /\ UNCHANGED <<jobVars, fileVars, preRunOk, barrierVars, history>>

(* The benchmark up to the call of its first barrier ...                   *)
TestBegins(r) ==
    /\ shell = "waits" /\ pc[r] = "test" /\ kind[counter] = "bench"
    /\ pc' = [pc EXCEPT ![r] = "testing"]
    /\ calls' = [calls EXCEPT ![r] = @ + 1]
    /\ left' = [left EXCEPT ![r] = BenchBarriers - 1]
    /\ UNCHANGED <<jobVars, fileVars, preRunOk, history>>

(* ... from one of them to the next ...                                    *)
TestGoesOn(r) ==
    /\ shell = "waits" /\ pc[r] = "testing" /\ Released(r)
    /\ left[r] > 0
    /\ calls' = [calls EXCEPT ![r] = @ + 1]
    /\ left' = [left EXCEPT ![r] = @ - 1]
    /\ UNCHANGED <<jobVars, fileVars, pc, preRunOk, history>>

(* ... and from the last one on.                                           *)
TestEnds(r) ==
    /\ shell = "waits" /\ pc[r] = "testing" /\ Released(r)
    /\ left[r] = 0
    /\ pc' = [pc EXCEPT ![r] = "mark"]
    /\ executed' = executed \cup {<<counter, r>>}
    /\ UNCHANGED <<jobVars, fileVars, preRunOk, barrierVars, refused, thrown>>

(* An exception of one rank, say when it opens its map, leaves bench.run() *)
(* for main, and all the barriers the rank would have called.              *)
RunThrows(r) ==
    /\ shell = "waits"
    /\ \/ pc[r] = "test" /\ kind[counter] = "bench"
       \/ pc[r] = "testing" /\ Released(r) /\ left[r] > 0
    /\ pc' = [pc EXCEPT ![r] = "mark"]
    /\ thrown' = thrown \cup {counter}
    /\ UNCHANGED <<jobVars, fileVars, preRunOk, barrierVars, executed, refused>>

(* One of node.setup() is caught in nodeTestCycle: the rank misses the     *)
(* barriers left of throttledSetup, and goes on to a later one.            *)
SetupThrows(r) ==
    /\ shell = "waits" /\ pc[r] = "testing" /\ Released(r)
    /\ calls' = [calls EXCEPT ![r] = @ + 1]
    /\ \E n \in 0 .. left[r] - 2 : left' = [left EXCEPT ![r] = n]
    /\ thrown' = thrown \cup {counter}
    /\ UNCHANGED <<jobVars, fileVars, pc, preRunOk, executed, refused>>

-----------------------------------------------------------------------------
(* setRestartJvm(true) after a run, (false) when there was none: by rank   *)
(* 0, which owns the file.  That it cannot be created is only logged.      *)
(* Then the barrier before the exit is called.                             *)
MarkRestart(r) ==
    /\ shell = "waits" /\ pc[r] \in {"mark", "unmark"}
    /\ \/ /\ restart_jvm' = IF r = Root THEN pc[r] = "mark" ELSE restart_jvm
          /\ UNCHANGED createFailed
       \/ /\ r = Root /\ pc[r] = "mark" /\ ~restart_jvm
          /\ createFailed' = TRUE
          /\ UNCHANGED restart_jvm
    /\ pc' = [pc EXCEPT ![r] = "barrier"]
    /\ calls' = [calls EXCEPT ![r] = @ + 1]
    /\ UNCHANGED <<jobVars, preRunOk, left, history>>

(* Mutant: no barrier before the exit.                                     *)
Exit_Mutant(r) ==
    /\ shell = "waits" /\ pc[r] = "barrier"
    /\ pc' = [pc EXCEPT ![r] = "exited"]
    /\ UNCHANGED <<jobVars, fileVars, preRunOk, barrierVars, history>>

(* The barrier before the exit lets the rank go, to System.exit(0).        *)
Exit(r) ==
    /\ shell = "waits" /\ pc[r] = "barrier" /\ Released(r)
    /\ pc' = [pc EXCEPT ![r] = "exited"]
    /\ UNCHANGED <<jobVars, fileVars, preRunOk, barrierVars, history>>

-----------------------------------------------------------------------------
(* mpirun may take the job for finished as soon as a rank has exited.      *)
JobEnds ==
    /\ shell = "waits"
    /\ \E r \in Ranks : pc[r] = "exited"
    /\ shell' = "looks"
    /\ UNCHANGED <<runs, kind, counter, killed, fileVars, pc, preRunOk,
                   barrierVars, history>>

(* The job is killed, with all its ranks.                                  *)
Kill ==
    /\ shell = "waits"
    /\ Cardinality(killed) < MaxKills
    /\ shell' = "looks"
    /\ killed' = killed \cup {counter}
    /\ UNCHANGED <<runs, kind, counter, fileVars, pc, preRunOk, barrierVars,
                   history>>

NextJob ==
    /\ shell' = "waits"
    /\ counter' = counter + 1
    /\ pc' = AllAt("construct")
    /\ preRunOk' = AllAt("unknown")
    /\ calls' = AllAt(0) /\ left' = AllAt(0)

Stop ==
    /\ shell' = "stopped"
    /\ UNCHANGED <<counter, pc, preRunOk, barrierVars>>

(* Mutant: the file is deleted when the next job is started.               *)
Look_Mutant ==
    /\ shell = "looks"
    /\ (restart_jvm /\ NextJob) \/ (~restart_jvm /\ Stop)
    /\ restart_jvm' = FALSE
    /\ UNCHANGED <<runs, kind, killed, createFailed, history>>

(* while [ -f ./restart_jvm ]: the next job, or the end.                   *)
Look ==
    /\ shell = "looks"
    /\ (restart_jvm /\ NextJob) \/ (~restart_jvm /\ Stop)
    /\ UNCHANGED <<runs, kind, killed, fileVars, history>>

(* What is up to the batch itself ...                                      *)
RankStep(r) ==
    Construct(r) \/ PreRun(r) \/ RunNothing(r) \/ MarkRestart(r) \/ Exit(r)

(* ... and to the benchmark.                                               *)
BenchStep(r) ==
    \/ TestBegins(r) \/ TestGoesOn(r) \/ TestEnds(r)
    \/ RunThrows(r) \/ SetupThrows(r)

Next ==
    \/ \E r \in Ranks : RankStep(r) \/ BenchStep(r)
    \/ PreRunRoot \/ PreRunThrows \/ JobEnds \/ Kill \/ Look

(* Only the first is sure to go on: a benchmark need not end, nobody has   *)
(* to kill a job, and mpirun waits for the ranks that have not exited.     *)
Fairness ==
    WF_vars(\/ \E r \in Ranks : RankStep(r)
            \/ PreRunRoot \/ PreRunThrows \/ Look
            \/ JobEnds /\ \A r \in Ranks : pc[r] = "exited")

Spec == Init /\ [][Next]_vars /\ Fairness

-----------------------------------------------------------------------------
TypeOK ==
    /\ shell \in {"waits", "looks", "stopped"}
    /\ pc \in [Ranks -> {"construct", "prerun", "test", "testing", "mark",
                         "unmark"} \cup AtExit]
    /\ preRunOk \in [Ranks -> {"unknown", "yes", "no"}]
    /\ calls \in [Ranks -> 0 .. BenchBarriers + 1]
    /\ left \in [Ranks -> 0 .. BenchBarriers - 1]
    /\ counter \in 1 .. runs + MaxKills + 1
    /\ executed \subseteq (1 .. runs) \X Ranks
    /\ refused \cup thrown \subseteq 1 .. runs

(* Either all ranks of a job take part in the benchmark or none does: a    *)
(* rank that left it out would not come to its barriers.                   *)
AllOrNone ==
    shell = "waits" /\ (\E r \in Ranks : pc[r] \in {"test", "testing"})
        => counter \notin refused

(* After a job that was neither killed nor lost a rank to an exception,    *)
(* the file says whether the batch goes on, whatever the rank that let the *)
(* job end has seen of it, unless it could not be created.                 *)
FileIsRight ==
    shell = "looks" /\ counter \notin killed \cup thrown /\ ~createFailed
        => (restart_jvm <=> counter <= runs)

(* A run the batch has gone past was brought to its end by every rank.     *)
(* Otherwise there is a reason, and one that is logged: nothing to be run  *)
(* in its configuration, a pre-run script that failed, an exception at     *)
(* some rank, or the job was killed.  No such run is made up for.          *)
Accounted ==
    \A n \in 1 .. runs :
        n < counter \/ (shell = "stopped" /\ n = counter) =>
            \/ kind[n] = "none" \/ n \in refused \cup thrown \cup killed
            \/ \A r \in Ranks : <<n, r>> \in executed

(* A batch ends before its last run only after its very first job, when    *)
(* that is killed before there is a file, cannot create it, or has a rank  *)
(* that exits ahead of the others after an exception: after a later job    *)
(* the shell finds at least the file of the job before it.                 *)
EndsEarlyOnlyAtFirst ==
    shell = "stopped" /\ counter <= runs =>
        counter = 1 /\ (killed = {1} \/ createFailed \/ 1 \in thrown)

(* A job that its pre-run script let pass does not get on: it is in the    *)
(* benchmark, which need not end, or a rank has met an exception and the   *)
(* barriers do not fit any more.                                           *)
Hangs ==
    /\ shell = "waits" /\ counter \notin refused
    /\ counter \in thrown \/ \E r \in Ranks : pc[r] \in {"test", "testing"}

(* The batch comes to an end, unless one of its jobs hangs for ever: if    *)
(* the benchmarks end and nothing throws, so does the batch.               *)
BatchEnds == <>(shell = "stopped") \/ <>[]Hangs
=============================================================================
