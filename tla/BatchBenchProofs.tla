-------------------------- MODULE BatchBenchProofs --------------------------
(***************************************************************************)
(* A batch is accounted for, on any number of ranks, of any length and     *)
(* with any number of killed jobs.                                         *)
(***************************************************************************)
EXTENDS BatchBench, FiniteSetTheorems, TLAPS

Places == {"construct", "prerun", "test", "testing", "mark", "unmark"} \cup AtExit

Types ==
    /\ runs \in Nat /\ counter \in Nat \ {0}
    /\ kind \in [1 .. runs -> {"bench", "none"}]
    /\ restart_jvm \in BOOLEAN /\ createFailed \in BOOLEAN
    /\ shell \in {"waits", "looks", "stopped"}
    /\ pc \in [Ranks -> Places]
    /\ preRunOk \in [Ranks -> {"unknown", "yes", "no"}]
    /\ calls \in [Ranks -> Nat] /\ left \in [Ranks -> Nat]
    /\ executed \subseteq (1 .. runs) \X Ranks
    /\ refused \subseteq 1 .. runs /\ thrown \subseteq 1 .. runs

(* What a rank knows fits its place.                                       *)
RankFits ==
    \A r \in Ranks :
        /\ pc[r] \in {"construct", "prerun"} => preRunOk[r] = "unknown"
        /\ pc[r] \in {"test", "testing"} => preRunOk[r] = "yes"
        /\ pc[r] \in {"prerun", "test", "testing", "mark"} => counter <= runs
        /\ pc[r] = "unmark" => counter > runs
        /\ pc[r] = "testing" => kind[counter] = "bench"
        /\ preRunOk[r] # "unknown" => preRunOk[Root] = preRunOk[r]
        /\ pc[r] = "mark" \/ (pc[r] \in AtExit /\ counter <= runs) =>
              preRunOk[r] # "unknown" \/ counter \in thrown

(* The barriers of the benchmark that this job is to run.                  *)
Due ==
    IF counter <= runs /\ kind[counter] = "bench" /\ preRunOk[Root] = "yes"
    THEN BenchBarriers ELSE 0

(* How often a rank at its place calls barrier: at most, and exactly when  *)
(* nothing was thrown, in which case it has also come to the end of the    *)
(* benchmark.                                                              *)
CallsFit ==
    \A r \in Ranks :
        /\ pc[r] \in {"construct", "prerun", "test", "unmark"} => calls[r] = 0
        /\ pc[r] = "testing" => calls[r] + left[r] <= BenchBarriers
        /\ pc[r] = "mark" => calls[r] <= BenchBarriers
        /\ pc[r] \in AtExit => calls[r] <= BenchBarriers + 1
        /\ left[r] < BenchBarriers
        /\ counter \notin thrown =>
            /\ pc[r] = "testing" => calls[r] + left[r] = Due
            /\ pc[r] = "mark" => calls[r] = Due
            /\ pc[r] \in AtExit => calls[r] = Due + 1
            /\ pc[r] = "exited" => AllAtExit
            /\ pc[r] \in {"mark"} \cup AtExit /\ Due # 0
                  => <<counter, r>> \in executed

(* Why run n need not have been executed, or that it was.                  *)
Explained(n) ==
    \/ kind[n] = "none" \/ n \in refused \cup thrown \cup killed
    \/ \A r \in Ranks : <<n, r>> \in executed

(* The history of the current job and of the ones before it.               *)
History ==
    /\ counter \in refused <=> preRunOk[Root] = "no"
    /\ \A n \in refused : n <= counter
    /\ \A n \in thrown : n <= counter
    /\ \A n \in killed : n \in 1 .. counter
    /\ \A n \in 1 .. runs : n < counter => Explained(n)
    /\ \A n \in Nat : runs < n /\ n < counter => n \in killed
    /\ shell # "waits" => counter \in killed \cup thrown \/ AllAtExit

(* What the file says: after the first job it is there until the job that  *)
(* finds no run deletes it.                                                *)
File ==
    /\ pc[Root] \in AtExit /\ ~createFailed => (restart_jvm <=> counter <= runs)
    /\ counter > 1 /\ (counter <= runs \/ pc[Root] \notin AtExit) => restart_jvm
    /\ createFailed => counter = 1 /\ ~restart_jvm /\ pc[Root] \in AtExit
    /\ shell = "stopped" => ~restart_jvm

KillsBounded == IsFiniteSet(killed) /\ Cardinality(killed) <= MaxKills

IInv == Types /\ RankFits /\ CallsFit /\ History /\ File /\ KillsBounded

-----------------------------------------------------------------------------
(* A batch begins as it should.                                            *)
LEMMA InitIInv == Init => IInv
<1> SUFFICES ASSUME Init PROVE IInv
    OBVIOUS
<1> USE RanksAssumption, BatchAssumption, BenchAssumption
<1>1. Types
    <2>1. restart_jvm \in BOOLEAN /\ createFailed \in BOOLEAN
        BY Zenon DEF Init
    <2> QED
        BY <2>1 DEF Init, Types, AllAt, Places
<1>2. RankFits
    BY DEF Init, RankFits, AllAt, Root, AtExit
<1>3. CallsFit
    BY DEF Init, CallsFit, AllAt, AtExit
<1>4. History
    BY DEF Init, History, AllAt, Root
<1>5. File
    BY DEF Init, File, AllAt, Root, AtExit
<1>6. KillsBounded
    BY FS_EmptySet DEF Init, KillsBounded
<1> QED
    BY <1>1, <1>2, <1>3, <1>4, <1>5, <1>6 DEF IInv

(* The constructor of BatchTestBench.                                      *)
LEMMA ConstructKeeps ==
    ASSUME IInv, NEW r \in Ranks, Construct(r) PROVE IInv'
<1> USE RanksAssumption, BenchAssumption
    DEF IInv, Construct, jobVars, fileVars, barrierVars, history, Root
<1>0. counter \in Nat \ {0} /\ runs \in Nat
    BY DEF Types
<1>1. Types'
    BY <1>0 DEF Types, Places, AtExit
<1>2. RankFits'
    BY <1>0 DEF Types, RankFits, AtExit
<1>3. CallsFit'
    BY <1>0 DEF Types, RankFits, CallsFit, Due, AllAtExit, AtExit
<1>4. History'
    BY <1>0 DEF Types, History, Explained, AllAtExit, AtExit
<1>5. File'
    BY <1>0 DEF Types, File, AtExit
<1> QED
    BY <1>1, <1>2, <1>3, <1>4, <1>5 DEF KillsBounded

(* preRun at the root.                                                     *)
LEMMA PreRunRootKeeps ==
    ASSUME IInv, PreRunRoot PROVE IInv'
<1> USE RanksAssumption, BenchAssumption
    DEF IInv, PreRunRoot, jobVars, fileVars, barrierVars, history, Root
<1>0. counter \in Nat \ {0} /\ runs \in Nat
    BY DEF Types
<1>a. /\ counter \in 1 .. runs /\ preRunOk[0] = "unknown"
      /\ \A q \in Ranks : preRunOk[q] = "unknown"
    BY DEF RankFits, Types
<1>1. Types'
    BY <1>0, <1>a DEF Types, Places, AtExit
<1>2. RankFits'
    BY <1>0, <1>a DEF Types, RankFits, AtExit
<1>3. CallsFit'
    <2>1. counter \notin thrown =>
              \A q \in Ranks : pc[q] \in {"construct", "prerun"}
        <3> HIDE DEF PreRunRoot
        <3>1. \A q \in Ranks : pc[q] \in Places /\ preRunOk[q] = "unknown"
            BY <1>a DEF Types
        <3> QED
            BY <1>0, <1>a, <3>1 DEF RankFits, Places
    <2>2. calls[0] = 0
        BY DEF CallsFit
    <2>3. pc' = [pc EXCEPT ![0] = "test"]
          \/ (pc' = [pc EXCEPT ![0] = "mark"] /\ preRunOk'[0] = "no")
        BY <1>a DEF Types
    <2>4. CASE counter \notin thrown
        <3>1. \A q \in Ranks : calls'[q] = 0
            BY <2>1, <2>4 DEF CallsFit
        <3>2. \A q \in Ranks : pc'[q] \notin {"testing"} \cup AtExit
            BY <2>1, <2>3, <2>4 DEF Types, AtExit
        <3>3. \A q \in Ranks : pc'[q] = "mark" => Due' = 0
            BY <2>1, <2>3, <2>4 DEF Types, Due
        <3> QED
            BY <3>1, <3>2, <3>3 DEF CallsFit, AtExit
    <2>5. CASE counter \in thrown
        BY <1>0, <1>a, <2>2, <2>3, <2>5 DEF Types, CallsFit, AtExit
    <2> QED
        BY <2>4, <2>5
<1>4. History'
    BY <1>0, <1>a DEF Types, History, Explained, AllAtExit, AtExit
<1>5. File'
    BY <1>0, <1>a DEF Types, File, AtExit
<1> QED
    BY <1>1, <1>2, <1>3, <1>4, <1>5 DEF KillsBounded

(* preRun at the root does not get to its broadcast.                       *)
LEMMA PreRunThrowsKeeps ==
    ASSUME IInv, PreRunThrows PROVE IInv'
<1> USE RanksAssumption, BenchAssumption
    DEF IInv, PreRunThrows, jobVars, fileVars, barrierVars, history, Root
<1>0. counter \in Nat \ {0} /\ runs \in Nat
    BY DEF Types
<1>a. counter \in 1 .. runs
    BY DEF RankFits, Types
<1>1. Types'
    BY <1>0, <1>a DEF Types, Places, AtExit
<1>2. RankFits'
    BY <1>0, <1>a DEF Types, RankFits, AtExit
<1>3. CallsFit'
    <2>1. calls[0] = 0 /\ counter' \in thrown' /\ pc' = [pc EXCEPT ![0] = "mark"]
        BY DEF CallsFit
    <2>2. pc'[0] = "mark" /\ \A q \in Ranks : q # 0 => pc'[q] = pc[q]
        BY <2>1 DEF Types
    <2>3. calls' = calls /\ left' = left /\ counter' \in thrown'
        BY <2>1
    <2> HIDE DEF PreRunThrows
    <2>4. calls[0] = 0 /\ calls[0] <= BenchBarriers
        BY <2>1
    <2> SUFFICES ASSUME NEW q \in Ranks
                 PROVE  /\ pc'[q] \in {"construct", "prerun", "test", "unmark"} => calls[q] = 0
                        /\ pc'[q] = "testing" => calls[q] + left[q] <= BenchBarriers
                        /\ pc'[q] = "mark" => calls[q] <= BenchBarriers
                        /\ pc'[q] \in AtExit => calls[q] <= BenchBarriers + 1
                        /\ left[q] < BenchBarriers
        BY <2>3, Zenon DEF CallsFit
    <2>5. CASE q = 0
        BY <2>2, <2>4, <2>5 DEF CallsFit, AtExit
    <2>6. CASE q # 0
        BY <2>2, <2>6 DEF CallsFit
    <2> QED
        BY <2>5, <2>6
<1>4. History'
    BY <1>0, <1>a DEF Types, History, Explained, AllAtExit, AtExit
<1>5. File'
    BY <1>0, <1>a DEF Types, File, AtExit
<1> QED
    BY <1>1, <1>2, <1>3, <1>4, <1>5 DEF KillsBounded

(* preRun at the other ranks.                                              *)
LEMMA PreRunKeeps ==
    ASSUME IInv, NEW r \in Ranks, PreRun(r) PROVE IInv'
<1> USE RanksAssumption, BenchAssumption
    DEF IInv, PreRun, jobVars, fileVars, barrierVars, history, Root
<1>0. counter \in Nat \ {0} /\ runs \in Nat
    BY DEF Types
<1>1. Types'
    BY <1>0 DEF Types, Places, AtExit
<1>2. RankFits'
    BY <1>0 DEF Types, RankFits, AtExit
<1>3. CallsFit'
    BY <1>0 DEF Types, RankFits, CallsFit, Due, AllAtExit, AtExit
<1>4. History'
    BY <1>0 DEF Types, History, Explained, AllAtExit, AtExit
<1>5. File'
    BY <1>0 DEF Types, File, AtExit
<1> QED
    BY <1>1, <1>2, <1>3, <1>4, <1>5 DEF KillsBounded

(* There is nothing to be run.                                             *)
LEMMA RunNothingKeeps ==
    ASSUME IInv, NEW r \in Ranks, RunNothing(r) PROVE IInv'
<1> USE RanksAssumption, BenchAssumption
    DEF IInv, RunNothing, jobVars, fileVars, barrierVars, history, Root
<1>0. counter \in Nat \ {0} /\ runs \in Nat
    BY DEF Types
<1>a. counter \in 1 .. runs
    BY DEF RankFits, Types
<1>1. Types'
    BY <1>0, <1>a DEF Types, Places, AtExit
<1>2. RankFits'
    BY <1>0, <1>a DEF Types, RankFits, AtExit
<1>3. CallsFit'
    BY <1>0, <1>a DEF Types, RankFits, CallsFit, Due, AllAtExit, AtExit
<1>4. History'
    BY <1>0, <1>a DEF Types, History, Explained, AllAtExit, AtExit
<1>5. File'
    BY <1>0, <1>a DEF Types, File, AtExit
<1> QED
    BY <1>1, <1>2, <1>3, <1>4, <1>5 DEF KillsBounded

(* The benchmark begins.                                                   *)
LEMMA TestBeginsKeeps ==
    ASSUME IInv, NEW r \in Ranks, TestBegins(r) PROVE IInv'
<1> USE RanksAssumption, BenchAssumption
    DEF IInv, TestBegins, jobVars, fileVars, barrierVars, history, Root
<1>0. counter \in Nat \ {0} /\ runs \in Nat
    BY DEF Types
<1>a. counter \in 1 .. runs
    BY DEF RankFits, Types
<1>1. Types'
    BY <1>0, <1>a DEF Types, Places, AtExit
<1>2. RankFits'
    BY <1>0, <1>a DEF Types, RankFits, AtExit
<1>3. CallsFit'
    BY <1>0, <1>a DEF Types, RankFits, CallsFit, Due, AllAtExit, AtExit
<1>4. History'
    BY <1>0, <1>a DEF Types, History, Explained, AllAtExit, AtExit
<1>5. File'
    BY <1>0, <1>a DEF Types, File, AtExit
<1> QED
    BY <1>1, <1>2, <1>3, <1>4, <1>5 DEF KillsBounded

(* The benchmark goes on.                                                  *)
LEMMA TestGoesOnKeeps ==
    ASSUME IInv, NEW r \in Ranks, TestGoesOn(r) PROVE IInv'
<1> USE RanksAssumption, BenchAssumption
    DEF IInv, TestGoesOn, jobVars, fileVars, barrierVars, history, Root
<1>0. counter \in Nat \ {0} /\ runs \in Nat
    BY DEF Types
<1>a. counter \in 1 .. runs
    BY DEF RankFits, Types
<1>1. Types'
    BY <1>0, <1>a DEF Types, Places, AtExit
<1>2. RankFits'
    BY <1>0, <1>a DEF Types, RankFits, AtExit
<1>3. CallsFit'
    <2>1. /\ calls[r] \in Nat /\ left[r] \in Nat /\ Due' = Due
          /\ pc' = pc /\ thrown' = thrown /\ counter' = counter /\ AllAtExit' = AllAtExit
          /\ executed' = executed /\ pc[r] = "testing" /\ left[r] > 0
          /\ calls'[r] = calls[r] + 1 /\ left'[r] = left[r] - 1
          /\ \A q \in Ranks : q # r => calls'[q] = calls[q] /\ left'[q] = left[q]
        BY DEF Types, Due, AllAtExit
    <2>2. calls'[r] + left'[r] = calls[r] + left[r] /\ left'[r] < left[r]
        BY <2>1
    <2> HIDE DEF TestGoesOn
    <2>3. /\ calls'[r] + left'[r] <= BenchBarriers /\ left'[r] < BenchBarriers
          /\ counter \notin thrown => calls'[r] + left'[r] = Due
        <3>1. /\ calls[r] + left[r] <= BenchBarriers /\ left[r] < BenchBarriers
              /\ counter \notin thrown => calls[r] + left[r] = Due
            BY <2>1 DEF CallsFit
        <3> QED
            BY <2>1, <2>2, <3>1
    <2> QED
        BY <2>1, <2>3 DEF CallsFit, AtExit
<1>4. History'
    BY <1>0, <1>a DEF Types, History, Explained, AllAtExit, AtExit
<1>5. File'
    BY <1>0, <1>a DEF Types, File, AtExit
<1> QED
    BY <1>1, <1>2, <1>3, <1>4, <1>5 DEF KillsBounded

(* The benchmark ends.                                                     *)
LEMMA TestEndsKeeps ==
    ASSUME IInv, NEW r \in Ranks, TestEnds(r) PROVE IInv'
<1> USE RanksAssumption, BenchAssumption
    DEF IInv, TestEnds, jobVars, fileVars, barrierVars, history, Root
<1>0. counter \in Nat \ {0} /\ runs \in Nat
    BY DEF Types
<1>a. counter \in 1 .. runs
    BY DEF RankFits, Types
<1>1. Types'
    BY <1>0, <1>a DEF Types, Places, AtExit
<1>2. RankFits'
    BY <1>0, <1>a DEF Types, RankFits, AtExit
<1>3. CallsFit'
    <2>1. /\ calls' = calls /\ left' = left /\ thrown' = thrown
          /\ counter' = counter /\ Due' = Due
          /\ executed' = executed \cup {<<counter, r>>}
          /\ pc[r] = "testing" /\ pc'[r] = "mark" /\ left[r] = 0
          /\ \A q \in Ranks : q # r => pc'[q] = pc[q]
        BY DEF Types, Due
    <2>2. AllAtExit => FALSE
        BY <2>1 DEF AllAtExit, AtExit
    <2>3. calls[r] \in Nat /\ Due \in Nat
        BY DEF Types, Due
    <2> HIDE DEF TestEnds
    <2>4. calls[r] <= BenchBarriers /\ (counter \notin thrown => calls[r] = Due)
        <3>1. /\ calls[r] + left[r] <= BenchBarriers
              /\ counter \notin thrown => calls[r] + left[r] = Due
            BY <2>1 DEF CallsFit
        <3> QED
            BY <2>1, <2>3, <3>1
    <2> QED
        BY <2>1, <2>2, <2>4 DEF CallsFit, AtExit
<1>4. History'
    BY <1>0, <1>a DEF Types, History, Explained, AllAtExit, AtExit
<1>5. File'
    BY <1>0, <1>a DEF Types, File, AtExit
<1> QED
    BY <1>1, <1>2, <1>3, <1>4, <1>5 DEF KillsBounded

(* A rank leaves the benchmark.                                            *)
LEMMA RunThrowsKeeps ==
    ASSUME IInv, NEW r \in Ranks, RunThrows(r) PROVE IInv'
<1> USE RanksAssumption, BenchAssumption
    DEF IInv, RunThrows, jobVars, fileVars, barrierVars, history, Root
<1>0. counter \in Nat \ {0} /\ runs \in Nat
    BY DEF Types
<1>a. counter \in 1 .. runs
    BY DEF RankFits, Types
<1>1. Types'
    BY <1>0, <1>a DEF Types, Places, AtExit
<1>2. RankFits'
    BY <1>0, <1>a DEF Types, RankFits, AtExit
<1>3. CallsFit'
    <2>1. calls[r] <= BenchBarriers
        <3>1. calls[r] \in Nat /\ left[r] \in Nat
            BY DEF Types
        <3>2. calls[r] = 0 \/ calls[r] + left[r] <= BenchBarriers
            BY DEF CallsFit
        <3> QED
            BY <3>1, <3>2
    <2> QED
        BY <1>0, <1>a, <2>1 DEF Types, CallsFit, AtExit
<1>4. History'
    BY <1>0, <1>a DEF Types, History, Explained, AllAtExit, AtExit
<1>5. File'
    BY <1>0, <1>a DEF Types, File, AtExit
<1> QED
    BY <1>1, <1>2, <1>3, <1>4, <1>5 DEF KillsBounded

(* A rank leaves throttledSetup.                                           *)
LEMMA SetupThrowsKeeps ==
    ASSUME IInv, NEW r \in Ranks, SetupThrows(r) PROVE IInv'
<1> USE RanksAssumption, BenchAssumption
    DEF IInv, SetupThrows, jobVars, fileVars, barrierVars, history, Root
<1>0. counter \in Nat \ {0} /\ runs \in Nat
    BY DEF Types
<1>a. counter \in 1 .. runs
    BY DEF RankFits, Types
<1>1. Types'
    BY <1>0, <1>a DEF Types, Places, AtExit
<1>2. RankFits'
    BY <1>0, <1>a DEF Types, RankFits, AtExit
<1>3. CallsFit'
    <2>1. PICK n \in 0 .. left[r] - 2 : left' = [left EXCEPT ![r] = n]
        OBVIOUS
    <2>2. /\ calls[r] + left[r] <= BenchBarriers /\ left[r] < BenchBarriers
          /\ calls'[r] = calls[r] + 1 /\ left'[r] = n
          /\ calls[r] \in Nat /\ left[r] \in Nat /\ n \in Nat /\ n + 2 <= left[r]
        <3>1. calls[r] \in Nat /\ left[r] \in Nat
            BY DEF Types
        <3>2. calls[r] + left[r] <= BenchBarriers /\ left[r] < BenchBarriers
            BY DEF CallsFit
        <3>3. calls'[r] = calls[r] + 1 /\ left'[r] = n
            BY <2>1 DEF Types
        <3> QED
            BY <3>1, <3>2, <3>3
    <2>3. calls'[r] + left'[r] <= BenchBarriers /\ left'[r] < BenchBarriers
        BY <2>2
    <2>4. counter' \in thrown' /\ pc' = pc /\ pc[r] = "testing"
          /\ \A q \in Ranks : q # r => calls'[q] = calls[q] /\ left'[q] = left[q]
        BY <2>1 DEF Types
    <2> QED
        BY <2>3, <2>4 DEF CallsFit, AtExit
<1>4. History'
    BY <1>0, <1>a DEF Types, History, Explained, AllAtExit, AtExit
<1>5. File'
    BY <1>0, <1>a DEF Types, File, AtExit
<1> QED
    BY <1>1, <1>2, <1>3, <1>4, <1>5 DEF KillsBounded

(* setRestartJvm, by whichever rank.                                       *)
LEMMA MarkRestartKeeps ==
    ASSUME IInv, NEW r \in Ranks, MarkRestart(r) PROVE IInv'
<1> USE RanksAssumption, BenchAssumption
    DEF IInv, MarkRestart, jobVars, fileVars, barrierVars, history, Root
<1>0. counter \in Nat \ {0} /\ runs \in Nat
    BY DEF Types
<1>1. Types'
    <2>1. restart_jvm' \in BOOLEAN /\ createFailed' \in BOOLEAN
        BY Zenon DEF Types
    <2> QED
        BY <1>0, <2>1 DEF Types, Places, AtExit
<1>2. RankFits'
    BY <1>0 DEF Types, RankFits, AtExit
<1>3. CallsFit'
    BY <1>0 DEF Types, RankFits, CallsFit, Due, AllAtExit, AtExit
<1>4. History'
    BY <1>0 DEF Types, History, Explained, AllAtExit, AtExit
<1>5. File'
    <2>1. /\ r # 0 => pc'[0] = pc[0] /\ restart_jvm' = restart_jvm
                        /\ createFailed' = createFailed
          /\ counter' = counter /\ runs' = runs
          /\ shell = "waits" /\ shell' = "waits"
        BY DEF Types
    <2>2. CASE r # 0
        BY <2>1, <2>2 DEF File
    <2>3. CASE r = 0
        <3>1. /\ pc[0] \notin AtExit /\ pc'[0] \in AtExit
              /\ counter > 1 \/ counter = 1
              /\ pc[0] = "mark" => counter <= runs
              /\ pc[0] = "unmark" => ~(counter <= runs)
            BY <2>3 DEF Types, RankFits, AtExit
        <3>2. \/ /\ restart_jvm' <=> pc[0] = "mark"
                 /\ createFailed' = createFailed
              \/ /\ pc[0] = "mark" /\ ~restart_jvm
                 /\ createFailed' = TRUE /\ ~restart_jvm'
            BY <2>3, Zenon
        <3>3. pc[0] = "mark" \/ pc[0] = "unmark"
            BY <2>3
        <3> HIDE DEF MarkRestart
        <3>4. CASE pc[0] = "mark" /\ restart_jvm'
            <4>1. ~createFailed
                BY <3>1, Zenon DEF File
            <4>2. ~createFailed'
                BY <3>2, <3>4, <4>1, Zenon
            <4> QED
                BY <2>1, <3>1, <3>4, <4>2, Zenon DEF File
        <3>5. CASE pc[0] = "mark" /\ ~restart_jvm'
            BY <2>1, <3>1, <3>2, <3>5, Zenon DEF File
        <3>6. CASE pc[0] = "unmark"
            <4>1. ~restart_jvm' /\ createFailed' = createFailed
                BY <3>2, <3>6
            <4> QED
                BY <2>1, <3>1, <3>6, <4>1, Zenon DEF File
        <3> QED
            BY <3>3, <3>4, <3>5, <3>6
    <2> QED
        BY <2>2, <2>3
<1> QED
    BY <1>1, <1>2, <1>3, <1>4, <1>5 DEF KillsBounded

(* The barrier before the exit.                                            *)
LEMMA ExitKeeps ==
    ASSUME IInv, NEW r \in Ranks, Exit(r) PROVE IInv'
<1> USE RanksAssumption, BenchAssumption
    DEF IInv, Exit, jobVars, fileVars, barrierVars, history, Root
<1>0. counter \in Nat \ {0} /\ runs \in Nat
    BY DEF Types
<1>1. Types'
    BY <1>0 DEF Types, Places, AtExit
<1>2. RankFits'
    BY <1>0 DEF Types, RankFits, AtExit
<1>3. CallsFit'
    <2>1. counter \notin thrown => AllAtExit
        <3> SUFFICES ASSUME counter \notin thrown, NEW q \in Ranks
                     PROVE  pc[q] \in AtExit
            BY DEF AllAtExit
        <3>1. calls[q] >= Due + 1
            BY DEF CallsFit, AtExit, Released, Types
        <3>2. Due \in Nat
            BY DEF Due
        <3>3. calls[q] \in Nat /\ left[q] \in Nat /\ pc[q] \in Places
            BY DEF Types
        <3> QED
            <4>1. /\ pc[q] \in {"construct", "prerun", "test", "unmark"} => calls[q] = 0
                  /\ pc[q] = "testing" => calls[q] + left[q] = Due
                  /\ pc[q] = "mark" => calls[q] = Due
                BY DEF CallsFit
            <4>2. pc[q] \notin {"construct", "prerun", "test", "unmark", "testing", "mark"}
                BY <3>1, <3>2, <3>3, <4>1
            <4> QED
                BY <3>3, <4>2 DEF Places
    <2>2. (counter \notin thrown => AllAtExit') /\ Due' = Due
        BY <2>1 DEF AllAtExit, AtExit, Due, Types
    <2> QED
        BY <2>2 DEF Types, CallsFit, AtExit
<1>4. History'
    BY <1>0 DEF Types, History, Explained, AllAtExit, AtExit
<1>5. File'
    BY <1>0 DEF Types, File, AtExit
<1> QED
    BY <1>1, <1>2, <1>3, <1>4, <1>5 DEF KillsBounded

(* mpirun returns.                                                         *)
LEMMA JobEndsKeeps ==
    ASSUME IInv, JobEnds PROVE IInv'
<1> USE RanksAssumption DEF IInv, JobEnds, fileVars, barrierVars, history, Root
<1>1. Types' /\ RankFits' /\ CallsFit' /\ File'
    BY DEF Types, RankFits, CallsFit, Due, AllAtExit, File
<1>2. History'
    BY DEF CallsFit, History, Explained, AllAtExit
<1> QED
    BY <1>1, <1>2 DEF KillsBounded

(* A job is killed.                                                        *)
LEMMA KillKeeps ==
    ASSUME IInv, Kill PROVE IInv'
<1> USE RanksAssumption, BatchAssumption
    DEF IInv, Kill, fileVars, barrierVars, history, Root
<1>1. Types' /\ RankFits' /\ CallsFit' /\ File'
    BY DEF Types, RankFits, CallsFit, Due, AllAtExit, File
<1>2. History'
    BY DEF Types, History, Explained, AllAtExit
<1>3. KillsBounded'
    <2>0. /\ IsFiniteSet(killed \cup {counter})
          /\ \/ Cardinality(killed \cup {counter}) = Cardinality(killed)
             \/ Cardinality(killed \cup {counter}) = Cardinality(killed) + 1
        BY FS_AddElement DEF KillsBounded
    <2>1. Cardinality(killed) \in Nat /\ IsFiniteSet(killed')
          /\ Cardinality(killed') <= Cardinality(killed) + 1
        BY <2>0, FS_CardinalityType DEF KillsBounded
    <2> QED
        BY <2>1, FS_CardinalityType DEF KillsBounded
<1> QED
    BY <1>1, <1>2, <1>3

(* The run of a job that was neither killed nor disturbed, and that has    *)
(* come to its exit, is explained.                                         *)
LEMMA EndExplains ==
    ASSUME IInv, shell # "waits", counter <= runs PROVE Explained(counter)
<1> USE RanksAssumption, BenchAssumption DEF IInv, Root
<1> SUFFICES ASSUME AllAtExit, kind[counter] # "none",
                    counter \notin killed \cup thrown \cup refused
             PROVE  \A r \in Ranks : <<counter, r>> \in executed
    BY DEF Types, History, Explained
<1>1. preRunOk[0] = "yes"
    BY DEF AllAtExit, RankFits, History, Types
<1>2. kind[counter] = "bench"
    BY DEF Types
<1>3. Due # 0
    BY <1>1, <1>2 DEF Due
<1> QED
    BY <1>3 DEF CallsFit, AllAtExit

(* The shell looks for the file.                                           *)
LEMMA LookKeeps ==
    ASSUME IInv, Look PROVE IInv'
<1> USE RanksAssumption, BenchAssumption
    DEF IInv, Look, NextJob, Stop, fileVars, barrierVars, history, Root
<1>1. CASE restart_jvm /\ NextJob
    <2>0. counter' = counter + 1 /\ pc' = AllAt("construct") /\ ~createFailed
          /\ preRunOk' = AllAt("unknown") /\ calls' = AllAt(0) /\ left' = AllAt(0)
        BY <1>1 DEF File
    <2>1. Types'
        BY <1>1, <2>0 DEF Types, AllAt, Places
    <2>2. RankFits'
        BY <1>1, <2>0 DEF RankFits, AllAt, AtExit
    <2>3. CallsFit'
        BY <1>1, <2>0 DEF CallsFit, AllAt, AtExit
    <2>4. counter <= runs => Explained(counter)
        BY <1>1, EndExplains
    <2>5. counter > runs => counter \in killed
        BY <1>1, <2>0 DEF Types, History, File, AllAtExit
    <2>6. History'
        <3>1. \A n \in 1 .. runs' : n < counter' => Explained(n)'
            BY <1>1, <2>0, <2>4 DEF Types, History, Explained
        <3>2. \A n \in Nat : runs' < n /\ n < counter' => n \in killed'
            BY <1>1, <2>0, <2>5 DEF Types, History
        <3> QED
            BY <1>1, <2>0, <3>1, <3>2 DEF Types, History, AllAt
    <2>7. File'
        BY <1>1, <2>0 DEF Types, File, AllAt, AtExit
    <2> QED
        BY <1>1, <2>1, <2>2, <2>3, <2>6, <2>7 DEF KillsBounded
<1>2. CASE ~restart_jvm /\ Stop
    <2>1. Types' /\ RankFits' /\ CallsFit' /\ File'
        BY <1>2 DEF Types, RankFits, CallsFit, Due, AllAtExit, File
    <2>2. History'
        BY <1>2 DEF History, Explained, AllAtExit
    <2> QED
        BY <1>2, <2>1, <2>2 DEF KillsBounded
<1> QED
    BY <1>1, <1>2

(* The invariant is inductive.                                             *)
LEMMA NextIInv == IInv /\ [Next]_vars => IInv'
<1> SUFFICES ASSUME IInv, [Next]_vars PROVE IInv'
    OBVIOUS
<1>1. CASE UNCHANGED vars
    BY <1>1 DEF vars, jobVars, fileVars, barrierVars, history, IInv, Types,
       RankFits, CallsFit, Due, History, Explained, File, KillsBounded, AllAtExit
<1>2. CASE \E r \in Ranks : RankStep(r) \/ BenchStep(r)
    BY <1>2, ConstructKeeps, PreRunKeeps, RunNothingKeeps, TestBeginsKeeps,
       TestGoesOnKeeps, TestEndsKeeps, RunThrowsKeeps, SetupThrowsKeeps,
       MarkRestartKeeps, ExitKeeps DEF RankStep, BenchStep
<1>3. CASE PreRunRoot \/ PreRunThrows \/ JobEnds \/ Kill \/ Look
    BY <1>3, PreRunRootKeeps, PreRunThrowsKeeps, JobEndsKeeps, KillKeeps, LookKeeps
<1> QED
    BY <1>1, <1>2, <1>3 DEF Next

(* The specification keeps the invariant.                                  *)
LEMMA Invariance == Spec => []IInv
BY InitIInv, NextIInv, PTL DEF Spec

-----------------------------------------------------------------------------
(* The jobs beyond the last run are killed ones, and so there are few.     *)
LEMMA FewBeyond == IInv => counter <= runs + MaxKills + 1
<1> SUFFICES ASSUME IInv PROVE counter <= runs + MaxKills + 1
    OBVIOUS
<1> USE BatchAssumption DEF IInv
<1>1. CASE counter <= runs + 1
    BY <1>1 DEF Types
<1>2. CASE counter > runs + 1
    <2>1. (runs + 1) .. (counter - 1) \subseteq killed
        BY DEF Types, History
    <2>2. Cardinality((runs + 1) .. (counter - 1)) = counter - 1 - runs
        BY <1>2, FS_Interval DEF Types
    <2>3. Cardinality((runs + 1) .. (counter - 1)) <= Cardinality(killed)
        BY <2>1, FS_Subset DEF KillsBounded
    <2> QED
        BY <2>2, <2>3, FS_CardinalityType DEF Types, KillsBounded
<1> QED
    BY <1>1, <1>2 DEF Types

(* The state of a batch keeps its type, for any number of runs and kills:  *)
(* the shell's counter passes the last run only by the jobs killed there.  *)
THEOREM BatchTypeCorrect == Spec => []TypeOK
<1>1. IInv => TypeOK
    <2> SUFFICES ASSUME IInv PROVE TypeOK
        OBVIOUS
    <2>1. calls \in [Ranks -> 0 .. BenchBarriers + 1]
          /\ left \in [Ranks -> 0 .. BenchBarriers - 1]
        <3>1. \A r \in Ranks : calls[r] \in Nat /\ left[r] \in Nat /\ pc[r] \in Places
            BY DEF IInv, Types
        <3>2. ASSUME NEW r \in Ranks
              PROVE  calls[r] <= BenchBarriers + 1 /\ left[r] <= BenchBarriers - 1
            <4>1. /\ pc[r] \in {"construct", "prerun", "test", "unmark"} => calls[r] = 0
                  /\ pc[r] = "testing" => calls[r] + left[r] <= BenchBarriers
                  /\ pc[r] = "mark" => calls[r] <= BenchBarriers
                  /\ pc[r] \in AtExit => calls[r] <= BenchBarriers + 1
                  /\ left[r] < BenchBarriers
                BY DEF IInv, CallsFit
            <4> QED
                BY <3>1, <4>1, BenchAssumption DEF Places
        <3> QED
            BY <3>1, <3>2, BenchAssumption DEF IInv, Types
    <2> QED
        BY <2>1, FewBeyond, RanksAssumption, BatchAssumption
        DEF IInv, TypeOK, Types, Places
<1> QED
    BY <1>1, Invariance, PTL

(* No rank of a job begins a benchmark that its pre-run script refused, on *)
(* any number of ranks.                                                    *)
THEOREM PreRunDecides == Spec => []AllOrNone
<1>1. IInv => AllOrNone
    BY RanksAssumption DEF IInv, AllOrNone, RankFits, History, Root
<1> QED
    BY <1>1, Invariance, PTL

(* The barrier before the exit makes the restart file right when the shell *)
(* looks at it, on any number of ranks.                                    *)
THEOREM RestartFileCorrect == Spec => []FileIsRight
<1>1. IInv => FileIsRight
    BY RanksAssumption DEF IInv, FileIsRight, Types, History, File, AllAtExit, Root
<1> QED
    BY <1>1, Invariance, PTL

(* Every run that a batch has gone past was brought to its end by every    *)
(* rank, or there is a reason: nothing to be run, a refusal, an exception  *)
(* or a kill.                                                              *)
THEOREM RunsAccountedFor == Spec => []Accounted
<1>1. IInv => Accounted
    <2> SUFFICES ASSUME IInv, NEW n \in 1 .. runs,
                        n < counter \/ (shell = "stopped" /\ n = counter)
                 PROVE  Explained(n)
        BY DEF Accounted, Explained
    <2>1. CASE n < counter
        BY <2>1 DEF IInv, History
    <2>2. CASE shell = "stopped" /\ n = counter
        BY <2>2, EndExplains DEF IInv, Types
    <2> QED
        BY <2>1, <2>2
<1> QED
    BY <1>1, Invariance, PTL

(* A batch ends early only after its first job.                            *)
THEOREM EarlyEndOnlyAtFirst == Spec => []EndsEarlyOnlyAtFirst
<1>1. IInv => EndsEarlyOnlyAtFirst
    <2> SUFFICES ASSUME IInv, shell = "stopped", counter <= runs
                 PROVE  counter = 1 /\ (killed = {1} \/ createFailed \/ 1 \in thrown)
        BY DEF EndsEarlyOnlyAtFirst
    <2>0. ~restart_jvm /\ ~(counter > 1)
        BY Zenon DEF IInv, File
    <2>1. ~restart_jvm /\ counter = 1
        BY <2>0 DEF IInv, Types
    <2>2. CASE counter \in killed
        <3>1. \A n \in killed : n \in 1 .. 1
            BY <2>1 DEF IInv, History
        <3>2. \A n \in killed : n = 1
            BY <3>1
        <3>3. killed = {1}
            BY <2>1, <2>2, <3>2, Zenon
        <3> QED
            BY <2>1, <3>3
    <2>3. CASE AllAtExit
        BY <2>1, <2>3, RanksAssumption DEF IInv, File, AllAtExit, Root
    <2>4. CASE counter \in thrown
        BY <2>1, <2>4
    <2> QED
        BY <2>1, <2>2, <2>3, <2>4 DEF IInv, History
<1> QED
    BY <1>1, Invariance, PTL
=============================================================================
