----------------------------- MODULE TestBench -----------------------------
(***************************************************************************)
(* One benchmark, from the run method of MergedMapTestBench or             *)
(* MultiMergedMapTestBench to the end of TestBench.nodeTestCycle, on every *)
(* rank of an MPI job.  The ranks share nothing but MPI collectives and    *)
(* the Kafka topics of the maps.                                           *)
(*                                                                         *)
(* MPI is external.  A barrier lets a rank go once every rank has called   *)
(* barrier as many times, wherever in the program those calls are; a       *)
(* broadcast does not wait for its receivers, and the n-th call of a       *)
(* receiver gets the n-th value the root sent.  MPIException is left out.  *)
(* As in the other modules, a definition that ends in _Mutant is a         *)
(* plausible bug in the definition after it, which a property must notice. *)
(***************************************************************************)
EXTENDS NodeAssignment, Sequences

CONSTANTS
    Configs,      \* the configurations a job may be started with: records
                  \* of NodeAssignment with a further field `throws', the
                  \* methods of a TestNode that may throw
    AutoName,     \* mapName = "" in the configuration
    MaxSize       \* no configuration has more ranks

ASSUME ConfigsAssumption ==
    \A c \in Configs :
        /\ IsConfig(c)
        /\ c.size <= MaxSize
        /\ c.throws \subseteq {"setup", "run", "shutdown"}
ASSUME AutoNameAssumption == AutoName \in BOOLEAN

VARIABLES
    config,       \* the configuration of this job, equal on every rank
    pc,           \* where each rank is
    turn,         \* nodeThatCanStartWarmup of each rank
    arrived,      \* how often each rank has called barrier
    sent,         \* the values the root has broadcast
    received,     \* how many of them each rank has taken
    missing,      \* the topics a rank has found absent and will create
    creators,     \* the ranks that created the topic of a map
    open,         \* the ranks whose KafkaBuses are connected
    warm,         \* the maps whose warm-up writes are done
    written       \* the maps whose benchmark writes are done

mapVars == <<missing, creators, open, warm, written>>
vars == <<config, pc, turn, arrived, sent, received, mapVars>>

Rank == Ranks(config)
mpiRoot == 0

Barriers == {"initBarrier", "startBarrier", "turnBarrier", "setupBarrier",
             "runBarrier", "postBarrier"}
Labels == Barriers \cup
          {"name", "ips", "open", "create", "connect", "createLate", "loop",
           "setup", "bcast", "run", "shutdown", "post", "done", "refused"}

Opened == {m \in MapIds(config) : creators[m] # {}}

(* Rank r goes on to label l; going to a barrier is calling it.            *)
Goto(r, l) ==
    /\ pc' = [pc EXCEPT ![r] = l]
    /\ arrived' = [arrived EXCEPT ![r] = IF l \in Barriers THEN @ + 1 ELSE @]

Init ==
    /\ config \in Configs
    /\ pc = [r \in Rank |-> IF AutoName THEN "name" ELSE "ips"]
    /\ turn = [r \in Rank |-> 0]
    /\ arrived = [r \in Rank |-> 0]
    /\ sent = <<>>
    /\ received = [r \in Rank |-> 0]
    /\ missing = [r \in Rank |-> {}]
    /\ creators = [m \in MapIds(config) |-> {}]
    /\ open = {}
    /\ warm = {}
    /\ written = {}

-----------------------------------------------------------------------------
(* MPI.COMM_WORLD.barrier() called at label `at`, going on at label `to`.  *)
barrier(r, at, to) ==
    /\ pc[r] = at
    /\ \A q \in Rank : arrived[q] >= arrived[r]
    /\ Goto(r, to)
    /\ UNCHANGED <<config, turn, sent, received, mapVars>>

(* MPI.COMM_WORLD.bcast: the root sends v, another rank takes the next     *)
(* value it has not had yet ...                                            *)
broadcast(r, v) ==
    IF r = mpiRoot
    THEN /\ sent' = Append(sent, v)
         /\ UNCHANGED received
    ELSE /\ received[r] < Len(sent)
         /\ received' = [received EXCEPT ![r] = @ + 1]
         /\ UNCHANGED sent

(* ... and this is what the call returns.                                  *)
broadcastResult(r, v) == IF r = mpiRoot THEN v ELSE sent[received[r] + 1]

-----------------------------------------------------------------------------
(* MergedMapTestBench.run and MultiMergedMapTestBench.run.                 *)

(* The map name is chosen by the root; its value does not matter here.     *)
generateAndDistributeMapBaseName(r) ==
    /\ pc[r] = "name"
    /\ broadcast(r, 0)
    /\ Goto(r, "ips")
    /\ UNCHANGED <<config, turn, mapVars>>

(* throw new NotEnoughNodesAvailableException()                            *)
refuse(r) ==
    /\ pc[r] = "ips"
    /\ NotEnoughNodes(config)
    /\ Goto(r, "refused")
    /\ UNCHANGED <<config, turn, sent, received, mapVars>>

(* Writers go on to open their maps; readers and dummies to the barrier.   *)
distributeRandomIPSet(r) ==
    /\ pc[r] = "ips"
    /\ ~NotEnoughNodes(config)
    /\ broadcast(r, 0)
    /\ Goto(r, IF imTheWriter(config, r) THEN "open" ELSE "initBarrier")
    /\ UNCHANGED <<config, turn, mapVars>>

(* createTopicIfNeeded on each of a rank's maps: the check ...             *)
FindMissing(r, at, to) ==
    /\ pc[r] = at
    /\ missing' = [missing EXCEPT ![r] = myMaps(config, r) \ Opened]
    /\ Goto(r, to)
    /\ UNCHANGED <<config, turn, sent, received, creators, open, warm,
                   written>>

(* ... and the creation of what was not there; the buses then connect.     *)
CreateMissing(r, at, to) ==
    /\ pc[r] = at
    /\ creators' = [m \in MapIds(config) |->
                        IF m \in missing[r] THEN creators[m] \cup {r}
                        ELSE creators[m]]
    /\ missing' = [missing EXCEPT ![r] = {}]
    /\ open' = open \cup {r}
    /\ Goto(r, to)
    /\ UNCHANGED <<config, turn, sent, received, warm, written>>

(* Writers open their maps before the barrier, readers after it.           *)
openAsWriter(r) == FindMissing(r, "open", "create")
createAsWriter(r) == CreateMissing(r, "create", "initBarrier")

AfterInit(r) ==
    IF Reads(config, r) # {} THEN "connect" ELSE "startBarrier"

(* Without the barrier.                                                    *)
initBarrier_Mutant(r) ==
    /\ pc[r] = "initBarrier"
    /\ Goto(r, AfterInit(r))
    /\ UNCHANGED <<config, turn, sent, received, mapVars>>

initBarrier(r) == barrier(r, "initBarrier", AfterInit(r))

openAsReader(r) == FindMissing(r, "connect", "createLate")
createAsReader(r) == CreateMissing(r, "createLate", "startBarrier")

-----------------------------------------------------------------------------
(* TestBench.throttledSetup.                                               *)

startBarrier(r) == barrier(r, "startBarrier", "loop")

(* Every node whose turn has not passed sets up.                           *)
throttle_Mutant(r) ==
    /\ pc[r] = "loop"
    /\ Goto(r, IF turn[r] >= config.size THEN "setupBarrier"
               ELSE IF turn[r] <= r THEN "setup"
               ELSE "turnBarrier")
    /\ UNCHANGED <<config, turn, sent, received, mapVars>>

(* A node leaves the loop after its own turn.                              *)
throttleShort_Mutant(r) ==
    /\ pc[r] = "loop"
    /\ Goto(r, IF turn[r] >= config.size \/ turn[r] > r THEN "setupBarrier"
               ELSE IF turn[r] = r THEN "setup"
               ELSE "turnBarrier")
    /\ UNCHANGED <<config, turn, sent, received, mapVars>>

(* The head of the while loop.                                             *)
throttle(r) ==
    /\ pc[r] = "loop"
    /\ Goto(r, IF turn[r] >= config.size THEN "setupBarrier"
               ELSE IF turn[r] = r THEN "setup"
               ELSE "turnBarrier")
    /\ UNCHANGED <<config, turn, sent, received, mapVars>>

(* node.setup() of a WriterNode or MultiMapWriterNode writes the warm-up   *)
(* entries of its maps ...                                                 *)
writerSetup(r) ==
    /\ pc[r] = "setup"
    /\ imTheWriter(config, r)
    /\ warm' = warm \cup Writes(config, r)
    /\ Goto(r, "turnBarrier")
    /\ UNCHANGED <<config, turn, sent, received, missing, creators, open,
                   written>>

(* ... that of a reader waits for them, and that of a DummyNode is empty.  *)
readerSetup(r) ==
    /\ pc[r] = "setup"
    /\ ~imTheWriter(config, r)
    /\ Reads(config, r) \subseteq warm
    /\ Goto(r, "turnBarrier")
    /\ UNCHANGED <<config, turn, sent, received, mapVars>>

(* An exception of node.setup() leaves throttledSetup, and is caught by    *)
(* nodeTestCycle.  ReaderNode gives up waiting after five seconds, with an *)
(* IndexOutOfBoundsException; MultiMapReaderNode never does.               *)
setupThrows(r) ==
    /\ pc[r] = "setup"
    /\ \/ "setup" \in config.throws
       \/ config.kind = "single" /\ ~(Reads(config, r) \subseteq warm)
    /\ Goto(r, "setupBarrier")
    /\ UNCHANGED <<config, turn, sent, received, mapVars>>

turnBarrier(r) == barrier(r, "turnBarrier", "bcast")

(* The root counts on and tells the others.                                *)
nextTurn(r) ==
    /\ pc[r] = "bcast"
    /\ broadcast(r, turn[r] + 1)
    /\ turn' = [turn EXCEPT ![r] = broadcastResult(r, turn[r] + 1)]
    /\ Goto(r, "loop")
    /\ UNCHANGED <<config, mapVars>>

-----------------------------------------------------------------------------
(* The rest of TestBench.nodeTestCycle.  An exception of run, shutdown or  *)
(* postProcessResults is caught around the call, which then counts as      *)
(* ended.                                                                  *)

(* Without the barrier.                                                    *)
setupBarrier_Mutant(r) ==
    /\ pc[r] = "setupBarrier"
    /\ Goto(r, "run")
    /\ UNCHANGED <<config, turn, sent, received, mapVars>>

setupBarrier(r) == barrier(r, "setupBarrier", "run")

(* node.run() of a writer writes the benchmark entries of its maps, and    *)
(* that of a reader ends when it has seen those of its maps.  (LatencyNodes *)
(* is about updates that are lost or late.)                                *)
writerRun(r) ==
    /\ pc[r] = "run"
    /\ imTheWriter(config, r)
    /\ written' = written \cup Writes(config, r)
    /\ Goto(r, "runBarrier")
    /\ UNCHANGED <<config, turn, sent, received, missing, creators, open,
                   warm>>

readerRun(r) ==
    /\ pc[r] = "run"
    /\ ~imTheWriter(config, r)
    /\ Reads(config, r) \subseteq written
    /\ Goto(r, "runBarrier")
    /\ UNCHANGED <<config, turn, sent, received, mapVars>>

(* ReaderNode.run throws after its twenty-first timeout.                   *)
runThrows(r) ==
    /\ pc[r] = "run"
    /\ \/ "run" \in config.throws
       \/ config.kind = "single" /\ ~(Reads(config, r) \subseteq written)
    /\ Goto(r, "runBarrier")
    /\ UNCHANGED <<config, turn, sent, received, mapVars>>

(* Without the barrier.                                                    *)
runBarrier_Mutant(r) ==
    /\ pc[r] = "runBarrier"
    /\ Goto(r, "shutdown")
    /\ UNCHANGED <<config, turn, sent, received, mapVars>>

runBarrier(r) == barrier(r, "runBarrier", "shutdown")

(* MultiMapReaderNode and MultiMapWriterNode shut their buses down; the    *)
(* nodes of the single-map benchmark leave theirs open.                    *)
shutdown(r) ==
    /\ pc[r] = "shutdown"
    /\ open' = IF config.kind = "multi" THEN open \ {r} ELSE open
    /\ Goto(r, "post")
    /\ UNCHANGED <<config, turn, sent, received, missing, creators, warm,
                   written>>

shutdownThrows(r) ==
    /\ pc[r] = "shutdown"
    /\ "shutdown" \in config.throws
    /\ Goto(r, "post")
    /\ UNCHANGED <<config, turn, sent, received, mapVars>>

(* Writing the results to files touches nothing of this state, and goes on *)
(* to the barrier whether or not it throws.                                *)
postProcessResults(r) ==
    /\ pc[r] = "post"
    /\ Goto(r, "postBarrier")
    /\ UNCHANGED <<config, turn, sent, received, mapVars>>

postBarrier(r) == barrier(r, "postBarrier", "done")

-----------------------------------------------------------------------------
runBench(r) ==
    \/ generateAndDistributeMapBaseName(r) \/ refuse(r)
    \/ distributeRandomIPSet(r) \/ openAsWriter(r) \/ createAsWriter(r)
    \/ initBarrier(r) \/ openAsReader(r) \/ createAsReader(r)

throttledSetup(r) ==
    \/ throttle(r) \/ writerSetup(r) \/ readerSetup(r) \/ setupThrows(r)
    \/ turnBarrier(r) \/ nextTurn(r)

nodeTestCycle(r) ==
    \/ startBarrier(r) \/ throttledSetup(r) \/ setupBarrier(r)
    \/ writerRun(r) \/ readerRun(r) \/ runThrows(r) \/ runBarrier(r)
    \/ shutdown(r) \/ shutdownThrows(r) \/ postProcessResults(r)
    \/ postBarrier(r)

Step(r) == runBench(r) \/ nodeTestCycle(r)

Over == \A r \in Rank : pc[r] \in {"done", "refused"}

Next == \E r \in Rank : Step(r)

Spec == Init /\ [][Next]_vars

(* A rank is a process that runs whenever MPI, a latch or a sleep lets it. *)
Fairness == \A r \in 0 .. MaxSize - 1 : WF_vars(r \in Rank /\ Step(r))
FairSpec == Spec /\ Fairness

-----------------------------------------------------------------------------
AfterSetup == {"setupBarrier", "run", "runBarrier", "shutdown", "post",
               "postBarrier", "done"}

TypeOK ==
    /\ config \in Configs
    /\ pc \in [Rank -> Labels]
    /\ turn \in [Rank -> 0 .. config.size]
    /\ arrived \in [Rank -> Nat]
    /\ sent \in Seq(0 .. config.size)
    /\ received \in [Rank -> Nat]
    /\ missing \in [Rank -> SUBSET MapIds(config)]
    /\ creators \in [MapIds(config) -> SUBSET Rank]
    /\ open \subseteq Rank
    /\ warm \subseteq MapIds(config)
    /\ written \subseteq MapIds(config)

(* The job at hand is one in which no node.setup() throws.                 *)
SetupsSucceed == "setup" \notin config.throws

(* The topic of a map is created by one node, the one that writes to it:   *)
(* the barrier of run makes the readers find it.                           *)
CreatedByWriter ==
    \A m \in MapIds(config) :
        \A q, r \in creators[m] : q = r /\ m \in Writes(config, r)

(* throttledSetup lets one node at a time into node.setup().               *)
SetupsOneByOne ==
    \A q, r \in Rank : pc[q] = "setup" /\ pc[r] = "setup" => q = r

(* Where no setup() throws, ranks that wait in the same barrier are at the *)
(* same place of the program: no node has missed one.                      *)
BarriersMatch ==
    SetupsSucceed => \A q, r \in Rank :
        pc[q] \in Barriers /\ pc[r] \in Barriers /\ arrived[q] = arrived[r]
            => pc[q] = pc[r]

(* Where no setup() throws: when a node starts node.run(), every node has  *)
(* left throttledSetup and every map has been warmed up.                   *)
RunAfterSetups ==
    SetupsSucceed => \A r \in Rank :
        pc[r] \in AfterSetup \ {"setupBarrier"} =>
            /\ warm = MapIds(config)
            /\ \A q \in Rank : pc[q] \in AfterSetup

(* Where no setup() throws: while a node is in node.run(), the buses of    *)
(* all the nodes of the benchmark are connected, so nobody is shut down    *)
(* before everybody has run.                                               *)
BusesOpenDuringRun ==
    SetupsSucceed => \A q, r \in Rank :
        pc[r] = "run" /\ myMaps(config, q) # {} => q \in open

(* Every node gets to the end of the benchmark.                            *)
AllFinish == <>Over

(* A MultiMapReaderNode waits, without a timeout, for the writes of a map  *)
(* whose writer has left node.run() without having made them.              *)
Abandoned(r) ==
    /\ r \in Rank /\ pc[r] = "run" /\ config.kind = "multi"
    /\ \E q \in Rank :
          pc[q] = "runBarrier" /\ (Writes(config, q) \cap Reads(config, r)) \ written # {}

(* Where no setup() throws, every node gets to the end of the benchmark,   *)
(* whatever run() and shutdown() throw, unless a reader of the multi-map   *)
(* benchmark is abandoned by a writer whose run() threw.                   *)
SoundJobsFinish ==
    SetupsSucceed => <>Over \/ \E r \in 0 .. MaxSize - 1 : <>[]Abandoned(r)

-----------------------------------------------------------------------------
(* What makes the invariants inductive.                                    *)

(* How often a rank that is at label l has called barrier: nodeThatCan-    *)
(* StartWarmup says how many turns it has been through, and a rank whose   *)
(* setup() threw has missed the rest.                                      *)
CallsAt(l, t) ==
    IF l \in {"name", "ips", "refused", "open", "create"} THEN 0
    ELSE IF l \in {"initBarrier", "connect", "createLate"} THEN 1
    ELSE IF l = "startBarrier" THEN 2
    ELSE IF l \in {"loop", "setup"} THEN 2 + t
    ELSE IF l \in {"turnBarrier", "bcast", "setupBarrier", "run"} THEN 3 + t
    ELSE IF l \in {"runBarrier", "shutdown", "post"} THEN 4 + t
    ELSE 5 + t

CallsCounted == \A r \in Rank : arrived[r] = CallsAt(pc[r], turn[r])

(* The barriers a rank has left are behind every rank, or the rank is in   *)
(* them.                                                                   *)
Left(r) == IF pc[r] \in Barriers THEN arrived[r] - 1 ELSE arrived[r]
LeftTogether == \A q, r \in Rank : Left(r) <= arrived[q]

BeforeLoop == {"name", "ips", "refused", "open", "create", "initBarrier",
               "connect", "createLate", "startBarrier"}

TurnsInRange ==
    \A r \in Rank :
        /\ pc[r] \in BeforeLoop => turn[r] = 0
        /\ pc[r] \in {"setup", "turnBarrier", "bcast"} => turn[r] < config.size
        /\ pc[r] = "setup" => turn[r] = r
        /\ pc[r] \in AfterSetup =>
             turn[r] = config.size \/ ("setup" \in config.throws /\ turn[r] = r)

(* The broadcasts of run come first; then those of the turns, of which the *)
(* root sends 1, 2, 3 ...                                                  *)
Preface == IF AutoName THEN 2 ELSE 1

BroadcastsAt(l, t) ==
    IF l = "name" THEN 0
    ELSE IF l \in {"ips", "refused"} THEN Preface - 1
    ELSE Preface + t

BroadcastsCounted ==
    /\ Len(sent) = BroadcastsAt(pc[mpiRoot], turn[mpiRoot])
    /\ \A r \in Rank \ {mpiRoot} : received[r] = BroadcastsAt(pc[r], turn[r])
    /\ \A i \in 1 .. Len(sent) : i > Preface => sent[i] = i - Preface

(* The part a rank plays is the one it was assigned.                       *)
PlaysItsPart ==
    \A r \in Rank :
        /\ pc[r] = "name" => AutoName
        /\ pc[r] \notin {"name", "ips", "refused"} => ~NotEnoughNodes(config)
        /\ pc[r] \in {"open", "create"} => imTheWriter(config, r)
        /\ pc[r] \in {"connect", "createLate"} => Reads(config, r) # {}

HasSetUp(r) ==
    \/ turn[r] > r
    \/ turn[r] = r /\ pc[r] \in {"turnBarrier", "bcast"}

WarmAfterSetup ==
    \A r \in Rank : HasSetUp(r) => Writes(config, r) \subseteq warm

OpenUntilShutdown ==
    \A r \in Rank :
        /\ imTheWriter(config, r)
        /\ pc[r] \notin {"name", "ips", "refused", "open", "create", "post",
                         "postBarrier", "done"}
        => r \in open

ReaderOpenUntilShutdown ==
    \A r \in Rank :
        /\ Reads(config, r) # {}
        /\ pc[r] \notin {"name", "ips", "refused", "initBarrier", "connect",
                         "createLate", "post", "postBarrier", "done"}
        => r \in open

WritersCreate ==
    /\ \A r \in Rank : missing[r] \subseteq Writes(config, r)
    /\ \A m \in MapIds(config) :
          \A r \in creators[m] :
              m \in Writes(config, r) /\ ~NotEnoughNodes(config)
    /\ \A r \in Rank :
          pc[r] \notin {"name", "ips", "refused", "open", "create"} =>
            Writes(config, r) \subseteq Opened
    /\ \A r \in Rank :
          pc[r] = "create" => Writes(config, r) \subseteq Opened \cup missing[r]

IInv ==
    /\ TypeOK
    /\ CallsCounted
    /\ LeftTogether
    /\ TurnsInRange
    /\ BroadcastsCounted
    /\ PlaysItsPart
    /\ WarmAfterSetup
    /\ OpenUntilShutdown
    /\ ReaderOpenUntilShutdown
    /\ WritersCreate
=============================================================================
