# Verification of the merged-map state table and its benchmark

This directory models the program in `src/benchmarks`: a replicated *merged map*
(a key-value table on which several owners hold opinions and the greatest one is
exposed), the Kafka bus that carries the opinions, and the MPI benchmark that
drives them, with the part of Open MPI in `src/openmpi` that the benchmark's
ranks meet through: the barrier and the broadcast, down to the matching of
messages. TLA+ modules translate the code, TLC checks them on small instances,
and TLAPS proves the main results for every value of the constants.

Paths below are relative to `src/benchmarks/src/main/`; `storage/` stands for
`scala/org/midonet/cluster/data/storage/`, `bench/` for
`java/org/midonet/benchmarks/`, `coll/` and `ob1/` for `ompi/mca/coll/tuned/` and
`ompi/mca/pml/ob1/` of `src/openmpi/ompi-trunk/`. Open MPI is third-party code
and by far the bulk of the repository, about a million lines; what the benchmarks
reach of it is modelled, the rest is not. The rest of `src/` is run scripts and
plotting code.

## 1. Inventory

| Component | State it keeps | Operations | Hard behaviour |
|---|---|---|---|
| `storage/MergedMap.scala` | `cache` (key → owner → value), `entryCount`, `winners`, `winningSubject` | opinion added / removed, subscription, completion; `get`, `size`, `containsKey`, `snapshot`, `getByValue`; `putOpinion`, `removeOpinion` | handlers run on one executor, readers on any thread; subscription is snapshot-then-stream; ties are decided by hash order |
| `storage/KafkaBus.scala` | Kafka topic, producer, consumer thread, two subjects | constructor (check, create, connect), consume, send, send callback, shutdown | consumer starts before the map subscribes; check-then-create; lost sends; compaction; committed offsets after a restart |
| `storage/ArpMergedMap.scala` | – | ordering of `ArpCacheEntry` by time, encoder and decoder, factories | `Long` difference cut to `Int`; `-` as separator; `null` |
| `bench/TestBench.java`, `bench/mpi/MPIBenchApp.java` | rank, `nodeThatCanStartWarmup` | `throttledSetup`, `nodeTestCycle`, broadcasts, barriers | ranks share only collectives; an exception must not skip one |
| `bench/MergedMapTestBench.java`, `MultiMergedMapTestBench.java` | which rank reads / writes which maps | `run` | block arithmetic; writers create topics before readers connect |
| `bench/latencyNodes/*` | latches, counters, latencies | `setup`, `run`, `shutdown`, `postProcessResults` of readers and writers | exact counting of asynchronous updates, timeouts |
| `bench/BatchTestBench.java`, `src/testrun-batch.sh` | restart file, counter of the shell | run the list of benchmarks, one JVM each | a job killed between two steps; only the root knows whether the pre-run script succeeded; an exception of one rank |
| `bench/mpi/BlockDistribution` | – | blocks, offsets, compaction of a gathered array | off-by-one between long and short blocks |
| `coll/coll_tuned_barrier.c`, `coll_tuned_bcast.c` | trees cached in the communicator | six barriers, six broadcasts, the decision between them | consecutive collectives share tags; a rank may be one collective ahead |
| `coll/coll_tuned_topo.c` | – | the trees | each rank computes its own parent and children |
| `ob1/` | sequence numbers, early, unexpected and posted queues per pair of ranks | send, receive, matching, rendezvous, progress | fragments overtake each other; numbers are 16 bits wide |
| `bench/MapSetBenchmark`, `LatencyBench`, `ChurnBench` | watchers | single-process benchmarks | counting watchers |
| `bench/StatUtils`, `bench/storage/*` | – | statistics; wrappers over MidoNet jars | – |

Interactions. The application calls `putOpinion` / `removeOpinion`, which push
on the bus's output subject; the producer appends to the topic of the map; every
participant's consumer thread reads the topic and pushes on the bus's input
subject; the map observes it on the executor (`MergedMap.executor`, one thread
shared by all maps of a process) and emits winners to its subscribers. In the
benchmark every MPI rank is a process with its own buses and maps; ranks meet at
barriers, and the root broadcasts a name, random addresses and the turns of
`throttledSetup`. `MPIBenchApp` maps both to `MPI_Barrier` and `MPI_Bcast`; those
pick an algorithm by the size of communicator and message, and its messages go
through ob1. The shell restarts the whole job for the next entry of a batch.

What makes the components correct: the map exposes the result of conflict
resolution and its subscribers can rebuild it; replicas that read the topic
agree, whatever compaction removed; topics are created once; the phases of a
benchmark are separated on all ranks and every rank gets to the end; the
latencies recorded are those of the benchmark's writes; a barrier lets nobody
through before all have come and a broadcast delivers the root's data, whichever
algorithm runs and however messages overtake each other; a batch skips no run
silently.

`PROJECT.json` lists every component and, under `hazards`, every place where
this can go wrong in a way that tests hardly reach.

## 2. Modules

| Module | Models | Uses |
|---|---|---|
| `MergedMapOps` | values, opinions, conflict resolution (`winningPair`), what a handler does to the cache; assumptions on the constants | – |
| `OpinionMap` | abstract specification: opinions change one at a time and the exposed map is what conflict resolution makes of them | `MergedMapOps` |
| `MergedMap` | one replica, at the granularity other threads see | `MergedMapOps`, instance of `OpinionMap` |
| `KafkaBus` | the buses of all participants, the topic, compaction, committed offsets, crashes | `MergedMapOps` |
| `MergedMapCluster` | composition: every participant's bus with its replica | `KafkaBus` |
| `NodeAssignment` | the arithmetic that gives ranks their parts | – |
| `TestBench` | one benchmark on every rank: `run`, `throttledSetup`, `nodeTestCycle` | `NodeAssignment` |
| `LatencyNodes` | one writer and one reader of either benchmark and the bus between them | – |
| `BatchBench` | the batch: shell loop, restart file, ranks of a job | – |
| `ArpEntry` | ordering and codec of `ArpMergedMap` | – |
| `BlockDistribution` | the block distribution and a reference definition | – |
| `Topology` | the trees of the collectives and what a tree is | – |
| `TunedColl` | the algorithms, as programs of one rank | `Topology` |
| `Pml` | ob1: numbering, reordering, matching, rendezvous | – |
| `CollectivePromise` | abstract specification: what a barrier and a broadcast promise | – |
| `Collectives` | composition: the programs of `TunedColl` over `Pml` | `Pml`, `TunedColl`, instance of `CollectivePromise` |
| `MC*` | instances for TLC; `MCArithmetic` gathers the pure parts | |
| `WinnerTheorems`, `MergedMapProofs` | proofs about one replica | `MergedMap` |
| `ClusterProofs` | proofs about the participants and the bus | `MergedMapCluster`, `WinnerTheorems` |
| `TopologyProofs` | proofs about the trees; powers, recursion and induction for the provers | `Topology` |
| `TestBenchProofs` | proofs about the pure parts (assignment, blocks, ARP ordering and codec, the cases of `MCArithmetic`) and about the test cycle that rests on the assignment | `TestBench`, `MCArithmetic`, `TopologyProofs` |
| `LatencyNodesProofs` | proofs about readers and writers | `LatencyNodes` |
| `BatchBenchProofs` | proofs about the batch | `BatchBench` |
| `CollectivesProofs` | proofs about messages, for any program; about the programs of the algorithms; about the collectives | `Collectives`, `TopologyProofs` |

A definition whose name ends in `_Mutant` is a plausible bug in the definition
that follows it. It is not part of any specification: the project replaces the
definition by it to show that a property would notice that bug.

### MergedMap

`cache`, `entryCount` and `winners` are the fields of the class. The executor is
the variable `task`: a handler does everything that no other thread can observe
in its first step (the cache is private to the executor; `entryCount` is written
once per handler), then `updateWinners`, then `emitWinner`; nothing else starts
in between. A subscriber goes from `unsubscribed` to `requested` (`subscribe`,
any thread), to `joining` (`onSubscribe.call` has emitted the winners) to
`subscribed`; `view` is the map it rebuilds. `completed` is set by `onError` or
`onCompleted` of the bus.

`crStrategy` is an arbitrary `Ordering` (total preorder, ties allowed) and
`iterationRank` the order in which a `HashMap` is iterated, which decides ties in
`maxBy`. It is a fixed order of the owners: Scala's `HashMap` takes the bucket
from the high bits of the hash, so the relative order of two owners survives a
resize; owners that share a bucket would follow the order of insertion, which is
not modelled. `MonotoneKeys` are the keys on which an owner does not replace its
opinion by a lower one (`Monotone` says so of all keys in the cluster). The timed writes of the benchmark satisfy it, because a value carries the
time it was written, while they are less than 36 minutes apart. The writes of the warm-up
carry time 0 (`ArpMergedMapTest.java:112`), and against a time in microseconds since
1970 the difference, cut to an `Int`, may have either sign: there the benchmark's
writers need not be monotone. It does not matter to the benchmark, in which every map
has one owner: the winner is then the owner's only opinion.

### KafkaBus and MergedMapCluster

One variable per thing that lives outside or between threads: the topic and its
log, committed offsets, how far each bus has come in its constructor or shutdown,
the position of its consumer, the messages its producer has accepted (`sending`),
and those on their way to the executor (`inbox`). A replica's handler is one
step here; `MergedMap` shows that splitting it changes nothing that settles.
`consume` drops a message while the map has not subscribed, as a
`PublishSubject` does. `onNext` with a serializer that cannot encode `null`
closes the bus, as `producerObserver.onError` does. Between `producer.close()`
and `consumer.shutdown()` the consumer still reads.

Kafka is external: one partition in order, compaction may remove any message
that a later one with the same message key (key and owner) supersedes, a group's
consumer starts at its committed offset or else at the beginning, the offset is
committed now and then and at shutdown, and a send may fail without a trace but
in the callback. `intent`, `clock` and `joined` are history variables.

`Barriered` states how the benchmark starts its participants (the writer opens
the map before the readers, nobody publishes before all have opened it, nobody
shuts down before the last write); `TestBench` shows that it really does so.
With `Barriered = FALSE` participants come and go as they like.

### NodeAssignment and TestBench

A configuration is a record. `"single"` is `MergedMapTestBench` (groups of a
writer followed by its readers), `"multi"` is `MultiMergedMapTestBench` (blocks
of maps per writer and per reader). `throws` says which methods of a `TestNode`
may throw in this job.

In `TestBench`, `pc` is where a rank is, and going to a barrier label is calling
`barrier`. MPI is external: a barrier lets a rank go when every rank has called
as many barriers, *wherever those calls are in the program*, which is what makes
a missed barrier dangerous; a broadcast does not wait for its receivers, and the
n-th call of a receiver takes the n-th value of the root (`Collectives` shows
that Open MPI keeps to that when the calls of the ranks correspond). Barriers and
broadcasts that do not correspond on all ranks (finding 4) are an error to the MPI standard,
which leaves the outcome open; the model then matches each kind of call by itself,
the reading most favourable to the program. `createTopicIfNeeded`
is split into check and creation. The nodes' methods are abstracted: a writer's
`setup` and `run` write its maps' entries, a reader's wait for them;
`ReaderNode` gives up after its timeouts, `MultiMapReaderNode` never does, so that
one whose writer's `run` threw waits for ever (`Abandoned`).
`MPIException` is left out. Jobs in which `setup` throws are part of the run: what
depends on matched barriers is stated under `SetupsSucceed`, what does not
(`SetupsOneByOne`, `CreatedByWriter`) without it.

### LatencyNodes

One writer, one reader and a map (or several) between them, after `TestBench` has
put them in order. `sent` numbers the writes of a map, the bus carries numbers,
and `latencies` keeps the number of the write that each recorded latency belongs
to: that is what lets a property say that the reader measured the right one. In
`"single"` jobs the reader counts events itself (`readOffset`, which moves on even
when the wait times out); in `"multi"` jobs an observer per map counts for it,
records a latency per update after the warm-up, and dies of an
`ArrayIndexOutOfBoundsException` on an update too many. A timeout may come
whenever no event is there: time is not modelled. The bus is external; it may lose
or double an update (`MaxFaults`).

`writesPerInterval` is rounded as in the code. At 400 writes per second and an
interval of a millisecond it is 0, and the writer never ends: `NodesEnd` names
that case. (The comment at `WriterNode.java:34` calls the interval nanoseconds;
the code uses microseconds.)

### BatchBench

The shell starts a job with a counter, waits, and looks for the file. A job is a
`pc` per rank: constructor (which looks at the counter), pre-run script at the
root and its broadcast, benchmark, restart file at the root, barrier, exit. A run
of the configuration is a `"bench"`, or there is `"none"`: an unknown type, too few
nodes or missing keys, with which every rank goes on and nothing is run. Of the
benchmark only the barriers are left: `BenchBarriers` of them, and an exception that
leaves `bench.run()` (caught in `main`, line 235) or `node.setup()` (caught in
`nodeTestCycle`) at any of them makes the rank miss some or all of the rest. As in
`TestBench`, a barrier lets a rank go when everybody has called as many of them,
wherever; so the barrier before the exit may meet one of the benchmark, and a rank
may exit while others are still in it. The script's configuration may throw at the
root before the broadcast, which leaves the others waiting for it.

`mpirun` may return when a rank has exited. `MPI.Finalize` also waits for the other
ranks in Open MPI; the MPI standard does not ask for it and the comment at line
244 does not rely on it, so the model does not either. `Kill` ends the job anywhere;
the file may be left over from an earlier batch; creating it may fail. Not modelled:
an exception of the constructor, and `file.delete()` failing silently. The
constructor's broadcast of the run's number is a wait for the root only: the code
looks the run up by its own parameter. `executed`, `refused`, `thrown`, `killed` and
`createFailed` are history variables.

### Topology, TunedColl, Pml, Collectives

A program is a sequence of phases (post at most one receive, send to different
ranks, wait). That is the shape of every algorithm: a blocking call is a phase
that waits for its own request, and `wait_all` one that waits for several. The
algorithms are functions of the size, the rank and the tree; the data are kept as
the list of buffer elements that a message holds, which is what segments and
halves are about. `bcast_dec_fixed` is the decision for messages below 370728
bytes: the benchmarks broadcast single integers (binomial tree) and sets of
addresses of up to some 40 KB (`ArpMergedMapTest.distributeRandomIPSet`, split
binary tree). The trees are cached per communicator and rebuilt for another root.

`Pml` has the queues of ob1 per pair of ranks. `net` is a set: the fragments of a
pair may travel over several interfaces and arrive in any order. `nr` is the
number a fragment would have if numbers were unbounded (history); `seq` is what
the header carries, cut to `SeqModulus` (2^16 in the code). `Arrive` is the
callback of a first fragment, `MatchEarly` one round of the `out_of_order_match`
loop: nothing else of that rank runs in between, but a rank that is inside it has
not returned from its wait. `Post` is what a rank does between two waits. Short
messages are complete when sent, synchronous ones when acknowledged, long ones
(`rndv_long`) only announce their data, which follow the acknowledgement; a job
is run with all data short or all long, so that an algorithm which only works
with buffering would hang.

`Collectives` lets ranks run a script of calls. `UpdateTopo` is the cache.
The transports, request freeing, RDMA, buffered sends and threads are left out.

A segment size is in bytes, as the calls have it: `Segcount` rounds it to a count of
elements, and the split broadcast pushes it up to hold one (`Raised`) and cuts it.

The comments of `coll_tuned_barrier.c` 107–117, 190–192 and 268–270 speak of
synchronous sends where `sendrecv_zero` uses standard ones. In the model the barriers
keep their promise all the same; the comment's concern, that a rank leaves the barrier
before its last message is on its way, is one about the transport, which is left out.
A broadcast of no elements may return before the root calls it, as MPI allows.

### ArpEntry, BlockDistribution

Pure. `asInt` is the conversion of a `Long` to an `Int`, with `IntHalf` for 2^31.
The text of a message is the sequence of pieces between dashes; what a piece reads
is left out, but for whether it is empty, because `split` drops empty pieces at the
end. A negative time (`MPIBenchApp.getTime` answers one on an exception) brings a
dash of its own, and the name of an owner is itself a sequence of pieces.

## 3. Runs

| Run | Instance | Question |
|---|---|---|
| `map` | 2 keys, of which owners are monotone on one and publish anything on the other, 2 owners, 3 values of which 2 tie, 2 subscribers | Are `size`, the exposed keys, and every subscriber's view right at every moment? Does the monotone key expose exactly the result of conflict resolution, and does the replica implement `OpinionMap` on it? |
| `map_stale_winner` | same, 1 subscriber, owners publish anything on both | *violation*: an owner that lowers its own winning opinion leaves a stale winner |
| `cluster` | 2 participants, 1 key, 2 values, 3 messages, 1 lost send, 1 shutdown, compaction, benchmark start-up; fairness | Do replicas at the end of the topic hold the latest opinions and what was asked for, and do they settle for good on the same winners? |
| `cluster_late` | 2 participants that start at any time, 1 message | *violation*: a map opened on a topic in use misses messages published before it subscribed |
| `cluster_restart` | 2 participants that start at any time, 3 messages, 1 crash, 1 commit | What exactly does a replica know after a restart or a late subscription, and does it expose the winners among that? Can an opinion go back? |
| `cluster_arp_remove` | encoder that fails on `null` | *violation*: a removal is never published |
| `bench` | 10 configurations of 2 to 4 ranks, both benchmarks, dummies, one job too small, two whose `setup` may throw; in both benchmarks `run` and `shutdown` may throw; fairness | Are topics created by their writers and setups one at a time, whatever fails; and while no setup fails, are barriers matched, runs after setups, buses open during runs, and does every rank finish unless a reader waits for a writer whose `run` threw? |
| `bench_stuck` | the two whose `setup` may throw; fairness | *violation*: a `setup` that throws leaves the other ranks waiting for ever |
| `arithmetic` | every assignment up to 7 ranks, 5 maps, 3 per node; every tree up to 17 ranks, any root, fanout up to 4; up to 12 items on 5 processes; spans of times; owners with dashes anywhere in their names | Do the parts of the ranks, the trees, the blocks and the entries fit together? |
| `mpi` | 1 to 4 ranks; every algorithm twice in a row, broadcasts from different roots, in two or three segments or two halves, followed by a barrier; segments that are no multiple of an element, or smaller than one; short and long data; numbers modulo 4; fairness | Does each collective keep its promise (refinement of `CollectivePromise`), are fragments matched in order, is none stranded or left over, and does every rank return? |
| `latency` | both kinds of reader, up to 2 maps, 2 or 3 writes after 1 or 2 of warm-up, rates of 0, 1 and 2 writes per interval, 2 lost or doubled updates, 2 timeouts; fairness | Do the latencies belong to the benchmark's writes, up to the timeouts and faults there were, and do both nodes end? |
| `batch` | 3 ranks, 0 to 2 runs with a benchmark of 3 barriers or nothing to be run, exceptions of ranks, 2 kills, left-over file, failing script, failing creation; fairness of the batch itself | Is no run skipped without a reason, is the file right, and does the batch end when and where it should, unless a job hangs? |

Bounds. Two owners with two opinions on a key are enough for a winner, a loser, a
tie and a change of winner; the second key shows that keys do not interfere.
Three messages let one be superseded and compacted while a third interferes. A
single crash with a single commit before it already gives every relation between
committed offset, position and end of the topic. Numbers modulo 4 wrap within two
collectives, so the wrap-around of ob1's 16 bits happens in the runs; two
collectives in a row are enough for a rank to be one ahead, and it cannot be two
ahead of a rank it waits for. Three and four ranks take the branches for sizes
that are, and are not, powers of two; three segments are one more than there are
requests for them. The trees are checked alone up to 17 ranks, past the fourth
power of two. Two kills let one hit the first job and one a later job. A benchmark of
three barriers is enough for a rank to miss the last, some or all of them after an
exception. Symmetry is used for the
subscribers in `map` (safety only); owners are not symmetric because ties depend on
them, and keys because owners are monotone on one only. All bounds are constants (`MaxMessages`, `MaxCrashes`,
`MaxCommits`, `MaxShutdowns`, `MaxLost`, `MaxTreeSize`, `MaxRanks`, `MaxMaps`,
`MaxPerNode`, `MaxFanout`, `MaxItems`, `MaxProcs`, `MaxTime`, `MaxExceptions`,
`MaxFaults`, `BenchBarriers`, `MaxRuns`, `MaxKills`) or parts of the configurations.

Deadlock is not checked where the program really may stop: a bounded number of
messages, a completed map, a finished benchmark, script or batch. For the
benchmark, the collectives, the nodes and the batch `SoundJobsFinish`,
`AllReturn`, `NodesEnd` and `BatchEnds` take its place, which are stronger.

Fairness. In the cluster, weak fairness of the constructor's steps, of the
consumer thread, of the producer's I/O, of the closing of a bus and of the
executor: each is a thread with work to do and nothing that blocks it. There is
no fairness for publishing, compaction, commits, failures or crashes. In the
benchmark, weak fairness of each rank: a process runs whenever the barrier,
latch or sleep it is in lets it. In the collectives, weak fairness of the next-state
relation is enough: a rank that waits polls, and what is sent arrives (ob1 hands
fragments to a reliable transport). For the nodes, weak fairness of writer, reader
and delivery. In the batch, weak fairness of what the batch itself does: the ranks
outside the benchmark, the script, the shell, and the end of `mpirun` once all ranks
have exited. There is none for the benchmark, which `bench_stuck`, `SoundJobsFinish`
and `NodesEnd` show need not end, nor for kills: `BatchEnds` says that the batch stops
or one of its jobs hangs for ever, in the benchmark or after an exception.

### Findings

1. `MergedMap.scala:176`. `winners` is only updated when the new opinion wins. If
   the owner of the winning opinion publishes a lower value, the map keeps
   exposing a value that nobody holds. With monotone owners this cannot happen
   (proved), and in any case no live opinion exceeds the exposed value (proved).
2. `KafkaBus.scala:129`. The comment at 190–191 says that the consumer can read all
   messages of the topic, also those published before it subscribed. It reads them,
   but its thread is started by the constructor of the bus and the map subscribes to
   the bus afterwards: what is read in between goes to a subject without subscribers.
   A map opened on a topic in use misses opinions (`cluster_late`). The benchmark's
   barriers let nobody publish before all maps are open (`ReadsAllMessages` in
   `cluster`).
3. `ArpMergedMap.scala:81`. `removeOpinion` cannot be encoded: the bus closes and
   the removal is lost.
4. `TestBench.java:83`. The comment at 115–116 says that all exceptions need to
   be caught so that no node misses a barrier; one thrown by `setup` is caught
   outside the loop and its node misses the loop's remaining barriers.

Worth knowing, and stated by properties that hold:

- `KafkaBus.scala:129`, `:189`. Without the barriers, and after a restart, which
  resumes at the offset committed under the owner's name, a replica holds exactly the
  opinions published since it joined (`HoldsSinceJoined`). This is what the code does,
  and less than the comment of finding 2 says.
- `MultiMapReaderNode.java:91`. The reader waits without a timeout for an exact number
  of updates. A lost send (`NodesEnd`), or a writer whose `run` throws
  (`SoundJobsFinish`), leaves it waiting for ever, and the other ranks at the barrier
  after the run; the properties say that nothing else does. A `WriterNode` whose
  interval is too short for a write never ends (`WriterNode.java:67`).
- `ArpMergedMapTest.java:92`. A read that times out still moves on, so that from then
  on each latency is of a later write than its place says: by as many as there were
  timeouts and no more (`MeasuresTheRun`).
- `ArpMergedMap.scala:94`. The name of an owner comes back cut at its first dash; a
  message with a negative time or an empty owner cannot be decoded. No message is ever
  taken for one with another address or time (`MessagesReadBack`).
- `BatchTestBench.java:235`, `:240`. The batch goes on after a run of an unknown type,
  with too few nodes or with an exception, and does not repeat it; nor a killed one.
  If only some of the ranks met the exception, the job may hang, or ranks may exit and
  the job end with the file of the run before (`Accounted`, `FileIsRight`, `BatchEnds`).
- `BatchTestBench.java:244`. The barrier orders the change of the file before the exit
  as long as no exception has made a rank miss a barrier. A batch whose very first job
  is killed, or lost a rank to an exception, may end there; after a later job it goes
  on (`EndsEarlyOnlyAtFirst`).
- `pml_ob1_isend.c:142`. Nothing bounds how many short messages of a pair are on
  their way; beyond 2^16 their numbers would be ambiguous. `Window` is the
  assumption under which order is proved, and the runs stay within it. A barrier in
  each turn keeps the benchmark far below it.
- `ArpMergedMap.scala:24`. The ordering is one exactly as long as no two entries of
  a map are 2^31 microseconds (36 minutes) apart.

## 4. Proofs

All theorems hold for every value of the constants that satisfies the named
assumptions; TLC evaluates those on every run.

**One replica** (`MergedMapProofs`, on `WinnerTheorems`). Assumptions: keys and
owners are finite, `Null` is neither an owner nor a value, `crStrategy` is an
ordering, iteration visits owners in some strict order.

- `WinningPairIsMaximal`: the winning pair exists, is one of the opinions, and
  none is greater (with the rest of `WinnerTheorems`: what adding and removing
  an opinion does to it).
- `TypeCorrect`, `ExposedCorrect`, `NeverBeaten`, `SubscribersCorrect`,
  `SizeCorrect`, from the inductive invariant `IInv`. It adds to the properties
  that `entryCount` is the number of keys with an opinion (without it neither
  `size >= 0` nor the tolerance of one is inductive) and that an observer is
  between snapshot and stream only while the executor is in its `onSubscribe`
  (without it a winner could be emitted in the gap). The exposed map is compared
  with the cache through `SettledWinners`, the winners as they will be when the
  handler in progress has done its update.
- On the keys of `MonotoneKeys`, whatever happens on others: `MonotoneKeysCorrect`,
  `AdditionRaises` and `Implementation` (the replica implements `OpinionMap`), from
  `SettledAreWinning`, that `SettledWinners` is resolved on these keys. If they are
  all keys, `winners` is the map its comment promises (`WinnersCorrect`).

**The cluster** (`ClusterProofs`). For any keys, owners, values and ordering, and
any number of messages, compactions, lost sends, commits, shutdowns and crashes;
`CompactedAssumption` says that what compaction leaves behind is no message.

- `InboxCorrect` is the inductive invariant of the bus. For an owner and a key
  of which the consumer of a replica has no message ahead of it, the messages in
  the inbox lead from the opinion the replica holds to the latest one published
  since it joined (`InboxLeadsToTopic`). Stating it with the restriction "no
  message ahead" is what makes it inductive: compaction can then only remove
  messages that a later one, still ahead, supersedes. The rest is `BaseInv`: types,
  offsets within the topic, nothing given to a map before it subscribes, producers
  send their own owner's opinions.
- `HoldsTopicSinceJoined` follows from it without any assumption on how the
  processes start, stop or fail. `ReadsWholeTopic` assumes `Barriered` and
  `MaxCrashes = 0`; it adds that nobody publishes before all have joined
  (`AllJoinAtStart`), so that everybody joined at offset 0.
- `LastWordReachesReplicas` assumes `Barriered` and `CanEncodeNull` (finding 3
  shows that the latter is needed) and adds the sending side: until a send fails
  or a process dies, the topic followed by the producer's queue ends with what the
  application last asked for (`SendingLeadsToIntent`).
- `ReplicasAlwaysResolve` and `OpinionsNeverGoBack` assume `Monotone`, and nothing
  else: participants come and go as they like. The invariant `MonotoneInv` follows
  an owner's values from its clock through its producer's queue, the topic and the
  inbox to the cache, and says that each is not behind the next (`OrderedInTopic`,
  `OrderedAtReplica`); then an addition never lowers an owner's opinion and the
  handler's comparison with the winner is enough (as in `MergedMapProofs`).
- `ReplicasAgree` puts both together: with barriers, monotone owners and no process
  killed, two replicas at the end of the topic expose the same winners. That they
  get there is the liveness half, `EventuallyAgree`, and model-checked.

The run `cluster` is an instance of the assumptions with `Barriered` and without
crashes, `cluster_restart` of those with crashes.

**Pure parts** (`TestBenchProofs`, first half), each for every input and, as a theorem
about the specification the run `arithmetic` explores, for every bound of that run
(`BoundsAssumption`: the bounds are natural numbers).

- The assignment: `OneWriter`, `WorkForEveryone`, `WritersComeFirst`, from division
  with remainder, and `EveryMapIsServed`, which also counts the readers of a map (the
  ranks of a group after its first, or one rank); hence `MapsAlwaysServed` and
  `WritersAlwaysPrecede`.
- The blocks: `BlocksAlwaysTile`, hence `BlocksAlwaysFit`. `compactGlobalArray` copies
  block after block; what that fold has built after each process is shown equal
  to a closed form by looking at the least process where it would differ.
- The ARP ordering: `ArpOrderingSound` shows that entries less than 2^31
  microseconds apart satisfy what the proofs about a replica assume of
  `crStrategy`, `ArpOrderingTight` that two entries 2^31 apart do not; hence
  `TimesAlwaysOrdered`. The codec: `CodecReadsBack` says what comes back of a message
  for every time and every sequence of pieces in its owner's name, hence
  `MessagesAlwaysReadBack`.
- The trees: `TreesAlwaysSpan`, from the theorems of `TopologyProofs`.

**The trees** (`TopologyProofs`): `BmtreeSpans`, `LevelTreeSpans`, `InOrderBmtreeSpans`,
`ChainSpans`, `InOrderBintreeSpans`. A rank computes its own parent and children and
nobody else's; the theorems say that what the ranks compute fits together (each is
a child of its parent, once and of nobody else) and that everybody is reached from
the root, for every size and root, and every fanout the code accepts.

- A root other than 0 only renames ranks (`Shifting`, `ShiftedTree`). Then it is
  enough that parents come before their children and that the lists of children are
  the inverse of the parents: the way up from a rank is finite because the ranks on
  it decrease (`ParentsMakeTree`).
- The binomial trees: a parent is the rank without its highest bit (`BmParent`) or
  without its lowest (`IoParent`), and children are the ranks one such bit above
  (`BmChildren`, `IoChildren`). `build_tree` goes by levels, whose first ranks are sums
  of powers of the fanout (`NodesAbove`, `LevelOf`). A chain is a column of ranks, of
  which the first ones are longer by one where the fanout does not divide the rest
  (`Columns`, `ChainHeads`). The in-order binary tree has no closed form at hand; its
  walk splits a range of ranks into two smaller ones, and two trees with a new root
  over them are a tree (`JoinTrees`).
- Powers are what the recursion of `pown` defines (`Powers`, `PowersGrow`). Where one
  would use an induction scheme, a lemma on sets takes its place: a nonempty set of
  naturals has a least element (`LeastNatural`), and a recursion by steps has a
  solution (`IterationExists`, `StrongRecursion`).

**The test cycle** (`TestBenchProofs`, second half): `CycleTypeCorrect`, `OneCreator`,
`OneSetupAtATime`, `NoBarrierMissed`, `RunsAfterSetups`, `BusesStayOpen`, for any
number of ranks, both benchmarks and whatever `setup`, `run` and `shutdown` throw.
The last three are about jobs whose `setup` does not throw, as the properties
themselves say, because finding 4 shows that the others lose count of the barriers;
the invariant `IInv` holds in all. It rests on three ideas:

- `CallsCounted`: the number of barriers a rank has called is a function of its
  place and of the turn it has come to, also when its `setup` threw and it goes on
  from its own turn (`SetupThrowsKeeps`); with `LeftTogether` (a barrier one rank has left has been
  called by all) places of different ranks can be compared;
- `BroadcastsCounted`: so is the number of broadcasts it has made or taken, and
  the values sent for turns are 1, 2, 3 …; so each rank reads its own next turn;
- the rest is local to a rank (`Fits` in the proof): its turn fits its place, its
  maps are warm once its turn has passed, its buses are open until it shuts down,
  its topics exist once it is past the first barrier.

That a reader's `setup` finds its maps warm where none throws, and so does not time
out, follows from `WritersComeFirst` and the order of turns (`ReadersFindWarm`); that no
reader ever creates a topic follows from `OneWriter` and the first barrier
(`TopicsExist`).

**The batch** (`BatchBenchProofs`): `BatchTypeCorrect`, `PreRunDecides`,
`RestartFileCorrect`, `RunsAccountedFor`, `EarlyEndOnlyAtFirst`, for any finite set
of ranks, any number of runs, of kills and of barriers in a benchmark, and with
exceptions anywhere. The invariant says where a rank may be given the counter and the
script's result (`RankFits`), how often a rank at its place has called `barrier`
(`CallsFit`: at most so often, and exactly so if nothing was thrown, from which it
follows that a rank that has left the last barrier leaves nobody behind in the
benchmark), that every run the counter has passed is explained (`History`), and when
the file exists (`File`: after the first job, always, until a job finds no run left).
`KillsBounded` bounds the counter, which only kills can push beyond the last run.

**The nodes** (`LatencyNodesProofs`): `LatenciesAreOfTheRun`, `ObserversFailLate`, for
any number of maps, writes, timeouts and faults of the bus (`ConfigsAssumption` gives
the fields of a configuration their types; a `"single"` job has one map). The updates
of a map are numbered as they come, those the reader has seen and those still on the
bus together (`Came`, `Update`). There are as many as writes, up to those lost and
doubled (`Accounts`), and the i-th is of the i-th write, up to the same (`InOrder`). The
writer's counters bound what it has sent to each map, in the middle of a round over
the maps too (`WriterFits`); without that a correct writer could already make an
observer fail. A reader of one map is at warm-up plus reads plus timeouts
(`ReaderFits`); an observer has filled its array as far as it has counted, and is done
when that is full (`ObserverFits`). So the k-th latency is of the k-th write of the
run, up to what was doubled on one side, lost or timed out on the other, and not of a
later write than any update still to be taken (`Recorded`), which is what keeps the
latencies in order.

**Messages** (`CollectivesProofs`, first half): for any set of ranks, any width of the
numbers and any program on top, `EarlyFragmentsHandedOn` (an early fragment whose turn has come is
never left lying) and, as long as no more than `SeqModulus` fragments of a pair
are outstanding (`Window`), `FragmentsInOrder`. The invariant `AllNumbered` says of
every pair that each number after the last one handed to matching, up to the last
one given, belongs to exactly one fragment, in flight or kept, whose header holds
that number modulo `SeqModulus`, and that the expected number is the next one
modulo `SeqModulus`. Without the window the match of a header says nothing about
the number; `ModUnique` is where the window is used.

**The collectives** (second half): `CollectivesTypeCorrect` shows that ranks take the
calls of the script one by one and only run programs whose phases send to other
ranks of the communicator, to each at most once. It needs `CachedTreesFresh`: the
tree that a rank has kept for a root and fanout is the one it would build now, so
running on a cached tree is running on a fresh one. From there every step of
`Collectives` is a step of a program over `Pml`, which carries the two results
above over (`CollectivesStrandNone`, `CollectivesInOrder`).
That the programs have this form is `AlgorithmsWellFormed`, for every algorithm, size,
root, rank, size of elements and segments and kind of tree. It is where the trees matter: a rank
sends a segment to its children, which are different ranks and not the rank itself
because the tree spans (`BuiltPlaces`); partners in a round of doubling differ from the
rank in one bit (`FlipAnother`, `FlipStays`), and the ranks beyond the last power of two
only talk to the rank that many below. The one assumption on jobs left is
`ConfigsAssumption`: a call has a root in the communicator and numbers that are
natural.

**Only model-checked**, and why:

- `EventuallyAgree`, `SoundJobsFinish`, `AllReturn`, `NodesEnd`, `BatchEnds`:
  liveness under fairness is out of the prover's reach.
- `KeepsPromise` and `NothingLeft`: they depend on which message of an algorithm
  answers which receive. What is proved about one rank's program
  (`AlgorithmsWellFormed`) and about the trees is the part of it that looks at one
  side; the rest counts, for each algorithm and each pair of ranks, the sends of
  one against the receives of the other, tag by tag and with receives from anyone.
- `Window` of the collectives: it bounds how far a rank may run ahead, which is
  again a matter of which receives wait for which sends.
- The violations.

## 5. What is not modelled

- MPI failures (`MPIException`, error returns) and the collectives the benchmarks
  do not use (reduce, gather, allgather); ranks that make different calls.
- Open MPI beyond ob1's matching and the two collectives: launching, transports,
  datatypes, RDMA and CUDA protocols, resource shortage, threads,
  intercommunicators, the broadcast decision above 370728 bytes (floating point),
  decisions from a file, all other components. `build_tree` with a fanout of 1
  divides by zero; it is called with 2 and checked from 2 on.
- The end of the consumer thread on a message it cannot decode; backpressure
  buffers at their limit; replication inside Kafka; ZooKeeper sessions.
- `getByValue`, a filter over `winners` like `snapshot`.
- `MapSetBenchmark`, `LatencyBench`, `ChurnBench` and the storage wrappers: what
  they drive is in jars that are not part of the repository.
- `StatUtils` and `postProcessResults` (floating point), `Bookkeeper` (file output),
  configuration parsing, plotting.

## 6. Plan

1. *(done)* `MergedMapOps`, `MergedMap`, `OpinionMap`, with proofs.
2. *(done)* `KafkaBus`, `MergedMapCluster`.
3. *(done)* `NodeAssignment`, `TestBench`, with proofs.
4. *(done)* `ArpEntry`, `LatencyNodes`, `BatchBench`, `BlockDistribution`, with proofs
   about the ARP ordering and the batch.
5. *(done)* `Topology`, `TunedColl`, `Pml`, `Collectives` against `CollectivePromise`,
   with proofs about the order of messages.
6. *(done)* Proofs about the cluster, the nodes, the pure parts and the type of the
   collectives.
7. *(done)* The test cycle without the assumption that no `setup` throws.
8. *(done)* The trees for every size, and the form of every algorithm's programs in
   place of an assumption on them.
9. What is left: a count of sends against receives for each algorithm, from which
   `NothingLeft`, `Window` and then `KeepsPromise` would follow for every size.
