----------------------------- MODULE Collectives -----------------------------
(* The ranks of a communicator run a script of barriers and broadcasts:    *)
(* the programs of TunedColl on top of the messages of Pml.                *)
(*                                                                         *)
(* The job, config, is chosen at the start: the size of the communicator,  *)
(* the script, and whether data are too long for one fragment.  All ranks  *)
(* make the same calls in the same order, as MPI asks of its users.        *)
EXTENDS Pml, TunedColl

CONSTANT Configs   \* the jobs that are looked at

BarrierAlgs == {"basic_linear", "doublering", "recursivedoubling", "bruck",
                "two_procs", "tree"}
BcastAlgs == {"basic_linear", "chain", "pipeline", "bintree", "split_bintree",
              "binomial"}

(* A call of MPI_Barrier or MPI_Bcast, with the algorithm that is forced,  *)
(* or "fixed".                                                             *)
IsCall(c, size) ==
    \/ /\ {"op", "alg"} \subseteq DOMAIN c
       /\ c.op = "barrier" /\ c.alg \in BarrierAlgs \cup {"fixed"}
    \/ /\ {"op", "alg", "root", "count", "segsize", "chains", "bytes"} \subseteq DOMAIN c
       /\ c.op = "bcast" /\ c.alg \in BcastAlgs \cup {"fixed"}
       /\ c.root \in 0 .. size - 1
       /\ {c.count, c.segsize, c.chains} \subseteq Nat /\ c.bytes \in Nat \ {0}

ASSUME ConfigsAssumption ==
    \A job \in Configs :
        /\ job.size \in Nat /\ 0 .. job.size - 1 \subseteq Procs
        /\ job.script \in Seq(Elements(job.script))
        /\ \A c \in Elements(job.script) : IsCall(c, job.size)

Kinds == {"bintree", "bmtree", "pipeline", "chain"}
NoTopo == [root |-> -1, fanout |-> -1, tree |-> [prev |-> -1, next |-> <<>>]]

(* The place of rank r in a tree, as it is kept.                           *)
BuildTopo(size, t, r) ==
    [root |-> t.root, fanout |-> t.fanout,
     tree |-> CASE t.kind = "bintree" -> build_tree(2, size, t.root, r)
                [] t.kind = "bmtree" -> build_bmtree(size, t.root, r)
                [] OTHER -> build_chain(t.fanout, size, t.root, r)]

(* MPI_Barrier and MPI_Bcast: nothing to do for a single rank or no data.  *)
NothingToDo(c, size) == size <= 1 \/ (c.op = "bcast" /\ c.count = 0)

(* The algorithm that the fixed decision takes, unless one is forced.      *)
Decided(c, size) ==
    IF c.alg # "fixed" THEN c
    ELSE IF c.op = "barrier" THEN [c EXCEPT !.alg = barrier_dec_fixed(size)]
    ELSE LET d == bcast_dec_fixed(c.count, c.bytes)
         IN  [c EXCEPT !.alg = d.alg, !.segsize = d.segsize]

(* The trees that a call brings up to date.                                *)
ToposOf(c, size) ==
    IF c.op = "bcast" /\ ~NothingToDo(c, size) THEN Topos(c) ELSE <<>>

(* What rank r does in a call, with the tree that it uses.                 *)
ProgramOf(c, size, r, tree) ==
    IF NothingToDo(c, size) THEN <<>>
    ELSE IF c.op = "barrier" THEN barrier_do_this(c.alg, size, r)
    ELSE bcast_do_this(c, size, r, tree)

(* A phase of rank r sends to other ranks of the communicator, and to each *)
(* at most once.                                                           *)
GoodPhase(phase, size, r) ==
    /\ \A s \in phase.sends : s.dst \in (0 .. size - 1) \ {r}
    /\ \A s, t \in phase.sends : s.dst = t.dst => s = t

WellFormed(program, size, r) ==
    /\ program \in Seq(Elements(program))
    /\ \A phase \in Elements(program) : GoodPhase(phase, size, r)

VARIABLES
    config,    \* [size, script, long]
    calls,     \* [r]: collectives rank r has entered
    returns,   \* [r]: collectives rank r has returned from
    program,   \* [r]: the phases still to be done in the current one
    awaiting,  \* [r]: the requests r waits for
    cached     \* [r]: the trees r keeps from earlier calls, by their kind

rankVars == <<config, calls, returns, program, awaiting, cached>>
vars == <<pmlVars, rankVars>>

Ranks == 0 .. config.size - 1

DataOf(k) == [i \in 0 .. config.script[k].count - 1 |-> <<k, i>>]

Init ==
    /\ config \in Configs
    /\ PmlInit
    /\ buf = [r \in Procs |-> <<>>]
    /\ calls = [r \in Ranks |-> 0]
    /\ returns = [r \in Ranks |-> 0]
    /\ program = [r \in Ranks |-> <<>>]
    /\ awaiting = [r \in Ranks |-> {}]
    /\ cached = [r \in Ranks |-> [k \in Kinds |-> NoTopo]]

-----------------------------------------------------------------------------
(* COLL_TUNED_UPDATE_...: a cached tree is used again for the same root    *)
(* and fanout, and built anew for others.                                  *)
UpdateTopo_Mutant(cache, t, r) ==   \* mutant: used for every root
    IF cache.root >= 0 /\ cache.fanout = t.fanout THEN cache
    ELSE BuildTopo(config.size, t, r)

UpdateTopo(cache, t, r) ==
    IF cache.root = t.root /\ cache.fanout = t.fanout THEN cache
    ELSE BuildTopo(config.size, t, r)

(* The trees of rank r when those given are up to date (one of a kind).    *)
Kept(r, topos) ==
    [kind \in Kinds |->
        LET updated == {UpdateTopo(cached[r][kind], t, r) :
                           t \in {u \in Elements(topos) : u.kind = kind}}
        IN  IF updated = {} THEN cached[r][kind] ELSE CHOOSE topo \in updated : TRUE]

(* Rank r calls its next collective: the trees it needs are brought up to  *)
(* date, and its part of the algorithm is fixed.                           *)
Enter(r) ==
    LET k == calls[r] + 1
        c == Decided(config.script[k], config.size)
        topos == ToposOf(c, config.size)
        kept == Kept(r, topos)
        tree == IF topos = <<>> THEN NoTopo.tree ELSE kept[topos[Len(topos)].kind].tree
    IN  /\ calls[r] = returns[r]
        /\ calls[r] < Len(config.script)
        /\ calls' = [calls EXCEPT ![r] = k]
        /\ cached' = [cached EXCEPT ![r] = kept]
        /\ program' = [program EXCEPT ![r] = ProgramOf(c, config.size, r, tree)]
        /\ buf' = [buf EXCEPT ![r] =
              IF c.op = "barrier" THEN <<>>
              ELSE IF r = c.root THEN DataOf(k)
              ELSE [i \in 0 .. c.count - 1 |-> <<0, i>>]]
        /\ UNCHANGED <<orderVars, queueVars, ctl, pending, config, returns,
                       awaiting>>

Inside(r) == returns[r] < calls[r]
WaitOver(r) == awaiting[r] \cap pending[r] = {} /\ matching[r] = Nobody

(* The next phase: post, then wait.                                        *)
Step(r) ==
    /\ program[r] # <<>>
    /\ WaitOver(r)
    /\ LET phase == Head(program[r])
       IN  /\ Post(r, phase.recvs, phase.sends, config.long)
           /\ awaiting' = [awaiting EXCEPT ![r] = phase.wait]
    /\ program' = [program EXCEPT ![r] = Tail(@)]
    /\ UNCHANGED <<config, calls, returns, cached>>

Return(r) ==
    /\ Inside(r)
    /\ program[r] = <<>>
    /\ WaitOver(r)
    /\ returns' = [returns EXCEPT ![r] = @ + 1]
    /\ awaiting' = [awaiting EXCEPT ![r] = {}]
    /\ UNCHANGED <<pmlVars, config, calls, program, cached>>

(* ompi_request_wait_all: the progress loop runs while r waits.            *)
Waiting(r) ==
    /\ Inside(r)
    /\ awaiting[r] # {}
    /\ Progress(r)
    /\ UNCHANGED rankVars

AllReturned == \A r \in Ranks : returns[r] = Len(config.script)

Next == \E r \in Ranks : Enter(r) \/ Step(r) \/ Return(r) \/ Waiting(r)

(* As long as some rank can go on with its script or has something to      *)
(* poll, some rank does.                                                   *)
Spec == Init /\ [][Next]_vars /\ WF_vars(Next)

-----------------------------------------------------------------------------
TypeOK ==
    /\ \A r \in Ranks :
          /\ calls[r] \in 0 .. Len(config.script)
          /\ returns[r] \in {calls[r] - 1, calls[r]}
          /\ \A f \in net : f.dst \in Ranks \ {f.src} /\ f.seq \in 0 .. SeqModulus - 1
          /\ expected_sequence[r] \in [Procs -> 0 .. SeqModulus - 1]
          /\ matching[r] \in Ranks \cup {Nobody}
          /\ DOMAIN cached[r] = Kinds
          /\ WellFormed(program[r], config.size, r)

(* What a rank finds in its buffer once it has returned from a broadcast.  *)
Result ==
    [r \in Ranks |->
        IF Inside(r) \/ calls[r] = 0 \/ config.script[calls[r]].op = "barrier"
        THEN <<>> ELSE buf[r]]

Promise == INSTANCE CollectivePromise WITH result <- Result

(* Whatever algorithms the decision picks, and whatever way the messages   *)
(* of one collective run into the next, a rank returns from a barrier only *)
(* after all have called it, and from a broadcast only with all of the     *)
(* root's data.                                                            *)
KeepsPromise == Promise!Spec

(* When all ranks are through, every message has found a receive and every *)
(* receive a message: nothing is left over for a later collective, which   *)
(* uses the same tags.                                                     *)
NothingLeft ==
    AllReturned =>
        /\ net = {} /\ ctl = {}
        /\ \A r \in Ranks :
              /\ pending[r] = {} /\ wild_receives[r] = <<>>
              /\ \A s \in Ranks : /\ specific_receives[r][s] = <<>>
                                  /\ unexpected_frags[r][s] = <<>>
                                  /\ frags_cant_match[r][s] = <<>>

(* All ranks get through the script: no algorithm waits in a circle, not   *)
(* even when a standard send waits for its receive (rendezvous).           *)
AllReturn == <>AllReturned
=============================================================================
