---------------------------- MODULE MCTestBench ----------------------------
(* Instances of TestBench for TLC: small jobs of both benchmarks, among    *)
(* them one with spare ranks (dummies) and one with too few ranks.         *)
EXTENDS TestBench

Single(size, maps, readers, throws) ==
    [kind |-> "single", size |-> size, numberOfMaps |-> maps,
     readersPerMap |-> readers, perWriter |-> 1, perReader |-> 1,
     throws |-> throws]

Multi(size, maps, perW, perR, throws) ==
    [kind |-> "multi", size |-> size, numberOfMaps |-> maps,
     readersPerMap |-> 0, perWriter |-> perW, perReader |-> perR,
     throws |-> throws]

MCMaxSize == 4

(* Jobs in which node.setup() does not throw, but run() or shutdown() may. *)
SoundConfigs ==
    {Single(3, 1, 2, {"run", "shutdown"}), Single(4, 2, 1, {"run"}),
     Single(4, 1, 2, {"shutdown"}), Single(2, 1, 3, {}),
     Multi(3, 3, 2, 3, {"run", "shutdown"}), Multi(4, 3, 3, 2, {"run"}),
     Multi(4, 2, 2, 1, {"shutdown"}), Multi(3, 3, 2, 2, {})}

(* Jobs in which node.setup() may throw.                                   *)
FailingConfigs ==
    {Single(3, 1, 2, {"setup"}), Multi(4, 3, 3, 2, {"setup", "shutdown"})}

AllConfigs == SoundConfigs \cup FailingConfigs
=============================================================================
