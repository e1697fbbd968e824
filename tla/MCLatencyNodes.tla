--------------------------- MODULE MCLatencyNodes ---------------------------
(* Small benchmarks for TLC.  Rates are in writes per second, intervals in *)
(* microseconds: 2000 per second in a millisecond are 2 writes.            *)
EXTENDS LatencyNodes

Bench(kind, maps, table, warmup, writes, rate) ==
    [kind |-> kind, maps |-> maps, table |-> table, warmup |-> warmup,
     writes |-> writes, rate |-> rate, interval |-> 1000]

AllConfigs ==
    {Bench("single", 1, 1, w, n, rate) :
        w \in {0, 1}, n \in {2, 3}, rate \in {400, 1000, 2000}}
    \cup {Bench("multi", maps, 1, w, 2, 1000) : maps \in {1, 2}, w \in {0, 1}}
=============================================================================
