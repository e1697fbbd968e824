---------------------------- MODULE MCBatchBench ----------------------------
(* Three ranks, up to two runs, two of the jobs killed, benchmarks of      *)
(* three barriers.                                                         *)
EXTENDS BatchBench
=============================================================================
