---------------------------- MODULE LatencyNodes ----------------------------
(* A writer and a reader of the latency benchmarks: how the reader counts  *)
(* the updates of a map to tell the warm-up from the benchmark, and which  *)
(* write each latency it records belongs to.                               *)
(*                                                                         *)
(* In MergedMapTestBench (kind "single") the reader asks an observer for   *)
(* the next event, with a timeout; in MultiMergedMapTestBench ("multi") an *)
(* observer per map counts for it.  Writes are named by their number, from *)
(* 1 in every map.  Between the two lies the bus of the map: it may lose a *)
(* write (a rejected send) or deliver one twice (a repeated send).  That   *)
(* setups come one after the other, the writer's first, and before the     *)
(* runs, is what TestBench shows.                                          *)
EXTENDS Integers, Sequences, FiniteSets

CONSTANTS
    Configs,        \* the benchmarks that are looked at
    MaxExceptions,  \* timeouts after which ReaderNode.run gives up (20)
    MaxFaults       \* bound: writes that are lost or doubled

ASSUME BoundsAssumption == MaxExceptions \in Nat /\ MaxFaults \in Nat

(* The table has an entry (distributeIpSet looks at the first), and the    *)
(* readers and writers of MergedMapTestBench have one map.                 *)
ASSUME ConfigsAssumption ==
    \A c \in Configs :
        /\ c \in [kind: {"single", "multi"}, maps: Nat \ {0}, table: Nat \ {0},
                  warmup: Nat, writes: Nat, rate: Nat, interval: Nat]
        /\ c.kind = "single" => c.maps = 1

VARIABLES
    config,   \* [kind, maps, table, warmup, writes, rate, interval]
    writer,   \* [pc, written, inInterval, map]
    sent,     \* [m]: writes to map m so far
    bus,      \* [m]: writes on their way to the reader
    lost, doubled,
    events,   \* [m]: the updates the observer of map m has seen
    observer, \* [m]: [offset, warmedUp, done, failed] (multi)
    reader,   \* [pc, readOffset, totalRead, exceptions]
    latencies \* [m]: the writes whose latency was recorded

vars == <<config, writer, sent, bus, lost, doubled, events, observer, reader,
          latencies>>

Maps == 1 .. config.maps
Single == config.kind = "single"

(* Math.round(writesPerSecond / 1000000.0 * writeInterval); MultiMapWriter *)
(* writes once to each map in an interval.                                 *)
writesPerInterval ==
    IF Single THEN (config.rate * config.interval + 500000) \div 1000000 ELSE 1

(* The updates before the benchmark.                                       *)
totalWarmup == config.table + config.warmup

(* Mutant: one update more is expected than comes.                         *)
totalExpected_Mutant == totalWarmup + config.writes + 1

(* The updates until the reader is done.                                   *)
totalExpected == totalWarmup + config.writes

Init ==
    /\ config \in Configs
    /\ writer = [pc |-> "setup", written |-> 0, inInterval |-> 0, map |-> 1]
    /\ sent = [m \in Maps |-> 0]
    /\ bus = [m \in Maps |-> <<>>]
    /\ lost = 0 /\ doubled = 0
    /\ events = [m \in Maps |-> <<>>]
    /\ observer = [m \in Maps |-> [offset |-> 0, warmedUp |-> FALSE,
                                   done |-> FALSE, failed |-> FALSE]]
    /\ reader = [pc |-> "waits", readOffset |-> 0, totalRead |-> 0, exceptions |-> 0]
    /\ latencies = [m \in Maps |-> <<>>]

-----------------------------------------------------------------------------
(* The writer.                                                             *)

(* putOpinion: the write is on its way, or lost, or comes twice.           *)
putOpinion(m) ==
    LET w == sent[m] + 1
    IN  /\ sent' = [sent EXCEPT ![m] = w]
        /\ \/ /\ bus' = [bus EXCEPT ![m] = Append(@, w)]
              /\ UNCHANGED <<lost, doubled>>
           \/ /\ lost + doubled < MaxFaults
              /\ lost' = lost + 1
              /\ UNCHANGED <<bus, doubled>>
           \/ /\ lost + doubled < MaxFaults
              /\ doubled' = doubled + 1
              /\ bus' = [bus EXCEPT ![m] = @ \o <<w, w>>]
              /\ UNCHANGED lost

readerVars == <<events, observer, reader, latencies>>

(* setup: fill the table, then the warm-up writes, map by map.             *)
WriterSetup ==
    /\ writer.pc = "setup"
    /\ UNCHANGED <<config, readerVars>>
    /\ \/ /\ sent[writer.map] < totalWarmup
          /\ putOpinion(writer.map)
          /\ UNCHANGED writer
       \/ /\ sent[writer.map] = totalWarmup
          /\ writer' = IF writer.map < config.maps
                       THEN [writer EXCEPT !.map = @ + 1]
                       ELSE [writer EXCEPT !.map = 1, !.pc = "ready"]
          /\ UNCHANGED <<sent, bus, lost, doubled>>

(* run: one write of an interval, to each of the maps in turn.             *)
WriteEntry ==
    /\ writer.pc = "run"
    /\ writer.written < config.writes
    /\ writer.inInterval < writesPerInterval
    /\ putOpinion(writer.map)
    /\ writer' = IF writer.map < config.maps
                 THEN [writer EXCEPT !.map = @ + 1]
                 ELSE [writer EXCEPT !.map = 1, !.inInterval = @ + 1]
    /\ UNCHANGED <<config, readerVars>>

(* The end of an interval, after which the writer sleeps.                  *)
EndInterval ==
    /\ writer.pc = "run"
    /\ writer.written < config.writes
    /\ writer.inInterval = writesPerInterval
    /\ writer' = [writer EXCEPT !.inInterval = 0, !.written = @ + writesPerInterval]
    /\ UNCHANGED <<config, sent, bus, lost, doubled, readerVars>>

WriterEnd ==
    /\ writer.pc = "run"
    /\ writer.written >= config.writes
    /\ writer' = [writer EXCEPT !.pc = "finished"]
    /\ UNCHANGED <<config, sent, bus, lost, doubled, readerVars>>

-----------------------------------------------------------------------------
(* The observers.                                                          *)

(* Mutant: the first update after the warm-up is taken for a part of it.   *)
Measured_Mutant(o) == o.offset > totalWarmup

(* The update that comes next is one of the benchmark.                     *)
Measured(o) == o.offset >= totalWarmup

(* Mutant: the array is one too short.                                     *)
PastTheEnd_Mutant(o) == o.offset - totalWarmup >= config.writes - 1

(* latencies[offset - totalWarmup] is beyond the array.                    *)
PastTheEnd(o) == o.offset - totalWarmup >= config.writes

Counted(o) ==
    [offset   |-> o.offset + 1,
     done     |-> o.done \/ o.offset + 1 >= totalExpected,
     warmedUp |-> o.warmedUp \/ o.offset + 1 >= totalWarmup,
     failed   |-> FALSE]

(* ArpMergedMapObserver.onNext: after the warm-up a latency is recorded,   *)
(* and past the end of the array an exception ends the subscription.       *)
onNext(m, w) ==
    LET o == observer[m]
    IN  \/ /\ Measured(o) /\ PastTheEnd(o)
          /\ observer' = [observer EXCEPT ![m].failed = TRUE]
          /\ UNCHANGED latencies
       \/ /\ ~(Measured(o) /\ PastTheEnd(o))
          /\ observer' = [observer EXCEPT ![m] = Counted(o)]
          /\ latencies' = IF Measured(o) THEN [latencies EXCEPT ![m] = Append(@, w)]
                          ELSE latencies

(* The bus delivers an update to the observer of its map.                  *)
Deliver(m) ==
    /\ bus[m] # <<>>
    /\ bus' = [bus EXCEPT ![m] = Tail(@)]
    /\ IF Single
       THEN /\ events' = [events EXCEPT ![m] = Append(@, Head(bus[m]))]
            /\ UNCHANGED <<observer, latencies>>
       ELSE /\ IF observer[m].failed THEN UNCHANGED <<observer, latencies>>
               ELSE onNext(m, Head(bus[m]))
            /\ UNCHANGED events
    /\ UNCHANGED <<config, writer, sent, lost, doubled, reader>>

-----------------------------------------------------------------------------
(* The reader.                                                             *)

busVars == <<config, writer, sent, bus, lost, doubled, events, observer>>

(* The turn of throttledSetup comes to the reader after the writer.        *)
ReaderSetup ==
    /\ reader.pc = "waits" /\ writer.pc = "ready"
    /\ reader' = [reader EXCEPT !.pc = "setup"]
    /\ UNCHANGED <<busVars, latencies>>

(* The barrier after the setups, after which both run.                     *)
StartRun ==
    /\ reader.pc = "ready" /\ writer.pc = "ready"
    /\ reader' = [reader EXCEPT !.pc = "run"]
    /\ writer' = [writer EXCEPT !.pc = "run"]
    /\ UNCHANGED <<config, sent, bus, lost, doubled, events, observer, latencies>>

(* warmupLatch.await() and finishedLatch.await(): each map counts down.    *)
AwaitWarmup ==
    /\ ~Single /\ reader.pc = "setup"
    /\ \A m \in Maps : observer[m].warmedUp
    /\ reader' = [reader EXCEPT !.pc = "ready"]
    /\ UNCHANGED <<busVars, latencies>>

AwaitFinished ==
    /\ ~Single /\ reader.pc = "run"
    /\ \A m \in Maps : observer[m].done
    /\ reader' = [reader EXCEPT !.pc = "finished"]
    /\ UNCHANGED <<busVars, latencies>>

Available == Len(events[1]) > reader.readOffset

(* readEntry of the setup, which reads the table and the warm-up writes.   *)
(* Nobody catches the exception after a timeout.                           *)
SetupRead ==
    /\ Single /\ reader.pc = "setup"
    /\ \/ /\ reader.readOffset < totalWarmup
          /\ reader' = IF Available THEN [reader EXCEPT !.readOffset = @ + 1]
                       ELSE [reader EXCEPT !.readOffset = @ + 1, !.pc = "setup_threw"]
       \/ /\ reader.readOffset = totalWarmup
          /\ reader' = [reader EXCEPT !.pc = "ready"]
    /\ UNCHANGED <<busVars, latencies>>

(* readEntry of the run: the offset moves on even when the wait times out. *)
RunRead ==
    /\ Single /\ reader.pc = "run"
    /\ reader.totalRead < config.writes
    /\ \/ /\ Available
          /\ latencies' = [latencies EXCEPT ![1] =
                              Append(@, events[1][reader.readOffset + 1])]
          /\ reader' = [reader EXCEPT !.readOffset = @ + 1, !.totalRead = @ + 1]
       \/ /\ ~Available
          /\ reader' = [reader EXCEPT
                           !.readOffset = @ + 1, !.exceptions = @ + 1,
                           !.pc = IF reader.exceptions + 1 > MaxExceptions
                                  THEN "threw" ELSE "run"]
          /\ UNCHANGED latencies
    /\ UNCHANGED busVars

ReaderEnd ==
    /\ Single /\ reader.pc = "run"
    /\ reader.totalRead = config.writes
    /\ reader' = [reader EXCEPT !.pc = "finished"]
    /\ UNCHANGED <<busVars, latencies>>

Writer == WriterSetup \/ WriteEntry \/ EndInterval \/ WriterEnd
Reader ==
    \/ ReaderSetup \/ StartRun
    \/ AwaitWarmup \/ AwaitFinished
    \/ SetupRead \/ RunRead \/ ReaderEnd

Next == Writer \/ Reader \/ \E m \in Maps : Deliver(m)

(* Both nodes go on, and what is on the bus arrives.                       *)
Fairness ==
    /\ WF_vars(Writer) /\ WF_vars(Reader)
    /\ WF_vars(\E m \in Maps : Deliver(m))

Spec == Init /\ [][Next]_vars /\ Fairness

-----------------------------------------------------------------------------
(* The latencies that are recorded belong to writes of the benchmark, in   *)
(* their order: what the reader takes for the warm-up is the writer's, up  *)
(* to the updates that the bus lost or doubled.  A lost update and a       *)
(* timeout, which skips an update that comes later, put the reader a write *)
(* ahead for the rest of the run, a doubled one puts it a write back; and  *)
(* no write is measured twice unless an update came twice.                 *)
MeasuresTheRun ==
    \A m \in Maps : \A k \in 1 .. Len(latencies[m]) :
        /\ latencies[m][k] \in totalWarmup + k - doubled ..
                               totalWarmup + k + lost + reader.exceptions
        /\ k > 1 => /\ latencies[m][k - 1] <= latencies[m][k]
                    /\ doubled = 0 => latencies[m][k - 1] < latencies[m][k]

(* No more latencies are recorded than the reader has room for, and an     *)
(* update too many ends the subscription of an observer only after the     *)
(* reader was told that it is done.                                        *)
SurplusAfterDone ==
    \A m \in Maps :
        /\ Len(latencies[m]) <= config.writes
        /\ observer[m].failed => observer[m].done /\ doubled > 0

(* Both nodes end, with three exceptions.  A writer whose interval is too  *)
(* short for one write goes on for ever; its reader gives up after its     *)
(* timeouts all the same.  A reader of several maps, which has no timeout, *)
(* may wait for ever for an update that was lost.  And a timeout in the    *)
(* reader's setup keeps both from the barrier before the run.              *)
NodesEnd ==
    <>(\/ /\ writer.pc = "finished" \/ writesPerInterval = 0
          /\ reader.pc \in {"finished", "threw"}
       \/ ~Single /\ lost > 0
       \/ reader.pc = "setup_threw")
=============================================================================
