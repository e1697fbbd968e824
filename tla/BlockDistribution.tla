-------------------------- MODULE BlockDistribution --------------------------
(* The distribution of work over the processes of a benchmark              *)
(* (BlockDistribution.java): globalCount items in consecutive blocks, the  *)
(* first ones longer by one, each in an array of the longest block's size. *)
EXTENDS Integers, Sequences, SequencesExt

partial(globalCount, procSize) == globalCount \div procSize
imbalance(globalCount, procSize) == globalCount % procSize

localCount(globalCount, procSize, rank) ==
    partial(globalCount, procSize)
        + (IF rank < imbalance(globalCount, procSize) THEN 1 ELSE 0)

localArraySize(globalCount, procSize) ==
    partial(globalCount, procSize)
        + (IF imbalance(globalCount, procSize) # 0 THEN 1 ELSE 0)

getGlobalArrayIndex(globalCount, procSize, rank, localIndex) ==
    rank * localArraySize(globalCount, procSize) + localIndex

getItemCount(globalCount, procSize, rank) ==
    IF imbalance(globalCount, procSize) = 0 \/ rank < imbalance(globalCount, procSize)
    THEN localArraySize(globalCount, procSize)
    ELSE localArraySize(globalCount, procSize) - 1

(* Mutant: the longer blocks before this one are not counted in.           *)
getGlobalOffset_Mutant(globalCount, procSize, rank, localOffset) ==
    rank * localCount(globalCount, procSize, rank) + localOffset

getGlobalOffset(globalCount, procSize, rank, localOffset) ==
    rank * localCount(globalCount, procSize, rank) + localOffset
        + (IF rank >= imbalance(globalCount, procSize)
           THEN imbalance(globalCount, procSize) ELSE 0)

(* compactGlobalArray: for each place of dest, the place in source that it *)
(* is taken from.                                                          *)
compactGlobalArray(globalCount, procSize) ==
    FlattenSeq([p \in 1 .. procSize |->
        [j \in 1 .. getItemCount(globalCount, procSize, p - 1) |->
            (p - 1) * localArraySize(globalCount, procSize) + j - 1]])

(* The blocks cover the items, each once, and compacting an array that the *)
(* processes have filled puts every item at its global offset.             *)
Tiles(globalCount, procSize) ==
    LET own  == {b \in (0 .. procSize - 1) \X (0 .. globalCount - 1) :
                    b[2] < localCount(globalCount, procSize, b[1])}
        dest == compactGlobalArray(globalCount, procSize)
    IN  /\ {getGlobalOffset(globalCount, procSize, b[1], b[2]) : b \in own}
               = 0 .. globalCount - 1
        /\ \A b, c \in own :
              getGlobalOffset(globalCount, procSize, b[1], b[2])
                  = getGlobalOffset(globalCount, procSize, c[1], c[2]) => b = c
        /\ Len(dest) = globalCount
        /\ \A b \in own :
              dest[getGlobalOffset(globalCount, procSize, b[1], b[2]) + 1]
                  = getGlobalArrayIndex(globalCount, procSize, b[1], b[2])
=============================================================================
