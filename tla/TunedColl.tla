------------------------------ MODULE TunedColl ------------------------------
(* The barrier and broadcast algorithms of Open MPI's tuned collectives,   *)
(* as programs of one rank (coll_tuned_barrier.c, coll_tuned_bcast.c).     *)
(*                                                                         *)
(* A program is a sequence of phases.  In a phase a rank posts at most one *)
(* receive, then sends (to different ranks), then waits until the requests *)
(* in wait are complete.  A blocking call is a phase that waits for its    *)
(* own request.  Buffers are numbered by element, from 0.                  *)
EXTENDS Topology

TAG_BARRIER == -16
TAG_BCAST == -17

R(i) == <<"recv", i>>
S(i) == <<"send", i>>

Phase(recvs, sends, wait) == [recvs |-> recvs, sends |-> sends, wait |-> wait]

ARecv(src, tag, at, req) == [src |-> src, tag |-> tag, at |-> at, req |-> req]
ASend(dst, tag, from, sync, req) ==
    [dst |-> dst, tag |-> tag, from |-> from, sync |-> sync, req |-> req]

Recv(src, tag, at) == Phase({ARecv(src, tag, at, R(0))}, {}, {R(0)})
Send(dst, tag, from) == Phase({}, {ASend(dst, tag, from, FALSE, S(0))}, {S(0)})
Ssend(dst, tag, from) == Phase({}, {ASend(dst, tag, from, TRUE, S(0))}, {S(0)})
Wait(reqs) == Phase({}, {}, reqs)

(* isend to each of the ranks, and wait_all.                               *)
SendAll(dsts, tag, from) ==
    Phase({}, {ASend(dsts[i], tag, from, FALSE, S(i)) : i \in 1 .. Len(dsts)},
          {S(i) : i \in 1 .. Len(dsts)})

(* A receive and a standard send at once.                                  *)
SendRecv(dst, from, src, at, tag) ==
    Phase({ARecv(src, tag, at, R(0))},
          {ASend(dst, tag, from, FALSE, S(0))}, {R(0), S(0)})

Range0(first, n) == [i \in 1 .. n |-> first + i - 1]
Minimum(a, b) == IF a < b THEN a ELSE b

-----------------------------------------------------------------------------
(* Barriers: all messages are empty.                                       *)

sendrecv_zero(dst, src) == SendRecv(dst, <<>>, src, <<>>, TAG_BARRIER)
BRecv(src) == Recv(src, TAG_BARRIER, <<>>)
BSend(dst) == Send(dst, TAG_BARRIER, <<>>)
BSsend(dst) == Ssend(dst, TAG_BARRIER, <<>>)

(* (rank - 1) % size of rank 0 is -1 in C, which is MPI_ANY_SOURCE.        *)
barrier_doublering(size, rank) ==
    LET left  == IF rank = 0 THEN -1 ELSE rank - 1
        right == (rank + 1) % size
    IN  IF rank > 0
        THEN <<BRecv(left), BSend(right), BRecv(left), BSsend(right)>>
        ELSE <<BSend(right), BRecv(left), BSsend(right), BRecv(left)>>

(* Mutant: the ranks beyond the power of two are not waited for.           *)
barrier_recursivedoubling_Mutant(size, rank) ==
    LET adjsize == opal_next_poweroftwo(size) \div 2
        masks   == MasksBelow(adjsize)
    IN  IF rank >= adjsize THEN <<sendrecv_zero(rank - adjsize, rank - adjsize)>>
        ELSE [i \in 1 .. Len(masks) |->
                 sendrecv_zero(Flip(rank, masks[i]), Flip(rank, masks[i]))]
             \o IF rank < size - adjsize THEN <<BSend(rank + adjsize)>> ELSE <<>>

barrier_recursivedoubling(size, rank) ==
    LET adjsize == opal_next_poweroftwo(size) \div 2
        extra   == size - adjsize
        before  == IF rank >= adjsize
                   THEN <<sendrecv_zero(rank - adjsize, rank - adjsize)>>
                   ELSE IF rank < extra THEN <<BRecv(rank + adjsize)>> ELSE <<>>
        masks   == MasksBelow(adjsize)
        rounds  == IF rank >= adjsize THEN <<>>
                   ELSE [i \in 1 .. Len(masks) |->
                            sendrecv_zero(Flip(rank, masks[i]), Flip(rank, masks[i]))]
        after   == IF rank < extra THEN <<BSsend(rank + adjsize)>> ELSE <<>>
    IN  before \o rounds \o after

barrier_bruck(size, rank) ==
    LET distance == MasksBelow(size)
    IN  [i \in 1 .. Len(distance) |->
            sendrecv_zero((rank + distance[i]) % size,
                          (rank + size - distance[i]) % size)]

barrier_two_procs(size, rank) ==
    <<sendrecv_zero((rank + 1) % 2, (rank + 1) % 2)>>

barrier_basic_linear(size, rank) ==
    IF rank > 0 THEN <<BSend(0), BRecv(0)>>
    ELSE [i \in 1 .. size - 1 |->
             Phase({ARecv(-1, TAG_BARRIER, <<>>, R(i))}, {},
                   IF i = size - 1 THEN {R(j) : j \in 1 .. size - 1} ELSE {})]
         \o <<SendAll(Range0(1, size - 1), TAG_BARRIER, <<>>)>>

barrier_tree(size, rank) ==
    LET jumps == MasksBelow(opal_next_poweroftwo_inclusive(size))
        meets(jump) == Flip(rank, jump) % jump = 0 /\ Flip(rank, jump) < size
        gather(jump) ==
            IF ~meets(jump) THEN <<>>
            ELSE IF Flip(rank, jump) > rank THEN <<BRecv(Flip(rank, jump))>>
            ELSE <<BSend(Flip(rank, jump))>>
        release(jump) ==
            IF ~meets(jump) THEN <<>>
            ELSE IF Flip(rank, jump) > rank THEN <<BSend(Flip(rank, jump))>>
            ELSE <<BRecv(Flip(rank, jump))>>
        down == Reverse(jumps)
    IN  FlattenSeq([i \in 1 .. Len(jumps) |-> gather(jumps[i])])
        \o FlattenSeq([i \in 1 .. Len(down) |-> release(down[i])])

(* barrier_intra_dec_fixed: the algorithm that is used unless another one  *)
(* is asked for.                                                           *)
barrier_dec_fixed(size) ==
    IF size = 2 THEN "two_procs"
    ELSE IF opal_next_poweroftwo_inclusive(size) # size THEN "bruck"
    ELSE "recursivedoubling"

barrier_do_this(alg, size, rank) ==
    CASE alg = "basic_linear"      -> barrier_basic_linear(size, rank)
      [] alg = "doublering"        -> barrier_doublering(size, rank)
      [] alg = "recursivedoubling" -> barrier_recursivedoubling(size, rank)
      [] alg = "bruck"             -> barrier_bruck(size, rank)
      [] alg = "two_procs"         -> barrier_two_procs(size, rank)
      [] alg = "tree"              -> barrier_tree(size, rank)

-----------------------------------------------------------------------------
(* Broadcasts of count elements of the given number of bytes.  The segment *)
(* size a broadcast is called with is in bytes; seg, the count of elements *)
(* in a segment, is worked out from it.                                    *)

(* COLL_TUNED_COMPUTED_SEGCOUNT: the elements that fit into a segment, one *)
(* more if that leaves over half of another unused.  A segment size below  *)
(* that of an element (0 is), or that all the data fit into, means one     *)
(* segment.                                                                *)
Segcount(count, segsize, bytes) ==
    IF segsize >= bytes /\ segsize < bytes * count
    THEN segsize \div bytes + (IF segsize % bytes > bytes \div 2 THEN 1 ELSE 0)
    ELSE count

NumSegments(count, seg) == (count + seg - 1) \div seg

(* The elements of segment i that are sent, and the room that is made for  *)
(* it: a full segment.                                                     *)
SegmentOf(first, count, seg, i) ==
    Range0(first + i * seg, Minimum(seg, count - i * seg))
RoomFor(first, seg, i) == Range0(first + i * seg, seg)

CRecv(src, at, i) == Phase({ARecv(src, TAG_BCAST, at, R(i % 2))}, {}, {})

(* A rank below the root: while a segment is passed on, the receive of the *)
(* next one is already posted, in the other of two requests.  room[i] is   *)
(* where segment i goes, passOn[i] how it is passed on.                    *)
Pipelined(prev, num, room, passOn) ==
    <<CRecv(prev, room[0], 0)>>
    \o FlattenSeq([i \in 1 .. num - 1 |->
           <<Phase({ARecv(prev, TAG_BCAST, room[i], R(i % 2))}, {},
                   {R((i - 1) % 2)})>> \o passOn[i - 1]])
    \o <<Wait({R((num - 1) % 2)})>> \o passOn[num - 1]

(* Mutant: the root counts one segment too many.                           *)
bcast_generic_Mutant(tree, isRoot, count, seg) ==
    LET num == NumSegments(count, seg)
        room == [i \in 0 .. num - 1 |-> RoomFor(0, seg, i)]
        passOn == [i \in 0 .. num |->
                      IF tree.next = <<>> THEN <<>>
                      ELSE <<SendAll(tree.next, TAG_BCAST,
                                     SegmentOf(0, count, seg, i))>>]
    IN  IF isRoot THEN FlattenSeq([i \in 1 .. num + 1 |-> passOn[i - 1]])
        ELSE Pipelined(tree.prev, num, room, passOn)

bcast_generic(tree, isRoot, count, seg) ==
    LET num == NumSegments(count, seg)
        room == [i \in 0 .. num - 1 |-> RoomFor(0, seg, i)]
        passOn == [i \in 0 .. num - 1 |->
                      IF tree.next = <<>> THEN <<>>
                      ELSE <<SendAll(tree.next, TAG_BCAST,
                                     SegmentOf(0, count, seg, i))>>]
    IN  IF isRoot THEN FlattenSeq([i \in 1 .. num |-> passOn[i - 1]])
        ELSE Pipelined(tree.prev, num, room, passOn)

(* Each half of the data goes down one side of a binary tree; then each    *)
(* rank exchanges halves with its mirror image on the other side.          *)
bcast_split_bintree(tree, size, root, rank, count, seg) ==
    LET counts   == <<(count + 1) \div 2, count \div 2>>
        firsts   == <<0, counts[1]>>
        segs(h)  == IF seg = 0 THEN counts[h] ELSE seg
        num(h)   == NumSegments(counts[h], segs(h))
        lr       == 1 + ((Shifted(size, root, rank) + 1) % 2)
        other    == 3 - lr
        half(h)  == Range0(firsts[h], counts[h])
        part(h, i) == SegmentOf(firsts[h], counts[h], segs(h), i)
        room     == [i \in 0 .. num(lr) - 1 |-> part(lr, i)]
        passOn   == [i \in 0 .. num(lr) - 1 |->
                        [c \in 1 .. Len(tree.next) |->
                            Send(tree.next[c], TAG_BCAST, part(lr, i))]]
        fromRoot(i) ==
            LET kids == {h \in 1 .. Minimum(2, Len(tree.next)) : i < num(h)}
            IN  [c \in 1 .. Cardinality(kids) |->
                    Send(tree.next[c], TAG_BCAST, part(c, i))]
        step1 == IF rank = root
                 THEN FlattenSeq([i \in 1 .. num(1) |-> fromRoot(i - 1)])
                 ELSE IF tree.next # <<>>
                 THEN Pipelined(tree.prev, num(lr), room, passOn)
                 ELSE [i \in 1 .. num(lr) |->
                          Recv(tree.prev, TAG_BCAST, part(lr, i - 1))]
        last  == (root + size - 1) % size
        pair  == IF lr = 1 THEN (rank + 1) % size ELSE (rank + size - 1) % size
        swap  == <<SendRecv(pair, half(lr), pair, half(other), TAG_BCAST)>>
        step2 == IF size % 2 # 0
                 THEN IF rank = root THEN <<>> ELSE swap
                 ELSE IF rank = root THEN <<Send(last, TAG_BCAST, half(2))>>
                 ELSE IF rank = last THEN <<Recv(root, TAG_BCAST, half(2))>>
                 ELSE swap
    IN  step1 \o step2

bcast_basic_linear(size, root, rank, count) ==
    IF rank # root THEN <<Recv(root, TAG_BCAST, Range0(0, count))>>
    ELSE <<SendAll([i \in 1 .. size - 1 |-> IF i <= root THEN i - 1 ELSE i],
                   TAG_BCAST, Range0(0, count))>>

(* The split broadcast pushes its segment size up to hold one element.     *)
Raised(segsize, bytes) ==
    IF segsize > 0 /\ segsize < bytes THEN bytes ELSE segsize

(* A message whose smaller half does not fill a segment is not split; it   *)
(* goes down a single chain.                                               *)
TooSmallToSplit(count, segsize, bytes) ==
    \/ count \div 2 = 0
    \/ Raised(segsize, bytes) > (count \div 2) * bytes

(* bcast_intra_dec_fixed, for messages below 370728 bytes: the algorithm   *)
(* and the segment size.                                                   *)
bcast_dec_fixed(count, bytes) ==
    IF count * bytes < 2048 \/ count <= 1 THEN [alg |-> "binomial", segsize |-> 0]
    ELSE [alg |-> "split_bintree", segsize |-> 1024]

(* The trees an algorithm brings up to date, the one it uses last.         *)
Topos(c) ==
    LET topo(kind, fanout) == [kind |-> kind, fanout |-> fanout, root |-> c.root]
    IN  CASE c.alg = "basic_linear" -> <<>>
          [] c.alg = "chain"        -> <<topo("chain", c.chains)>>
          [] c.alg = "pipeline"     -> <<topo("pipeline", 1)>>
          [] c.alg = "bintree"      -> <<topo("bintree", 2)>>
          [] c.alg = "binomial"     -> <<topo("bmtree", 0)>>
          [] c.alg = "split_bintree" ->
                <<topo("bintree", 2)>>
                \o IF TooSmallToSplit(c.count, c.segsize, c.bytes)
                   THEN <<topo("chain", 1)>> ELSE <<>>

(* bcast_intra_do_this, with the tree that the rank uses.                  *)
bcast_do_this(c, size, rank, tree) ==
    LET segsize == IF c.alg = "split_bintree" THEN Raised(c.segsize, c.bytes)
                   ELSE c.segsize
    IN  IF c.alg = "basic_linear"
        THEN bcast_basic_linear(size, c.root, rank, c.count)
        ELSE IF c.alg = "split_bintree" /\ ~TooSmallToSplit(c.count, c.segsize, c.bytes)
        THEN bcast_split_bintree(tree, size, c.root, rank, c.count, segsize \div c.bytes)
        ELSE bcast_generic(tree, rank = c.root, c.count,
                           Segcount(c.count, segsize, c.bytes))
=============================================================================
