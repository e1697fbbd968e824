------------------------------ MODULE Topology ------------------------------
(* The trees along which Open MPI's tuned collectives send, as each rank   *)
(* computes its own place in them (coll_tuned_topo.c).  A rank's view of a *)
(* tree is its parent, prev, and its children, next, in the order in which *)
(* they are served; -1 stands for "none".  Nobody compares the views: that *)
(* they fit together is what Spans says.                                   *)
EXTENDS Integers, Sequences, FiniteSets, SequencesExt

MAXTREEFANOUT == 32

(* p *= fanout, num times.                                                 *)
pown(fanout, num) ==
    LET p[j \in 0 .. num] == IF j = 0 THEN 1 ELSE p[j - 1] * fanout
    IN  IF num < 0 THEN 0 ELSE p[num]

(* The least power of two above v, and the least one not below v.          *)
opal_next_poweroftwo(v) ==
    CHOOSE p \in {pown(2, k) : k \in 0 .. v} : p > v /\ (v = 0 \/ p <= 2 * v)

opal_next_poweroftwo_inclusive(v) ==
    IF v <= 1 THEN 1 ELSE opal_next_poweroftwo(v - 1)

(* v ^ mask, of a mask with a single bit set.                              *)
Flip(v, mask) == IF (v \div mask) % 2 = 0 THEN v + mask ELSE v - mask

(* The powers of two from 1 on that are below n, in ascending order.       *)
MasksBelow(n) ==
    [i \in 1 .. Cardinality({k \in 1 .. n : pown(2, k - 1) < n}) |-> pown(2, i - 1)]

Shifted(size, root, rank) == (rank - root + size) % size

-----------------------------------------------------------------------------
(* The level of a rank in a full tree that is filled level by level.       *)
calculate_level(fanout, rank) ==
    LET nodes[l \in 0 .. rank] ==
            pown(fanout, l) + (IF l = 0 THEN 0 ELSE nodes[l - 1])
    IN  CHOOSE l \in 0 .. rank :
            nodes[l] > rank /\ \A k \in 0 .. l - 1 : nodes[k] <= rank

calculate_num_nodes_up_to_level(fanout, level) ==
    (pown(fanout, level) - 1) \div (fanout - 1)

(* A tree of the given fanout, filled level by level (fanout at least 2:   *)
(* the number of nodes above a level is a quotient by fanout - 1).         *)
build_tree(fanout, size, root, rank) ==
    LET s        == Shifted(size, root, rank)
        level    == calculate_level(fanout, s)
        delta    == pown(fanout, level)
        slimit   == calculate_num_nodes_up_to_level(fanout, level)
        children == {i \in 1 .. fanout : s + delta * i < size}
        step     == delta \div fanout
        up       == CHOOSE k \in 0 .. s :
                        s - k * step < slimit
                            /\ \A j \in 0 .. k - 1 : s - j * step >= slimit
        sparent  == IF s < fanout THEN 0 ELSE s - up * step
    IN  [prev |-> (sparent + root) % size,
         next |-> [i \in 1 .. Cardinality(children) |->
                      (s + delta * i + root) % size]]

(* Mutant: one rank too many gets a place.                                 *)
build_bmtree_Mutant(size, root, rank) ==
    LET index    == Shifted(size, root, rank)
        mask     == opal_next_poweroftwo(index)
        child(i) == Flip(index, mask * pown(2, i - 1))
        children == {i \in 1 .. size : mask * pown(2, i - 1) < size /\ child(i) <= size}
    IN  [prev |-> IF rank = root THEN root
                  ELSE (Flip(index, mask \div 2) + root) % size,
         next |-> [i \in 1 .. Cardinality(children) |-> (child(i) + root) % size]]

(* The binomial tree of the broadcast: a child sets a bit above all those  *)
(* of its parent.                                                          *)
build_bmtree(size, root, rank) ==
    LET index    == Shifted(size, root, rank)
        mask     == opal_next_poweroftwo(index)
        child(i) == Flip(index, mask * pown(2, i - 1))
        children == {i \in 1 .. size : mask * pown(2, i - 1) < size /\ child(i) < size}
    IN  [prev |-> IF rank = root THEN root
                  ELSE (Flip(index, mask \div 2) + root) % size,
         next |-> [i \in 1 .. Cardinality(children) |-> (child(i) + root) % size]]

(* The binomial tree of gather and scatter: a child sets a bit below all   *)
(* those of its parent, so that a subtree is a run of consecutive ranks.   *)
(* The masks are tried in ascending order, up to the one that leads to the *)
(* parent; the children that exist are the first ones.                     *)
build_in_order_bmtree(size, root, rank) ==
    LET vrank    == Shifted(size, root, rank)
        masks    == MasksBelow(size)
        lower    == {i \in 1 .. Len(masks) : Flip(vrank, masks[i]) < vrank}
        tried    == IF lower = {} THEN 1 .. Len(masks) ELSE 1 .. Min(lower) - 1
        children == {i \in tried : Flip(vrank, masks[i]) < size}
    IN  [prev |-> IF lower = {} THEN root
                  ELSE (Flip(vrank, masks[Min(lower)]) + root) % size,
         next |-> [i \in 1 .. Cardinality(children) |->
                      (Flip(vrank, masks[i]) + root) % size]]

(* One column of ranks below each child of the root: the first mark        *)
(* columns have maxchainlen ranks, the others one less.                    *)
build_chain(fanout0, size, root, rank) ==
    LET bounded     == IF fanout0 < 1 THEN 1
                       ELSE IF fanout0 > MAXTREEFANOUT THEN MAXTREEFANOUT
                       ELSE fanout0
        fanout      == IF size - 1 < bounded THEN size - 1 ELSE bounded
        s           == Shifted(size, root, rank)
        even        == (size - 1) % fanout = 0
        maxchainlen == (size - 1) \div fanout + (IF even THEN 0 ELSE 1)
        mark        == IF even THEN fanout + 1 ELSE (size - 1) % fanout
        long        == s - 1 < mark * maxchainlen
        column      == IF long THEN (s - 1) \div maxchainlen
                       ELSE mark + (s - 1 - mark * maxchainlen)
                                       \div (maxchainlen - 1)
        head        == IF long THEN 1 + column * maxchainlen
                       ELSE mark * maxchainlen + 1
                                + (column - mark) * (maxchainlen - 1)
        len         == IF long THEN maxchainlen ELSE maxchainlen - 1
        heads[i \in 0 .. fanout - 1] ==
            IF i = 0 THEN (root + 1) % size
            ELSE (heads[i - 1] + maxchainlen - (IF i > mark THEN 1 ELSE 0)) % size
        pipeline    == [prev |-> IF s = 0 THEN -1 ELSE (s - 1 + root) % size,
                        next |-> IF s + 1 >= size THEN <<>>
                                 ELSE <<(s + 1 + root) % size>>]
    IN  IF size = 1 THEN [prev |-> -1, next |-> <<>>]
        ELSE IF fanout = 1 THEN pipeline
        ELSE IF s = 0
        THEN [prev |-> -1, next |-> [i \in 1 .. fanout |-> heads[i - 1]]]
        ELSE [prev |-> ((IF s = head THEN 0 ELSE s - 1) + root) % size,
              next |-> IF s = head + len - 1 \/ s + 1 >= size THEN <<>>
                       ELSE <<(s + 1 + root) % size>>]

(* The in-order binary tree, rooted at the last rank: the walk from the    *)
(* root down to the rank, me, in a subtree of n ranks that starts at delta. *)
(* From a subtree of two the left child goes on to one of size 0, whose    *)
(* parent is rank -1, as it is itself by then: there the walk ends.        *)
build_in_order_bintree(size, rank) ==
    LET walk[n \in 0 .. size] == [me \in Int |-> [delta \in Int |-> [prev \in Int |->
            LET rightsize == n \div 2
                parent    == n - 1
                lchild    == IF n > 1 THEN parent - 1 ELSE -1
                rchild    == IF lchild > 0 THEN rightsize - 1 ELSE -1
                prev1     == IF me \in {lchild, rchild} THEN parent + delta ELSE prev
            IN  IF me = parent \/ n = 0
                THEN [prev |-> prev,
                      next |-> IF lchild < 0 THEN <<>>
                               ELSE IF rchild < 0 THEN <<lchild + delta>>
                               ELSE <<lchild + delta, rchild + delta>>]
                ELSE IF me > rchild
                THEN walk[n - rightsize - 1][me - rightsize][delta + rightsize][prev1]
                ELSE walk[rightsize][me][delta][prev1]]]]
    IN  walk[size][rank][0][-1]

-----------------------------------------------------------------------------
(* The trees by name; the in-order binary tree has its own root.           *)
Tree(kind, fanout, size, root, rank) ==
    CASE kind = "tree"            -> build_tree(fanout, size, root, rank)
      [] kind = "bmtree"          -> build_bmtree(size, root, rank)
      [] kind = "in_order_bmtree" -> build_in_order_bmtree(size, root, rank)
      [] kind = "chain"           -> build_chain(fanout, size, root, rank)
      [] kind = "in_order_bintree" -> build_in_order_bintree(size, rank)

RootOf(kind, size, root) == IF kind = "in_order_bintree" THEN size - 1 ELSE root

(* The views of the ranks make up one tree that spans them: a rank other   *)
(* than the root is the child of its parent and of nobody else, once, and  *)
(* its parents lead up to the root.                                        *)
OneTree(view, size, top) ==
    LET ranks == 0 .. size - 1
        climb[n \in 0 .. size] ==
            [r \in ranks |-> IF r = top \/ n = 0 THEN r ELSE climb[n - 1][view[r].prev]]
    IN  /\ \A p \in ranks : /\ view[p].next \in Seq(ranks \ {top})
                            /\ IsInjective(view[p].next)
        /\ \A r \in ranks \ {top} : view[r].prev \in ranks \ {r}
        /\ \A p \in ranks, r \in ranks \ {top} :
              r \in ToSet(view[p].next) <=> view[r].prev = p
        /\ \A r \in ranks : climb[size][r] = top

Spans(kind, fanout, size, root) ==
    OneTree([r \in 0 .. size - 1 |-> Tree(kind, fanout, size, root, r)], size,
            RootOf(kind, size, root))
=============================================================================
