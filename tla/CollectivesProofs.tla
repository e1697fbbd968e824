-------------------------- MODULE CollectivesProofs --------------------------
(***************************************************************************)
(* Fragments are handed to matching in the order in which they were        *)
(* numbered, and none is stranded: for any number of ranks, any width of   *)
(* the sequence numbers and any program on top of the layer.  The          *)
(* collectives are such programs, with trees that are always the right     *)
(* ones, cached or not.                                                    *)
(***************************************************************************)
EXTENDS Collectives, TopologyProofs, SequenceTheorems, WellFoundedInduction

(* Two numbers less than a modulus apart with the same remainder are equal.*)
LEMMA ModUnique ==
    ASSUME NEW M \in Nat \ {0}, NEW a \in Nat, NEW b \in Nat,
           b <= a, a < b + M, a % M = b % M
    PROVE  a = b
<1> DEFINE qa == a \div M
           qb == b \div M
<1>1. /\ qa \in Nat /\ qb \in Nat
      /\ a = M * qa + (a % M) /\ b = M * qb + (b % M)
      /\ a % M \in 0 .. M - 1
    OBVIOUS
<1> HIDE DEF qa, qb
<1>2. M * qa - M * qb = a - b /\ M * qa \in Nat /\ M * qb \in Nat
    BY <1>1
<1>3. ~(qa > qb)
    <2> SUFFICES ASSUME qa >= qb + 1 PROVE FALSE
        BY <1>1
    <2>1. M * qa >= M * (qb + 1)
        BY <1>1
    <2>2. M * (qb + 1) = M * qb + M
        BY <1>1
    <2> QED
        BY <1>2, <2>1, <2>2
<1>4. ~(qb > qa)
    <2> SUFFICES ASSUME qb >= qa + 1 PROVE FALSE
        BY <1>1
    <2>1. M * qb >= M * (qa + 1)
        BY <1>1
    <2>2. M * (qa + 1) = M * qa + M
        BY <1>1
    <2> QED
        BY <1>2, <2>1, <2>2
<1> QED
    BY <1>1, <1>2, <1>3, <1>4

(* The next number, cut to the width, from the number that was cut.        *)
LEMMA ModNext ==
    ASSUME NEW M \in Nat \ {0}, NEW n \in Nat
    PROVE  ((n % M) + 1) % M = (n + 1) % M
<1> DEFINE q == n \div M
           k == n % M
<1>1. q \in Nat /\ k \in 0 .. M - 1 /\ n = M * q + k
    OBVIOUS
<1> HIDE DEF q, k
<1>2. CASE k + 1 < M
    <2>1. n + 1 = M * q + (k + 1) /\ k + 1 \in 0 .. M - 1
        BY <1>1, <1>2
    <2>2. (M * q + (k + 1)) % M = k + 1 /\ (k + 1) % M = k + 1
        BY <1>1, <2>1
    <2> QED
        BY <2>1, <2>2 DEF k
<1>3. CASE k + 1 = M
    <2>1. n + 1 = M * (q + 1)
        BY <1>1, <1>3
    <2>2. (M * (q + 1) + 0) % M = 0 /\ M % M = 0
        BY <1>1
    <2> QED
        BY <1>1, <1>3, <2>1, <2>2 DEF k
<1> QED
    BY <1>1, <1>2, <1>3

-----------------------------------------------------------------------------
(* Queues.                                                                 *)

IsQueue(q) == q \in Seq(Elements(q))

(* A queue after an element was appended.                                  *)
LEMMA AppendToQueue ==
    ASSUME NEW q, IsQueue(q), NEW f
    PROVE  /\ IsQueue(Append(q, f))
           /\ Len(q) \in Nat
           /\ Len(Append(q, f)) = Len(q) + 1
           /\ \A i \in 1 .. Len(q) : Append(q, f)[i] = q[i]
           /\ Append(q, f)[Len(q) + 1] = f
<1> DEFINE Elts == Elements(q) \cup {f}
           p == Append(q, f)
<1>1. q \in Seq(Elts) /\ f \in Elts
    BY DEF IsQueue
<1> HIDE DEF Elts
<1>2. /\ p \in Seq(Elts) /\ Len(q) \in Nat /\ Len(p) = Len(q) + 1
      /\ \A i \in 1 .. Len(q) : p[i] = q[i]
      /\ p[Len(q) + 1] = f
    BY <1>1
<1> HIDE DEF p
<1>3. p \in Seq(Elements(p))
    <2>1. p \in [1 .. Len(p) -> Elts] /\ Len(p) \in Nat
        BY <1>2
    <2>2. p \in [1 .. Len(p) -> Elements(p)]
        BY <2>1 DEF Elements
    <2> QED
        BY <2>1, <2>2, IsASeq
<1> QED
    BY <1>2, <1>3 DEF IsQueue, p

(* A queue after an element was taken out.                                 *)
LEMMA RemoveFromQueue ==
    ASSUME NEW q, IsQueue(q), NEW i \in 1 .. Len(q)
    PROVE  /\ IsQueue(RemoveAt(q, i))
           /\ Len(q) \in Nat
           /\ Len(RemoveAt(q, i)) = Len(q) - 1
           /\ \A j \in 1 .. Len(q) - 1 :
                 RemoveAt(q, i)[j] = IF j < i THEN q[j] ELSE q[j + 1]
<1> DEFINE Elts == Elements(q)
           a == SubSeq(q, 1, i - 1)
           b == SubSeq(q, i + 1, Len(q))
           p == RemoveAt(q, i)
<1>1. q \in Seq(Elts) /\ Len(q) \in Nat
    BY DEF IsQueue
<1> HIDE DEF Elts
<1>2. /\ a \in Seq(Elts) /\ Len(a) = i - 1
      /\ \A j \in 1 .. i - 1 : a[j] = q[j]
    BY <1>1
<1>3. /\ b \in Seq(Elts) /\ Len(b) = Len(q) - i
      /\ \A j \in 1 .. Len(q) - i : b[j] = q[j + i]
    BY <1>1
<1> HIDE DEF a, b
<1>4. p = a \o b
    BY DEF RemoveAt, a, b
<1> HIDE DEF p
<1>5. /\ p \in Seq(Elts) /\ Len(p) = Len(q) - 1
      /\ \A j \in 1 .. Len(q) - 1 : p[j] = IF j < i THEN a[j] ELSE b[j - (i - 1)]
    <2>1. /\ p \in Seq(Elts) /\ Len(p) = Len(a) + Len(b)
          /\ \A j \in 1 .. Len(a) + Len(b) :
                p[j] = IF j <= Len(a) THEN a[j] ELSE b[j - Len(a)]
        BY <1>2, <1>3, <1>4, ConcatProperties
    <2> QED
        BY <1>1, <1>2, <1>3, <2>1
<1>6. \A j \in 1 .. Len(q) - 1 : p[j] = IF j < i THEN q[j] ELSE q[j + 1]
    <2> SUFFICES ASSUME NEW j \in 1 .. Len(q) - 1
                 PROVE  p[j] = IF j < i THEN q[j] ELSE q[j + 1]
        OBVIOUS
    <2>1. CASE j < i
        BY <1>1, <1>2, <1>5, <2>1
    <2>2. CASE j >= i
        <3>1. j - (i - 1) \in 1 .. Len(q) - i /\ (j - (i - 1)) + i = j + 1
            BY <1>1, <2>2
        <3>2. b[j - (i - 1)] = q[(j - (i - 1)) + i]
            BY <1>3, <3>1
        <3> QED
            BY <1>1, <1>5, <2>2, <3>1, <3>2
    <2> QED
        BY <1>1, <2>1, <2>2
<1>7. p \in Seq(Elements(p))
    <2>1. p \in [1 .. Len(p) -> Elts] /\ Len(p) \in Nat
        BY <1>5
    <2>2. p \in [1 .. Len(p) -> Elements(p)]
        BY <2>1 DEF Elements
    <2> QED
        BY <2>1, <2>2, IsASeq
<1> QED
    BY <1>1, <1>5, <1>6, <1>7 DEF IsQueue, p

-----------------------------------------------------------------------------
(* The fragments of a pair of ranks: those in flight, N, and the early     *)
(* ones, q, when h of the n fragments were handed on and e is expected.    *)

InTurn(f, h, n) == f.nr \in h + 1 .. n /\ f.seq = f.nr % SeqModulus

(* Every number that was not handed on is on its way, in flight or kept,   *)
(* exactly once.                                                           *)
Numbered(N, q, h, n, e) ==
    /\ h \in Nat /\ n \in Nat /\ h <= n /\ IsQueue(q)
    /\ e = (h + 1) % SeqModulus
    /\ \A f \in N : InTurn(f, h, n)
    /\ \A i \in 1 .. Len(q) : InTurn(q[i], h, n)
    /\ \A f, g \in N : f.nr = g.nr => f = g
    /\ \A i, j \in 1 .. Len(q) : q[i].nr = q[j].nr => i = j
    /\ \A f \in N, i \in 1 .. Len(q) : f.nr # q[i].nr
    /\ \A m \in h + 1 .. n :
          (\E f \in N : f.nr = m) \/ (\E i \in 1 .. Len(q) : q[i].nr = m)

(* The fragment with the expected number is the next one, in the window.   *)
LEMMA NextInTurn ==
    ASSUME NEW h \in Nat, NEW n \in Nat, n - h <= SeqModulus,
           NEW f, InTurn(f, h, n), f.seq = (h + 1) % SeqModulus
    PROVE  f.nr = h + 1
<1>1. f.nr \in Nat /\ h + 1 <= f.nr /\ f.nr < (h + 1) + SeqModulus
    BY SeqAssumption DEF InTurn
<1>2. f.nr % SeqModulus = (h + 1) % SeqModulus
    BY DEF InTurn
<1> DEFINE a == f.nr
           b == h + 1
<1>3. a \in Nat /\ b \in Nat /\ b <= a /\ a < b + SeqModulus
    BY <1>1
<1>4. a % SeqModulus = b % SeqModulus
    BY <1>2
<1> HIDE DEF a, b
<1>5. a = b
    BY <1>3, <1>4, ModUnique, SeqAssumption
<1> QED
    BY <1>5 DEF a, b

(* A fragment arrives in its turn and is handed on.                        *)
LEMMA ArriveInTurn ==
    ASSUME NEW N, NEW q, NEW h, NEW n, NEW e, Numbered(N, q, h, n, e),
           n - h <= SeqModulus, NEW f \in N, f.seq = e
    PROVE  Numbered(N \ {f}, q, h + 1, n, (e + 1) % SeqModulus)
<1>0. /\ h \in Nat /\ n \in Nat /\ h + 1 \in Nat
      /\ e = (h + 1) % SeqModulus /\ InTurn(f, h, n)
    BY DEF Numbered
<1>1. f.nr = h + 1 /\ InTurn(f, h, n)
    BY <1>0, NextInTurn
<1>2. h + 1 <= n
    BY <1>0, <1>1 DEF InTurn
<1>3. (e + 1) % SeqModulus = ((h + 1) + 1) % SeqModulus
    BY <1>0, ModNext, SeqAssumption
<1>4. \A g \in N \ {f} : InTurn(g, h + 1, n)
    BY <1>1 DEF Numbered, InTurn
<1>5. \A i \in 1 .. Len(q) : InTurn(q[i], h + 1, n)
    <2> SUFFICES ASSUME NEW i \in 1 .. Len(q) PROVE InTurn(q[i], h + 1, n)
        OBVIOUS
    <2>1. InTurn(q[i], h, n) /\ q[i].nr # h + 1
        BY <1>1 DEF Numbered
    <2> QED
        BY <2>1 DEF Numbered, InTurn
<1>6. ASSUME NEW m \in (h + 1) + 1 .. n
      PROVE  (\E g \in N \ {f} : g.nr = m) \/ (\E i \in 1 .. Len(q) : q[i].nr = m)
    <2>1. m \in h + 1 .. n /\ m # f.nr
        BY <1>1 DEF Numbered
    <2> QED
        BY <2>1 DEF Numbered
<1> DEFINE g1 == h + 1
           e1 == (e + 1) % SeqModulus
<1>7. g1 \in Nat /\ g1 <= n /\ e1 = (g1 + 1) % SeqModulus
    BY <1>0, <1>2, <1>3
<1>8. /\ \A g \in N \ {f} : InTurn(g, g1, n)
      /\ \A i \in 1 .. Len(q) : InTurn(q[i], g1, n)
      /\ \A m \in g1 + 1 .. n :
            (\E g \in N \ {f} : g.nr = m) \/ (\E i \in 1 .. Len(q) : q[i].nr = m)
    BY <1>4, <1>5, <1>6
<1> HIDE DEF g1, e1
<1>9. Numbered(N \ {f}, q, g1, n, e1)
    BY <1>0, <1>7, <1>8 DEF Numbered
<1> QED
    BY <1>9 DEF g1, e1

(* A fragment that was kept is handed on in its turn.                      *)
LEMMA KeptInTurn ==
    ASSUME NEW N, NEW q, NEW h, NEW n, NEW e, Numbered(N, q, h, n, e),
           n - h <= SeqModulus, NEW k \in 1 .. Len(q), q[k].seq = e
    PROVE  Numbered(N, RemoveAt(q, k), h + 1, n, (e + 1) % SeqModulus)
<1> DEFINE p == RemoveAt(q, k)
           old(j) == IF j < k THEN j ELSE j + 1
<1>0. /\ h \in Nat /\ n \in Nat /\ h + 1 \in Nat /\ IsQueue(q)
      /\ e = (h + 1) % SeqModulus /\ InTurn(q[k], h, n)
    BY DEF Numbered
<1>1. q[k].nr = h + 1 /\ InTurn(q[k], h, n)
    BY <1>0, NextInTurn
<1>2. h + 1 <= n
    BY <1>0, <1>1 DEF InTurn
<1>3. (e + 1) % SeqModulus = ((h + 1) + 1) % SeqModulus
    BY <1>0, ModNext, SeqAssumption
<1>4. /\ IsQueue(p) /\ Len(q) \in Nat /\ Len(p) = Len(q) - 1
      /\ \A j \in 1 .. Len(p) : p[j] = q[old(j)]
    <2>1. /\ IsQueue(p) /\ Len(q) \in Nat /\ Len(p) = Len(q) - 1
          /\ \A j \in 1 .. Len(q) - 1 : p[j] = IF j < k THEN q[j] ELSE q[j + 1]
        BY <1>0, RemoveFromQueue
    <2> HIDE DEF p
    <2> QED
        BY <2>1
<1> HIDE DEF p
<1>5. \A j \in 1 .. Len(p) : old(j) \in 1 .. Len(q) /\ old(j) # k
    BY <1>4
<1>6. \A i, j \in 1 .. Len(p) : old(i) = old(j) => i = j
    BY <1>4
<1>7. ASSUME NEW i \in 1 .. Len(q), i # k
      PROVE  \E j \in 1 .. Len(p) : old(j) = i
    <2>1. CASE i < k
        <3>1. i \in 1 .. Len(p) /\ old(i) = i
            BY <1>4, <2>1
        <3> QED
            BY <3>1
    <2>2. CASE i > k
        <3>1. i - 1 \in 1 .. Len(p) /\ old(i - 1) = i
            BY <1>4, <2>2
        <3> QED
            BY <3>1
    <2> QED
        BY <1>4, <1>7, <2>1, <2>2
<1> HIDE DEF old
<1>8. ASSUME NEW f \in N PROVE InTurn(f, h + 1, n)
    <2>1. InTurn(f, h, n) /\ f.nr # h + 1
        BY <1>1 DEF Numbered
    <2> QED
        BY <2>1 DEF Numbered, InTurn
<1>9. ASSUME NEW j \in 1 .. Len(p) PROVE InTurn(p[j], h + 1, n)
    <2>1. InTurn(q[old(j)], h, n) /\ q[old(j)].nr # h + 1 /\ p[j] = q[old(j)]
        BY <1>1, <1>4, <1>5 DEF Numbered
    <2> QED
        BY <2>1 DEF Numbered, InTurn
<1>10. ASSUME NEW i \in 1 .. Len(p), NEW j \in 1 .. Len(p), p[i].nr = p[j].nr
       PROVE  i = j
    <2>1. old(i) \in 1 .. Len(q) /\ old(j) \in 1 .. Len(q)
        BY <1>5
    <2>2. q[old(i)].nr = q[old(j)].nr
        BY <1>4, <1>10
    <2>3. old(i) = old(j)
        BY <2>1, <2>2 DEF Numbered
    <2> QED
        BY <1>6, <2>3
<1>11. \A f \in N, j \in 1 .. Len(p) : f.nr # p[j].nr
    BY <1>4, <1>5 DEF Numbered
<1>12. ASSUME NEW m \in (h + 1) + 1 .. n
       PROVE  (\E f \in N : f.nr = m) \/ (\E j \in 1 .. Len(p) : p[j].nr = m)
    <2>1. m \in h + 1 .. n /\ m # q[k].nr
        BY <1>1 DEF Numbered
    <2>2. (\E f \in N : f.nr = m) \/ (\E i \in 1 .. Len(q) : q[i].nr = m)
        BY <2>1 DEF Numbered
    <2> QED
        BY <1>4, <1>7, <2>1, <2>2
<1> DEFINE g1 == h + 1
           e1 == (e + 1) % SeqModulus
<1>13. g1 \in Nat /\ g1 <= n /\ e1 = (g1 + 1) % SeqModulus
    BY <1>0, <1>2, <1>3
<1>14. /\ \A f \in N : InTurn(f, g1, n)
       /\ \A j \in 1 .. Len(p) : InTurn(p[j], g1, n)
       /\ \A m \in g1 + 1 .. n :
             (\E f \in N : f.nr = m) \/ (\E j \in 1 .. Len(p) : p[j].nr = m)
    BY <1>8, <1>9, <1>12
<1> HIDE DEF g1, e1
<1>15. Numbered(N, p, g1, n, e1)
    BY <1>0, <1>4, <1>10, <1>11, <1>13, <1>14 DEF Numbered
<1> QED
    BY <1>15 DEF g1, e1, p

(* A fragment arrives early and is kept.                                   *)
LEMMA ArriveEarly ==
    ASSUME NEW N, NEW q, NEW h, NEW n, NEW e, Numbered(N, q, h, n, e), NEW f \in N
    PROVE  Numbered(N \ {f}, Append(q, f), h, n, e)
<1> DEFINE p == Append(q, f)
<1>1. /\ IsQueue(p) /\ Len(q) \in Nat /\ Len(p) = Len(q) + 1
      /\ \A i \in 1 .. Len(q) : p[i] = q[i]
      /\ p[Len(q) + 1] = f
    BY AppendToQueue DEF Numbered
<1> HIDE DEF p
<1>2. \A i \in 1 .. Len(p) : i \in 1 .. Len(q) \/ i = Len(q) + 1
    BY <1>1
<1>3. \A i \in 1 .. Len(p) : InTurn(p[i], h, n)
    BY <1>1, <1>2 DEF Numbered
<1>4. \A i, j \in 1 .. Len(p) : p[i].nr = p[j].nr => i = j
    BY <1>1, <1>2 DEF Numbered
<1>5. \A g \in N \ {f}, i \in 1 .. Len(p) : g.nr # p[i].nr
    BY <1>1, <1>2 DEF Numbered
<1>6. ASSUME NEW m \in h + 1 .. n
      PROVE  (\E g \in N \ {f} : g.nr = m) \/ (\E i \in 1 .. Len(p) : p[i].nr = m)
    <2>1. CASE m = f.nr
        BY <1>1, <2>1
    <2>2. CASE \E g \in N : g.nr = m /\ m # f.nr
        BY <2>2
    <2>3. CASE \E i \in 1 .. Len(q) : q[i].nr = m
        BY <1>1, <2>3
    <2> QED
        BY <2>1, <2>2, <2>3 DEF Numbered
<1> QED
    BY <1>1, <1>3, <1>4, <1>5, <1>6 DEF Numbered, p

(* A fragment is sent, with the next number.                               *)
LEMMA SendNext ==
    ASSUME NEW N, NEW q, NEW h, NEW n, NEW e, Numbered(N, q, h, n, e),
           NEW f, f.nr = n + 1, f.seq = (n + 1) % SeqModulus
    PROVE  Numbered(N \cup {f}, q, h, n + 1, e)
<1>1. InTurn(f, h, n + 1)
    BY DEF Numbered, InTurn
<1>2. \A g : InTurn(g, h, n) => InTurn(g, h, n + 1) /\ g.nr # n + 1
    BY DEF Numbered, InTurn
<1>3. ASSUME NEW m \in h + 1 .. n + 1
      PROVE  (\E g \in N \cup {f} : g.nr = m) \/ (\E i \in 1 .. Len(q) : q[i].nr = m)
    <2>1. m \in h + 1 .. n \/ m = n + 1
        BY DEF Numbered
    <2> QED
        BY <2>1 DEF Numbered
<1>4. h <= n + 1 /\ n + 1 \in Nat
    BY DEF Numbered
<1>5. /\ \A g \in N \cup {f} : InTurn(g, h, n + 1)
      /\ \A i \in 1 .. Len(q) : InTurn(q[i], h, n + 1)
    BY <1>1, <1>2 DEF Numbered
<1>6. \A g, k \in N \cup {f} : g.nr = k.nr => g = k
    BY <1>2 DEF Numbered
<1>7. \A g \in N \cup {f}, i \in 1 .. Len(q) : g.nr # q[i].nr
    BY <1>2 DEF Numbered
<1> QED
    BY <1>3, <1>4, <1>5, <1>6, <1>7 DEF Numbered

-----------------------------------------------------------------------------
(* The shape of the state.                                                 *)

PerPair(x) == DOMAIN x = Procs /\ \A r \in Procs : DOMAIN x[r] = Procs

Shape ==
    /\ PerPair(send_sequence) /\ PerPair(expected_sequence)
    /\ PerPair(frags_cant_match) /\ PerPair(handed)
    /\ matching \in [Procs -> Procs \cup {Nobody}]
    /\ \A f \in net : f.src \in Procs /\ f.dst \in Procs
    /\ \A r, s \in Procs :
          /\ IsQueue(frags_cant_match[r][s])
          /\ \A i \in 1 .. Len(frags_cant_match[r][s]) :
                frags_cant_match[r][s][i].src = s

(* Nobody is not a rank.                                                   *)
LEMMA NobodyNoRank == Nobody \notin Procs
    BY ProcsAssumption DEF Nobody

(* What a fragment that arrives does to the order of its pair.             *)
ArriveStep(r, f) ==
    /\ f \in net /\ f.dst = r /\ matching[r] = Nobody
    /\ net' = net \ {f} /\ send_sequence' = send_sequence
    /\ \/ /\ f.seq = expected_sequence[r][f.src]
          /\ expected_sequence' = [expected_sequence EXCEPT ![r][f.src] =
                (expected_sequence[r][f.src] + 1) % SeqModulus]
          /\ handed' = [handed EXCEPT ![r][f.src] = handed[r][f.src] + 1]
          /\ matching' = [matching EXCEPT ![r] =
                IF frags_cant_match[r][f.src] = <<>> THEN Nobody ELSE f.src]
          /\ frags_cant_match' = frags_cant_match
       \/ /\ f.seq # expected_sequence[r][f.src]
          /\ frags_cant_match' = [frags_cant_match EXCEPT ![r][f.src] =
                Append(frags_cant_match[r][f.src], f)]
          /\ expected_sequence' = expected_sequence
          /\ handed' = handed /\ matching' = matching

(* What a round over the early fragments does to it.                       *)
EarlyStep(r, s, i) ==
    /\ matching[r] = s /\ s # Nobody
    /\ i \in Ready(r, s)
    /\ net' = net /\ send_sequence' = send_sequence
    /\ frags_cant_match' = [frags_cant_match EXCEPT ![r][s] =
          RemoveAt(frags_cant_match[r][s], i)]
    /\ expected_sequence' = [expected_sequence EXCEPT ![r][s] =
          (expected_sequence[r][s] + 1) % SeqModulus]
    /\ handed' = [handed EXCEPT ![r][s] = handed[r][s] + 1]
    /\ matching' = [matching EXCEPT ![r] =
          IF RemoveAt(frags_cant_match[r][s], i) = <<>> THEN Nobody ELSE s]

EarlyEnd(r, s) ==
    /\ matching[r] = s /\ s # Nobody /\ Ready(r, s) = {}
    /\ matching' = [matching EXCEPT ![r] = Nobody]
    /\ UNCHANGED <<send_sequence, net, expected_sequence, frags_cant_match, handed>>

SendStep(r, sends, long, b) ==
    /\ GoodSends(sends)
    /\ Isend(r, sends, long, b)
    /\ UNCHANGED <<expected_sequence, frags_cant_match, matching, handed>>

(* A set of places has a first one.                                        *)
LEMMA FirstPlace ==
    ASSUME NEW Rs, Rs # {}, Rs \subseteq Nat
    PROVE  (CHOOSE i \in Rs : \A j \in Rs : i <= j) \in Rs
<1> DEFINE Less == OpToRel(<, Nat)
<1>1. \A x, y \in Nat : <<y, x>> \in Less <=> y < x
    BY DEF OpToRel
<1>2. IsWellFoundedOn(Less, Nat)
    BY NatLessThanWellFounded
<1> HIDE DEF Less
<1>3. \E i \in Rs : \A j \in Rs : ~(<<j, i>> \in Less)
    BY <1>2, WFMin
<1>4. PICK i \in Rs : \A j \in Rs : ~(<<j, i>> \in Less)
    BY <1>3
<1>5. ASSUME NEW j \in Rs PROVE i <= j
    <2>1. i \in Nat /\ j \in Nat /\ ~(<<j, i>> \in Less)
        BY <1>4
    <2>2. ~(j < i)
        BY <1>1, <2>1
    <2> QED
        BY <2>1, <2>2
<1> QED
    BY <1>5

-----------------------------------------------------------------------------
(* The steps of the layer, as far as the order of the fragments goes.      *)

(* An arrival.                                                             *)
LEMMA ArriveIsStep ==
    ASSUME NEW r, NEW f, Arrive(r, f)
    PROVE  ArriveStep(r, f)
    BY Zenon DEF Arrive, Hand, ArriveStep

(* A round over the early fragments.                                       *)
LEMMA EarlyIsStep ==
    ASSUME NEW r \in Procs, MatchEarly(r), Shape
    PROVE  \E s \in Procs : EarlyEnd(r, s) \/ \E i : EarlyStep(r, s, i)
<1> DEFINE s == matching[r]
           first == CHOOSE i \in Ready(r, s) : \A j \in Ready(r, s) : i <= j
           rest == RemoveAt(frags_cant_match[r][s], first)
<1>1. s \in Procs /\ s # Nobody
    BY DEF Shape, MatchEarly
<1>2. CASE Ready(r, s) = {}
    <2>1. EarlyEnd(r, s)
        BY <1>1, <1>2 DEF MatchEarly, EarlyEnd
    <2> QED
        BY <1>1, <2>1
<1>3. CASE Ready(r, s) # {}
    <2>1. Ready(r, s) \subseteq Nat
        <3>1. Len(frags_cant_match[r][s]) \in Nat
            BY <1>1 DEF Shape, IsQueue
        <3> QED
            BY <3>1 DEF Ready
    <2>2. first \in Ready(r, s)
        BY <1>3, <2>1, FirstPlace
    <2>3. frags_cant_match[r][s][first].src = s
        BY <1>1, <2>2 DEF Shape, Ready
    <2>4. /\ net' = net /\ send_sequence' = send_sequence
          /\ frags_cant_match' = [frags_cant_match EXCEPT ![r][s] = rest]
          /\ Hand(r, frags_cant_match[r][s][first])
          /\ matching' = [matching EXCEPT ![r] = IF rest = <<>> THEN Nobody ELSE s]
        BY <1>3, Zenon DEF MatchEarly
    <2> HIDE DEF first, s
    <2>5. /\ expected_sequence' = [expected_sequence EXCEPT ![r][s] =
                (expected_sequence[r][s] + 1) % SeqModulus]
          /\ handed' = [handed EXCEPT ![r][s] = handed[r][s] + 1]
        BY <2>3, <2>4, Zenon DEF Hand
    <2>6. EarlyStep(r, s, first)
        BY <1>1, <2>2, <2>4, <2>5 DEF EarlyStep, s
    <2> QED
        BY <1>1, <2>6
<1> QED
    BY <1>2, <1>3

(* Posting receives and sends.                                             *)
LEMMA PostIsStep ==
    ASSUME NEW r, NEW recvs, NEW sends, NEW long,
           GoodSends(sends), Post(r, recvs, sends, long)
    PROVE  \E b : SendStep(r, sends, long, b)
    BY Zenon DEF Post, SendStep

OrderStep ==
    \E r \in Procs :
        \/ \E f : ArriveStep(r, f)
        \/ \E s \in Procs : EarlyEnd(r, s) \/ \E i : EarlyStep(r, s, i)
        \/ \E sends, long, b : SendStep(r, sends, long, b)
        \/ UNCHANGED orderVars

(* Every step of the layer is one of these.                                *)
LEMMA NextIsOrderStep ==
    ASSUME [PmlNext]_pmlVars, Shape
    PROVE  OrderStep \/ UNCHANGED orderVars
<1>1. CASE UNCHANGED pmlVars
    BY <1>1 DEF pmlVars
<1>2. ASSUME NEW r \in Procs, Progress(r)
      PROVE  OrderStep
    <2>1. CASE \E f \in net : Arrive(r, f)
        BY <2>1, ArriveIsStep, Zenon DEF OrderStep
    <2>2. CASE MatchEarly(r)
        BY <2>2, EarlyIsStep, Zenon DEF OrderStep
    <2>3. CASE \E a \in ctl : RecvAck(r, a) \/ RecvFrag(r, a)
        <3>1. UNCHANGED orderVars
            BY <2>3, Zenon DEF RecvAck, RecvFrag
        <3> QED
            BY <3>1, Zenon DEF OrderStep
    <2> QED
        BY <1>2, <2>1, <2>2, <2>3, Zenon DEF Progress
<1>3. ASSUME NEW r \in Procs, NEW recvs, NEW sends, NEW long,
             GoodSends(sends), Post(r, recvs, sends, long)
      PROVE  OrderStep
    BY <1>3, PostIsStep, Zenon DEF OrderStep
<1>4. ASSUME NEW r \in Procs, UNCHANGED <<orderVars, queueVars, ctl, pending>>
      PROVE  UNCHANGED orderVars
    BY <1>4
<1> QED
    BY <1>1, <1>2, <1>3, <1>4, Zenon DEF PmlNext
-----------------------------------------------------------------------------
(* The shape is kept.                                                      *)

(* By an arrival.                                                          *)
LEMMA ArriveShape ==
    ASSUME Shape, NEW r \in Procs, NEW f, ArriveStep(r, f)
    PROVE  Shape'
<1> DEFINE s == f.src
           q == frags_cant_match[r][s]
<1>1. s \in Procs /\ f \in net
    BY DEF Shape, ArriveStep
<1>2. /\ PerPair(send_sequence')
      /\ \A g \in net' : g.src \in Procs /\ g.dst \in Procs
    BY DEF Shape, ArriveStep
<1>3. CASE f.seq = expected_sequence[r][s]
    <2>1. PerPair(expected_sequence') /\ PerPair(handed')
        BY <1>1, <1>3 DEF Shape, ArriveStep, PerPair
    <2>2. matching' \in [Procs -> Procs \cup {Nobody}]
        BY <1>1, <1>3 DEF Shape, ArriveStep
    <2>3. frags_cant_match' = frags_cant_match
        BY <1>3 DEF ArriveStep
    <2> QED
        BY <1>2, <2>1, <2>2, <2>3 DEF Shape
<1>4. CASE f.seq # expected_sequence[r][s]
    <2>1. /\ expected_sequence' = expected_sequence /\ handed' = handed
          /\ matching' = matching
          /\ frags_cant_match' = [frags_cant_match EXCEPT ![r][s] = Append(q, f)]
        BY <1>4 DEF ArriveStep
    <2>2. /\ IsQueue(q) /\ \A i \in 1 .. Len(q) : q[i].src = s
          /\ PerPair(frags_cant_match)
        BY <1>1 DEF Shape
    <2>3. /\ IsQueue(Append(q, f)) /\ Len(q) \in Nat
          /\ Len(Append(q, f)) = Len(q) + 1
          /\ \A i \in 1 .. Len(q) : Append(q, f)[i] = q[i]
          /\ Append(q, f)[Len(q) + 1] = f
        BY <2>2, AppendToQueue
    <2> DEFINE p == Append(q, f)
    <2>0. frags_cant_match' = [frags_cant_match EXCEPT ![r][s] = p]
        BY <2>1
    <2> HIDE DEF p, s
    <2>4. /\ PerPair(frags_cant_match') /\ frags_cant_match'[r][s] = p
          /\ \A a, b \in Procs : a # r \/ b # s =>
                frags_cant_match'[a][b] = frags_cant_match[a][b]
        BY <1>1, <2>0, <2>2 DEF PerPair
    <2> HIDE DEF q
    <2>5. \A i \in 1 .. Len(p) : p[i].src = s
        BY <2>2, <2>3 DEF p, s
    <2>6. ASSUME NEW a \in Procs, NEW b \in Procs
          PROVE  /\ IsQueue(frags_cant_match'[a][b])
                 /\ \A i \in 1 .. Len(frags_cant_match'[a][b]) :
                       frags_cant_match'[a][b][i].src = b
        <3>1. CASE a = r /\ b = s
            BY <2>3, <2>4, <2>5, <3>1 DEF p
        <3>2. CASE a # r \/ b # s
            BY <2>4, <3>2 DEF Shape
        <3> QED
            BY <3>1, <3>2
    <2> QED
        BY <1>2, <2>1, <2>4, <2>6 DEF Shape
<1> QED
    BY <1>3, <1>4

(* By a round over the early fragments.                                    *)
LEMMA EarlyShape ==
    ASSUME Shape, NEW r \in Procs, NEW s \in Procs, NEW k, EarlyStep(r, s, k)
    PROVE  Shape'
<1> DEFINE q == frags_cant_match[r][s]
           p == RemoveAt(q, k)
<1>1. PerPair(expected_sequence') /\ PerPair(handed') /\ PerPair(send_sequence')
    BY DEF Shape, EarlyStep, PerPair
<1>2. /\ \A g \in net' : g.src \in Procs /\ g.dst \in Procs
      /\ matching' \in [Procs -> Procs \cup {Nobody}]
    BY DEF Shape, EarlyStep
<1>3. /\ IsQueue(q) /\ k \in 1 .. Len(q) /\ PerPair(frags_cant_match)
      /\ \A i \in 1 .. Len(q) : q[i].src = s
      /\ frags_cant_match' = [frags_cant_match EXCEPT ![r][s] = p]
    BY DEF Shape, EarlyStep, Ready
<1>4. /\ IsQueue(p) /\ Len(q) \in Nat /\ Len(p) = Len(q) - 1
      /\ \A j \in 1 .. Len(q) - 1 : p[j] = IF j < k THEN q[j] ELSE q[j + 1]
    BY <1>3, RemoveFromQueue
<1> HIDE DEF p
<1>5. /\ PerPair(frags_cant_match') /\ frags_cant_match'[r][s] = p
      /\ \A a, b \in Procs : a # r \/ b # s =>
            frags_cant_match'[a][b] = frags_cant_match[a][b]
    BY <1>3 DEF PerPair
<1> HIDE DEF q
<1>6. \A i \in 1 .. Len(p) : p[i].src = s
    <2> SUFFICES ASSUME NEW i \in 1 .. Len(p) PROVE p[i].src = s
        OBVIOUS
    <2>1. i \in 1 .. Len(q) /\ i + 1 \in 1 .. Len(q) /\ i \in 1 .. Len(q) - 1
        BY <1>3, <1>4
    <2>2. p[i] = q[i] \/ p[i] = q[i + 1]
        BY <1>4, <2>1
    <2> QED
        BY <1>3, <2>1, <2>2
<1>7. ASSUME NEW a \in Procs, NEW b \in Procs
      PROVE  /\ IsQueue(frags_cant_match'[a][b])
             /\ \A i \in 1 .. Len(frags_cant_match'[a][b]) :
                   frags_cant_match'[a][b][i].src = b
    <2>1. CASE a = r /\ b = s
        BY <1>4, <1>5, <1>6, <2>1
    <2>2. CASE a # r \/ b # s
        BY <1>5, <2>2 DEF Shape
    <2> QED
        BY <2>1, <2>2
<1> QED
    BY <1>1, <1>2, <1>5, <1>7 DEF Shape

(* By sending.                                                             *)
LEMMA SendShape ==
    ASSUME Shape, NEW r \in Procs, NEW sends, NEW long, NEW b,
           SendStep(r, sends, long, b)
    PROVE  Shape'
<1>1. PerPair(send_sequence')
    BY DEF Shape, SendStep, Isend, PerPair
<1>2. \A f \in net' : f.src \in Procs /\ f.dst \in Procs
    <2>1. \A s \in sends : /\ Frag(r, s, long, b).src = r
                           /\ Frag(r, s, long, b).dst = s.dst
        BY DEF Frag
    <2>2. net' = net \cup {Frag(r, s, long, b) : s \in sends}
        BY DEF SendStep, Isend
    <2>3. \A s \in sends : s.dst \in Procs
        BY DEF SendStep, GoodSends
    <2> QED
        BY <2>1, <2>2, <2>3 DEF Shape
<1> QED
    BY <1>1, <1>2 DEF Shape, SendStep

(* By every step.                                                          *)
LEMMA ShapeKept ==
    ASSUME Shape, [PmlNext]_pmlVars
    PROVE  Shape'
<1>1. OrderStep \/ UNCHANGED orderVars
    BY NextIsOrderStep
<1>2. ASSUME UNCHANGED orderVars PROVE Shape'
    BY <1>2 DEF Shape, orderVars
<1>3. ASSUME NEW r \in Procs, NEW s \in Procs, EarlyEnd(r, s) PROVE Shape'
    BY <1>3 DEF Shape, EarlyEnd
<1> QED
    BY <1>1, <1>2, <1>3, ArriveShape, EarlyShape, SendShape, Zenon DEF OrderStep

(* The layer starts in that shape.                                         *)
LEMMA ShapeInit ==
    ASSUME PmlInit PROVE Shape
<1>1. IsQueue(<<>>) /\ Len(<<>>) = 0
    BY DEF IsQueue, Elements
<1>2. /\ PerPair(send_sequence) /\ PerPair(expected_sequence)
      /\ PerPair(frags_cant_match) /\ PerPair(handed)
    BY DEF PmlInit, PerPeer, PerPair
<1>3. \A r, s \in Procs : frags_cant_match[r][s] = <<>>
    BY DEF PmlInit, PerPeer
<1>4. /\ matching \in [Procs -> Procs \cup {Nobody}]
      /\ net = {}
    BY DEF PmlInit
<1> QED
    BY <1>1, <1>2, <1>3, <1>4 DEF Shape
-----------------------------------------------------------------------------
(* No early fragment is stranded.                                          *)

(* After an arrival.                                                       *)
LEMMA ArriveNoneStranded ==
    ASSUME Shape, NoneStranded, NEW r \in Procs, NEW f, ArriveStep(r, f)
    PROVE  NoneStranded'
<1> SUFFICES ASSUME NEW a \in Procs, NEW b \in Procs,
                    NEW i \in 1 .. Len(frags_cant_match'[a][b]),
                    frags_cant_match'[a][b][i].seq = expected_sequence'[a][b]
             PROVE  matching'[a] = b
    BY DEF NoneStranded, Ready
<1> DEFINE s == f.src
           q == frags_cant_match[r][s]
<1>1. s \in Procs /\ matching[r] = Nobody /\ Nobody \notin Procs
    BY NobodyNoRank DEF Shape, ArriveStep
<1>2. CASE (a # r \/ b # s) /\ frags_cant_match'[a][b] = frags_cant_match[a][b]
           /\ expected_sequence'[a][b] = expected_sequence[a][b]
    <2>1. i \in Ready(a, b)
        BY <1>2 DEF Ready
    <2>2. matching[a] = b
        BY <2>1 DEF NoneStranded
    <2>3. a # r
        BY <1>1, <2>2
    <2>4. matching'[a] = matching[a]
        BY <2>3 DEF Shape, ArriveStep
    <2> QED
        BY <2>2, <2>4
<1>3. CASE f.seq = expected_sequence[r][s]
    <2>1. /\ frags_cant_match' = frags_cant_match
          /\ expected_sequence' = [expected_sequence EXCEPT ![r][s] =
                (expected_sequence[r][s] + 1) % SeqModulus]
          /\ matching' = [matching EXCEPT ![r] = IF q = <<>> THEN Nobody ELSE s]
        BY <1>3 DEF ArriveStep
    <2>2. CASE a = r /\ b = s
        <3>1. q # <<>>
            BY <2>1, <2>2
        <3> QED
            BY <2>1, <2>2, <3>1 DEF Shape
    <2>3. CASE a # r \/ b # s
        <3>1. expected_sequence'[a][b] = expected_sequence[a][b]
            BY <1>1, <2>1, <2>3 DEF Shape, PerPair
        <3> QED
            BY <1>2, <2>1, <2>3, <3>1
    <2> QED
        BY <2>2, <2>3
<1>4. CASE f.seq # expected_sequence[r][s]
    <2>1. /\ expected_sequence' = expected_sequence
          /\ frags_cant_match' = [frags_cant_match EXCEPT ![r][s] = Append(q, f)]
        BY <1>4 DEF ArriveStep
    <2>2. CASE a = r /\ b = s
        <3>1. frags_cant_match'[a][b] = Append(q, f) /\ IsQueue(q)
            BY <1>1, <2>1, <2>2 DEF Shape, PerPair
        <3>2. /\ Len(q) \in Nat /\ Len(Append(q, f)) = Len(q) + 1
              /\ \A j \in 1 .. Len(q) : Append(q, f)[j] = q[j]
              /\ Append(q, f)[Len(q) + 1] = f
            BY <3>1, AppendToQueue
        <3>3. i \in 1 .. Len(q) /\ q[i].seq = expected_sequence[r][s]
            BY <1>4, <2>1, <2>2, <3>1, <3>2
        <3>4. i \in Ready(r, s)
            BY <3>3 DEF Ready
        <3> QED
            BY <1>1, <3>4 DEF NoneStranded
    <2>3. CASE a # r \/ b # s
        <3>1. frags_cant_match'[a][b] = frags_cant_match[a][b]
            BY <1>1, <2>1, <2>3 DEF Shape, PerPair
        <3> QED
            BY <1>2, <2>1, <2>3, <3>1
    <2> QED
        BY <2>2, <2>3
<1> QED
    BY <1>3, <1>4

(* After a round over the early fragments.                                 *)
LEMMA EarlyNoneStranded ==
    ASSUME Shape, NoneStranded, NEW r \in Procs, NEW s \in Procs,
           EarlyEnd(r, s) \/ \E k : EarlyStep(r, s, k)
    PROVE  NoneStranded'
<1> SUFFICES ASSUME NEW a \in Procs, NEW b \in Procs,
                    NEW i \in 1 .. Len(frags_cant_match'[a][b]),
                    frags_cant_match'[a][b][i].seq = expected_sequence'[a][b]
             PROVE  matching'[a] = b
    BY DEF NoneStranded, Ready
<1>1. matching[r] = s
    BY DEF EarlyEnd, EarlyStep
<1>2. CASE a # r \/ b # s
    <2>1. /\ frags_cant_match'[a][b] = frags_cant_match[a][b]
          /\ expected_sequence'[a][b] = expected_sequence[a][b]
        BY <1>2 DEF EarlyEnd, EarlyStep, Shape, PerPair
    <2>2. i \in Ready(a, b)
        BY <2>1 DEF Ready
    <2>3. matching[a] = b
        BY <2>2 DEF NoneStranded
    <2>4. a # r
        BY <1>1, <1>2, <2>3
    <2>5. matching'[a] = matching[a]
        BY <2>4 DEF EarlyEnd, EarlyStep, Shape
    <2> QED
        BY <2>3, <2>5
<1>3. CASE a = r /\ b = s
    <2>1. CASE EarlyEnd(r, s)
        <3>1. i \in Ready(r, s)
            BY <1>3, <2>1 DEF EarlyEnd, Ready
        <3> QED
            BY <2>1, <3>1 DEF EarlyEnd
    <2>2. ASSUME NEW k, EarlyStep(r, s, k) PROVE matching'[a] = b
        <3> DEFINE p == RemoveAt(frags_cant_match[r][s], k)
        <3>1. /\ frags_cant_match' = [frags_cant_match EXCEPT ![r][s] = p]
              /\ matching' = [matching EXCEPT ![r] = IF p = <<>> THEN Nobody ELSE s]
            BY <2>2 DEF EarlyStep
        <3> HIDE DEF p
        <3>2. frags_cant_match'[r][s] = p
            BY <3>1 DEF Shape, PerPair
        <3>3. p # <<>>
            BY <1>3, <3>2
        <3> QED
            BY <1>3, <3>1, <3>3 DEF Shape
    <2> QED
        BY <2>1, <2>2
<1> QED
    BY <1>2, <1>3

(* After every step.                                                       *)
LEMMA NoneStrandedKept ==
    ASSUME Shape, NoneStranded, [PmlNext]_pmlVars
    PROVE  NoneStranded'
<1>1. OrderStep \/ UNCHANGED orderVars
    BY NextIsOrderStep
<1>2. ASSUME UNCHANGED <<expected_sequence, frags_cant_match, matching>>
      PROVE  NoneStranded'
    BY <1>2 DEF NoneStranded, Ready
<1>3. ASSUME NEW r \in Procs, NEW sends, NEW long, NEW b,
             SendStep(r, sends, long, b)
      PROVE  NoneStranded'
    BY <1>2, <1>3, Zenon DEF SendStep
<1>4. ASSUME UNCHANGED orderVars PROVE NoneStranded'
    BY <1>2, <1>4 DEF orderVars
<1> QED
    BY <1>1, <1>3, <1>4, ArriveNoneStranded, EarlyNoneStranded, Zenon DEF OrderStep

(* Whatever the network does and the program posts, an early fragment      *)
(* whose number has become the expected one is handed on by the loop of    *)
(* mca_pml_ob1_recv_frag_match that runs at that moment: none is left in   *)
(* frags_cant_match with nobody to look at it again.  This holds for any   *)
(* number of ranks and any width of the numbers, outside the window too.   *)
THEOREM EarlyFragmentsHandedOn ==
    PmlInit /\ [][PmlNext]_pmlVars => []NoneStranded
<1>1. PmlInit => Shape
    BY ShapeInit
<1>2. PmlInit => NoneStranded
    BY DEF PmlInit, PerPeer, NoneStranded, Ready
<1>3. Shape /\ NoneStranded /\ [PmlNext]_pmlVars => (Shape /\ NoneStranded)'
    BY ShapeKept, NoneStrandedKept, Zenon
<1> QED
    BY <1>1, <1>2, <1>3, PTL
-----------------------------------------------------------------------------
(* The fragments keep their order.                                         *)

Flight(N, s, r) == {f \in N : f.src = s /\ f.dst = r}

AllNumbered ==
    \A r, s \in Procs :
        Numbered(Flight(net, s, r), frags_cant_match[r][s], handed[r][s],
                 send_sequence[s][r], expected_sequence[r][s])

(* A pair nothing happens to.                                              *)
LEMMA PairUntouched ==
    ASSUME AllNumbered, NEW r \in Procs, NEW s \in Procs,
           Flight(net', s, r) = Flight(net, s, r),
           frags_cant_match'[r][s] = frags_cant_match[r][s],
           handed'[r][s] = handed[r][s],
           send_sequence'[s][r] = send_sequence[s][r],
           expected_sequence'[r][s] = expected_sequence[r][s]
    PROVE  Numbered(Flight(net', s, r), frags_cant_match'[r][s], handed'[r][s],
                    send_sequence'[s][r], expected_sequence'[r][s])
    BY DEF AllNumbered

(* An arrival.                                                             *)
LEMMA ArriveNumbered ==
    ASSUME Shape, Window, AllNumbered, NEW r \in Procs, NEW f, ArriveStep(r, f)
    PROVE  AllNumbered'
<1> SUFFICES ASSUME NEW a \in Procs, NEW b \in Procs
             PROVE  Numbered(Flight(net', b, a), frags_cant_match'[a][b],
                             handed'[a][b], send_sequence'[b][a],
                             expected_sequence'[a][b])
    BY DEF AllNumbered
<1> DEFINE s == f.src
           N == Flight(net, s, r)
           q == frags_cant_match[r][s]
           h == handed[r][s]
           n == send_sequence[s][r]
           e == expected_sequence[r][s]
<1>1. s \in Procs /\ f \in net /\ f.dst = r /\ net' = net \ {f}
      /\ send_sequence' = send_sequence
    BY DEF Shape, ArriveStep
<1>2. Flight(net', s, r) = N \ {f} /\ f \in N
    BY <1>1 DEF Flight
<1>3. Numbered(N, q, h, n, e) /\ n - h <= SeqModulus
    BY <1>1 DEF AllNumbered, Window
<1>4. CASE a # r \/ b # s
    <2>1. Flight(net', b, a) = Flight(net, b, a)
        BY <1>1, <1>4 DEF Flight
    <2>2. /\ frags_cant_match'[a][b] = frags_cant_match[a][b]
          /\ handed'[a][b] = handed[a][b]
          /\ expected_sequence'[a][b] = expected_sequence[a][b]
        BY <1>1, <1>4 DEF ArriveStep, Shape, PerPair
    <2> QED
        BY <1>1, <2>1, <2>2, PairUntouched
<1>5. CASE a = r /\ b = s /\ f.seq = e
    <2>1. Numbered(N \ {f}, q, h + 1, n, (e + 1) % SeqModulus)
        BY <1>2, <1>3, <1>5, ArriveInTurn
    <2>2. /\ frags_cant_match'[r][s] = q /\ handed'[r][s] = h + 1
          /\ send_sequence'[s][r] = n
          /\ expected_sequence'[r][s] = (e + 1) % SeqModulus
        BY <1>1, <1>5 DEF ArriveStep, Shape, PerPair
    <2> HIDE DEF N, q, h, n, e, s
    <2> QED
        BY <1>2, <1>5, <2>1, <2>2
<1>6. CASE a = r /\ b = s /\ f.seq # e
    <2>1. Numbered(N \ {f}, Append(q, f), h, n, e)
        BY <1>2, <1>3, ArriveEarly
    <2>2. /\ frags_cant_match'[r][s] = Append(q, f) /\ handed'[r][s] = h
          /\ send_sequence'[s][r] = n /\ expected_sequence'[r][s] = e
        BY <1>1, <1>6 DEF ArriveStep, Shape, PerPair
    <2> HIDE DEF N, q, h, n, e, s
    <2> QED
        BY <1>2, <1>6, <2>1, <2>2
<1> QED
    BY <1>4, <1>5, <1>6

(* A round over the early fragments.                                       *)
LEMMA EarlyNumbered ==
    ASSUME Shape, Window, AllNumbered, NEW r \in Procs, NEW s \in Procs,
           NEW k, EarlyStep(r, s, k)
    PROVE  AllNumbered'
<1> SUFFICES ASSUME NEW a \in Procs, NEW b \in Procs
             PROVE  Numbered(Flight(net', b, a), frags_cant_match'[a][b],
                             handed'[a][b], send_sequence'[b][a],
                             expected_sequence'[a][b])
    BY DEF AllNumbered
<1> DEFINE N == Flight(net, s, r)
           q == frags_cant_match[r][s]
           h == handed[r][s]
           n == send_sequence[s][r]
           e == expected_sequence[r][s]
<1>1. net' = net /\ send_sequence' = send_sequence
    BY DEF EarlyStep
<1>2. k \in 1 .. Len(q) /\ q[k].seq = e
    BY DEF EarlyStep, Ready
<1>3. Numbered(N, q, h, n, e) /\ n - h <= SeqModulus
    BY DEF AllNumbered, Window
<1>4. CASE a # r \/ b # s
    <2>1. /\ frags_cant_match'[a][b] = frags_cant_match[a][b]
          /\ handed'[a][b] = handed[a][b]
          /\ expected_sequence'[a][b] = expected_sequence[a][b]
        BY <1>4 DEF EarlyStep, Shape, PerPair
    <2> QED
        BY <1>1, <2>1, PairUntouched
<1>5. CASE a = r /\ b = s
    <2>1. Numbered(N, RemoveAt(q, k), h + 1, n, (e + 1) % SeqModulus)
        BY <1>2, <1>3, KeptInTurn
    <2>2. /\ frags_cant_match'[r][s] = RemoveAt(q, k) /\ handed'[r][s] = h + 1
          /\ send_sequence'[s][r] = n
          /\ expected_sequence'[r][s] = (e + 1) % SeqModulus
        BY DEF EarlyStep, Shape, PerPair
    <2>3. Flight(net', s, r) = N
        BY <1>1
    <2> HIDE DEF N, q, h, n, e
    <2> QED
        BY <1>5, <2>1, <2>2, <2>3
<1> QED
    BY <1>4, <1>5

(* Sending.                                                                *)
LEMMA SendNumbered ==
    ASSUME Shape, AllNumbered, NEW r \in Procs, NEW sends, NEW long, NEW buffer,
           SendStep(r, sends, long, buffer)
    PROVE  AllNumbered'
<1> SUFFICES ASSUME NEW a \in Procs, NEW b \in Procs
             PROVE  Numbered(Flight(net', b, a), frags_cant_match'[a][b],
                             handed'[a][b], send_sequence'[b][a],
                             expected_sequence'[a][b])
    BY DEF AllNumbered
<1> DEFINE F(s) == Frag(r, s, long, buffer)
<1>1. /\ net' = net \cup {F(s) : s \in sends}
      /\ send_sequence' =
            [send_sequence EXCEPT ![r] =
                [d \in Procs |-> IF \E s \in sends : s.dst = d
                                 THEN send_sequence[r][d] + 1
                                 ELSE send_sequence[r][d]]]
      /\ UNCHANGED <<expected_sequence, frags_cant_match, handed>>
    BY DEF SendStep, Isend
<1>2. \A s \in sends :
         /\ F(s).src = r /\ F(s).dst = s.dst
         /\ F(s).nr = send_sequence[r][s.dst] + 1
         /\ F(s).seq = (send_sequence[r][s.dst] + 1) % SeqModulus
    BY DEF Frag
<1>3. \A s, t \in sends : s.dst = t.dst => s = t
    BY DEF SendStep, GoodSends
<1> HIDE DEF F
<1>4. CASE b # r \/ ~\E s \in sends : s.dst = a
    <2>1. Flight(net', b, a) = Flight(net, b, a)
        BY <1>1, <1>2, <1>4 DEF Flight
    <2>2. send_sequence'[b][a] = send_sequence[b][a]
        BY <1>1, <1>4 DEF Shape, PerPair
    <2> QED
        BY <1>1, <2>1, <2>2, PairUntouched
<1>5. ASSUME b = r, NEW s \in sends, s.dst = a
      PROVE  Numbered(Flight(net', b, a), frags_cant_match'[a][b],
                      handed'[a][b], send_sequence'[b][a],
                      expected_sequence'[a][b])
    <2> DEFINE N == Flight(net, b, a)
               q == frags_cant_match[a][b]
               h == handed[a][b]
               n == send_sequence[b][a]
               e == expected_sequence[a][b]
    <2>1. Numbered(N, q, h, n, e)
        BY DEF AllNumbered
    <2>2. F(s).nr = n + 1 /\ F(s).seq = (n + 1) % SeqModulus
        BY <1>2, <1>5
    <2>3. Flight(net', b, a) = N \cup {F(s)}
        BY <1>1, <1>2, <1>3, <1>5 DEF Flight
    <2>4. /\ frags_cant_match'[a][b] = q /\ handed'[a][b] = h
          /\ expected_sequence'[a][b] = e
        BY <1>1
    <2>5. send_sequence'[b][a] = n + 1
        BY <1>1, <1>5 DEF Shape, PerPair
    <2> HIDE DEF N, q, h, n, e
    <2>6. Numbered(N \cup {F(s)}, q, h, n + 1, e)
        BY <2>1, <2>2, SendNext
    <2> QED
        BY <2>3, <2>4, <2>5, <2>6
<1> QED
    BY <1>4, <1>5

(* Every step.                                                             *)
LEMMA NumberedKept ==
    ASSUME Shape, Window, AllNumbered, [PmlNext]_pmlVars
    PROVE  AllNumbered'
<1>1. OrderStep \/ UNCHANGED orderVars
    BY NextIsOrderStep
<1>2. ASSUME UNCHANGED <<send_sequence, net, expected_sequence,
                         frags_cant_match, handed>>
      PROVE  AllNumbered'
    BY <1>2 DEF AllNumbered, Flight
<1>3. ASSUME NEW r \in Procs, NEW s \in Procs, EarlyEnd(r, s)
      PROVE  AllNumbered'
    BY <1>2, <1>3, Zenon DEF EarlyEnd
<1>4. ASSUME UNCHANGED orderVars PROVE AllNumbered'
    BY <1>2, <1>4 DEF orderVars
<1> QED
    BY <1>1, <1>3, <1>4, ArriveNumbered, EarlyNumbered, SendNumbered, Zenon
       DEF OrderStep

(* The layer starts with no fragment numbered.                             *)
LEMMA NumberedInit ==
    ASSUME PmlInit PROVE AllNumbered
<1> SUFFICES ASSUME NEW r \in Procs, NEW s \in Procs
             PROVE  Numbered(Flight(net, s, r), frags_cant_match[r][s],
                             handed[r][s], send_sequence[s][r],
                             expected_sequence[r][s])
    BY DEF AllNumbered
<1>1. /\ Flight(net, s, r) = {} /\ frags_cant_match[r][s] = <<>>
      /\ handed[r][s] = 0 /\ send_sequence[s][r] = 0
      /\ expected_sequence[r][s] = 1 % SeqModulus
    BY DEF PmlInit, PerPeer, Flight
<1>2. IsQueue(<<>>) /\ Len(<<>>) = 0
    BY DEF IsQueue, Elements
<1>3. Numbered({}, <<>>, 0, 0, 1 % SeqModulus)
    BY <1>2 DEF Numbered
<1> QED
    BY <1>1, <1>3

(* What the numbers mean for the set of outstanding fragments.             *)
LEMMA NumberedIsInOrder ==
    ASSUME Shape, AllNumbered PROVE InOrder
<1> SUFFICES ASSUME NEW r \in Procs, NEW s \in Procs
             PROVE  {f.nr : f \in Outstanding(s, r)}
                        = handed[r][s] + 1 .. send_sequence[s][r]
    BY DEF InOrder
<1> DEFINE N == Flight(net, s, r)
           q == frags_cant_match[r][s]
           h == handed[r][s]
           n == send_sequence[s][r]
<1>1. Numbered(N, q, h, n, expected_sequence[r][s])
    BY DEF AllNumbered
<1>2. DOMAIN q = 1 .. Len(q)
    BY DEF Shape, IsQueue
<1>3. Outstanding(s, r) = N \cup {q[i] : i \in 1 .. Len(q)}
    BY <1>2 DEF Outstanding, Flight, Elements
<1> HIDE DEF N, q, h, n
<1>4. {f.nr : f \in N \cup {q[i] : i \in 1 .. Len(q)}} \subseteq h + 1 .. n
    BY <1>1 DEF Numbered, InTurn
<1>5. h + 1 .. n \subseteq {f.nr : f \in N \cup {q[i] : i \in 1 .. Len(q)}}
    BY <1>1 DEF Numbered
<1> QED
    BY <1>3, <1>4, <1>5 DEF h, n

(* In whatever order the interfaces deliver the fragments of a pair of     *)
(* ranks, mca_pml_ob1_recv_frag_match hands them to matching in the order  *)
(* in which mca_pml_ob1_isend numbered them: the outstanding ones are      *)
(* always the last ones numbered, each once.  For any number of ranks, any *)
(* width of the numbers and any program on top, as long as no more         *)
(* fragments of a pair are outstanding than there are numbers.             *)
THEOREM FragmentsInOrder ==
    PmlInit /\ [][PmlNext]_pmlVars /\ []Window => []InOrder
<1>1. PmlInit => Shape /\ AllNumbered
    BY ShapeInit, NumberedInit
<1>2. Shape /\ AllNumbered /\ Window /\ [PmlNext]_pmlVars
          => (Shape /\ AllNumbered)'
    BY ShapeKept, NumberedKept, Zenon
<1>3. Shape /\ AllNumbered => InOrder
    BY NumberedIsInOrder
<1> QED
    BY <1>1, <1>2, <1>3, PTL

-----------------------------------------------------------------------------
(* The collectives on top of the layer.                                    *)

(* The job stays the one chosen at the start.                              *)
LEMMA ConfigKept == Spec => [](config \in Configs)
<1>1. Init => config \in Configs
    BY DEF Init
<1>2. config \in Configs /\ [Next]_vars => (config \in Configs)'
    <2> SUFFICES ASSUME [Next]_vars PROVE config' = config
        OBVIOUS
    <2>1. CASE UNCHANGED vars
        BY <2>1 DEF vars, rankVars
    <2>2. ASSUME NEW r, Enter(r) \/ Step(r) \/ Return(r) \/ Waiting(r)
          PROVE  config' = config
        BY <2>2, Zenon DEF Enter, Step, Return, Waiting, rankVars
    <2> QED
        BY <2>1, <2>2, Zenon DEF Next
<1> QED
    BY <1>1, <1>2, PTL DEF Spec

(* Entering a collective leaves the layer below alone, up to the buffer.   *)
LEMMA EnterStep ==
    ASSUME NEW r, Enter(r)
    PROVE  UNCHANGED <<orderVars, queueVars, ctl, pending>>
    BY Zenon DEF Enter

(* What is assumed of the job.                                             *)
LEMMA JobFacts ==
    ASSUME config \in Configs
    PROVE  /\ config.size \in Nat /\ Ranks \subseteq Procs
           /\ config.script \in Seq(Elements(config.script))
           /\ Len(config.script) \in Nat
           /\ \A k \in 1 .. Len(config.script) :
                /\ config.script[k] \in Elements(config.script)
                /\ IsCall(config.script[k], config.size)
<1>1. /\ config.size \in Nat /\ 0 .. config.size - 1 \subseteq Procs
      /\ config.script \in Seq(Elements(config.script))
      /\ \A c \in Elements(config.script) : IsCall(c, config.size)
    BY ConfigsAssumption
<1>2. \A k \in 1 .. Len(config.script) : config.script[k] \in Elements(config.script)
    BY <1>1 DEF Elements
<1> QED
    BY <1>1, <1>2 DEF Ranks

(* Phases of a well-formed program.                                        *)
LEMMA PhasesGood ==
    ASSUME config \in Configs, NEW r \in Ranks, NEW p, WellFormed(p, config.size, r)
    PROVE  \A phase \in Elements(p) :
              /\ GoodSends(phase.sends)
              /\ \A s \in phase.sends : s.dst \in Ranks \ {r}
    BY JobFacts DEF WellFormed, GoodPhase, GoodSends, Ranks

(* A phase posts its receives and sends.                                   *)
LEMMA PhaseStep ==
    ASSUME config \in Configs, NEW r \in Ranks, TypeOK, Step(r)
    PROVE  \E recvs, sends, long : GoodSends(sends) /\ Post(r, recvs, sends, long)
<1> DEFINE phase == Head(program[r])
<1>0. WellFormed(program[r], config.size, r)
    BY DEF TypeOK
<1>1. program[r] \in Seq(Elements(program[r])) /\ program[r] # <<>>
    BY <1>0 DEF WellFormed, Step
<1>2. phase \in Elements(program[r])
    BY <1>1
<1>3. GoodSends(phase.sends)
    BY <1>0, <1>2, PhasesGood
<1>4. Post(r, phase.recvs, phase.sends, config.long)
    BY Zenon DEF Step
<1> QED
    BY <1>3, <1>4, Zenon

(* Every step of the collectives is one of the layer, or none.             *)
LEMMA StepsOfTheLayer ==
    ASSUME config \in Configs, TypeOK, [Next]_vars
    PROVE  [PmlNext]_pmlVars
<1>1. Ranks \subseteq Procs
    BY ConfigsAssumption DEF Ranks
<1>2. CASE UNCHANGED vars
    BY <1>2, Zenon DEF vars
<1>3. ASSUME NEW r \in Ranks, Enter(r) PROVE PmlNext
    BY <1>1, <1>3, EnterStep, Zenon DEF PmlNext
<1>4. ASSUME NEW r \in Ranks, Step(r) PROVE PmlNext
    BY <1>1, <1>4, PhaseStep, Zenon DEF PmlNext
<1>5. ASSUME NEW r \in Ranks, Return(r) PROVE UNCHANGED pmlVars
    BY <1>5, Zenon DEF Return
<1>6. ASSUME NEW r \in Ranks, Waiting(r) PROVE PmlNext
    BY <1>1, <1>6, Zenon DEF Waiting, PmlNext
<1> QED
    BY <1>2, <1>3, <1>4, <1>5, <1>6, Zenon DEF Next

-----------------------------------------------------------------------------
(* The state of the ranks and of their trees.                              *)

(* A rank is in the call it has entered last, or between two calls.        *)
Scripted ==
    /\ calls \in [Ranks -> Nat] /\ returns \in [Ranks -> Int]
    /\ \A r \in Ranks : /\ calls[r] <= Len(config.script)
                        /\ returns[r] \in {calls[r] - 1, calls[r]}

(* A tree that is kept is the one that would be built now for its root and *)
(* fanout.                                                                 *)
Fresh(topo, kind, r) ==
    topo.root # -1 =>
        topo = BuildTopo(config.size, [kind |-> kind, fanout |-> topo.fanout,
                                       root |-> topo.root], r)

CacheFresh ==
    /\ DOMAIN cached = Ranks
    /\ \A r \in Ranks :
          /\ DOMAIN cached[r] = Kinds
          /\ \A kind \in Kinds : Fresh(cached[r][kind], kind, r)

ProgramsFit ==
    /\ DOMAIN program = Ranks
    /\ \A r \in Ranks : WellFormed(program[r], config.size, r)

(* What is on its way goes from one rank to another one.                   *)
FragmentsFit ==
    /\ \A r, d \in Procs : send_sequence[r][d] \in Nat
    /\ \A f \in net : /\ f.src \in Ranks /\ f.dst \in Ranks \ {f.src}
                      /\ f.seq \in 0 .. SeqModulus - 1
    /\ \A r \in Procs : expected_sequence[r] \in [Procs -> 0 .. SeqModulus - 1]
    /\ \A r \in Ranks : matching[r] \in Ranks \cup {Nobody}

IInv == /\ config \in Configs
        /\ Shape /\ FragmentsFit /\ Scripted /\ CacheFresh /\ ProgramsFit

(* The invariant gives the types.                                          *)
LEMMA InvariantIsTyped ==
    ASSUME IInv
    PROVE  TypeOK
<1> SUFFICES ASSUME NEW r \in Ranks
             PROVE  /\ calls[r] \in 0 .. Len(config.script)
                    /\ returns[r] \in {calls[r] - 1, calls[r]}
                    /\ \A f \in net : /\ f.dst \in Ranks \ {f.src}
                                      /\ f.seq \in 0 .. SeqModulus - 1
                    /\ expected_sequence[r] \in [Procs -> 0 .. SeqModulus - 1]
                    /\ matching[r] \in Ranks \cup {Nobody}
                    /\ DOMAIN cached[r] = Kinds
                    /\ WellFormed(program[r], config.size, r)
    BY DEF TypeOK
<1>0. config \in Configs
    BY DEF IInv
<1>1. r \in Procs /\ Len(config.script) \in Nat
    BY <1>0, JobFacts
<1>2. calls[r] \in 0 .. Len(config.script) /\ returns[r] \in {calls[r] - 1, calls[r]}
    BY <1>1 DEF IInv, Scripted
<1>3. /\ \A f \in net : f.dst \in Ranks \ {f.src} /\ f.seq \in 0 .. SeqModulus - 1
      /\ expected_sequence[r] \in [Procs -> 0 .. SeqModulus - 1]
      /\ matching[r] \in Ranks \cup {Nobody}
    BY <1>1 DEF IInv, FragmentsFit
<1>4. DOMAIN cached[r] = Kinds
    BY DEF IInv, CacheFresh
<1>5. WellFormed(program[r], config.size, r)
    BY DEF IInv, ProgramsFit
<1> QED
    BY <1>2, <1>3, <1>4, <1>5

(* At the start.                                                           *)
LEMMA InitInvariant ==
    ASSUME Init
    PROVE  IInv
<1>1. config \in Configs /\ PmlInit /\ Shape
    BY ShapeInit DEF Init
<1>2. FragmentsFit
    <2>1. 1 % SeqModulus \in 0 .. SeqModulus - 1
        BY SeqAssumption
    <2>2. /\ \A r, d \in Procs : send_sequence[r][d] = 0
          /\ net = {}
          /\ \A r \in Procs : expected_sequence[r] = [s \in Procs |-> 1 % SeqModulus]
          /\ \A r \in Procs : matching[r] = Nobody
        BY <1>1 DEF PmlInit, PerPeer
    <2> HIDE DEF Nobody
    <2> QED
        BY <1>1, <2>1, <2>2, JobFacts DEF FragmentsFit
<1>3. Scripted
    BY <1>1, JobFacts DEF Init, Scripted
<1>4. CacheFresh
    <2>1. NoTopo.root = -1
        BY DEF NoTopo
    <2> HIDE DEF NoTopo
    <2> QED
        BY <2>1 DEF Init, CacheFresh, Fresh
<1>5. ProgramsFit
    <2>1. \A r : WellFormed(<<>>, config.size, r)
        BY DEF WellFormed, Elements
    <2> QED
        BY <2>1 DEF Init, ProgramsFit
<1> QED
    BY <1>1, <1>2, <1>3, <1>4, <1>5 DEF IInv

(* The decision changes the algorithm and the segment size only.           *)
LEMMA DecisionKeeps ==
    ASSUME NEW call, NEW size, IsCall(call, size), size \in Nat, call.op = "bcast"
    PROVE  /\ Decided(call, size).op = "bcast"
           /\ Decided(call, size).root = call.root
           /\ Decided(call, size).alg \in BcastAlgs
<1>0. /\ {"op", "alg", "root", "count", "segsize", "chains", "bytes"} \subseteq DOMAIN call
      /\ call.alg \in BcastAlgs \cup {"fixed"}
    BY DEF IsCall
<1>1. CASE call.alg # "fixed"
    BY <1>0, <1>1 DEF Decided
<1>2. CASE call.alg = "fixed"
    <2> DEFINE d == bcast_dec_fixed(call.count, call.bytes)
               c == [call EXCEPT !.alg = d.alg, !.segsize = d.segsize]
    <2>1. Decided(call, size) = c
        BY <1>2 DEF Decided
    <2>2. d.alg \in {"binomial", "split_bintree"}
        BY DEF bcast_dec_fixed
    <2> HIDE DEF d
    <2>3. c.op = "bcast" /\ c.root = call.root /\ c.alg = d.alg
        BY <1>0
    <2> HIDE DEF c
    <2> QED
        BY <2>1, <2>2, <2>3 DEF BcastAlgs
<1> QED
    BY <1>1, <1>2

(* The decision on a barrier leaves it one.                                *)
LEMMA DecisionKeepsBarrier ==
    ASSUME NEW call, NEW size, IsCall(call, size), call.op = "barrier"
    PROVE  Decided(call, size).op = "barrier"
<1>0. {"op", "alg"} \subseteq DOMAIN call
    BY DEF IsCall
<1>1. CASE call.alg # "fixed"
    BY <1>1 DEF Decided
<1>2. CASE call.alg = "fixed"
    <2> DEFINE d == barrier_dec_fixed(size)
               c == [call EXCEPT !.alg = d]
    <2>1. Decided(call, size) = c
        BY <1>2 DEF Decided
    <2> HIDE DEF d
    <2>2. c.op = "barrier"
        BY <1>0
    <2> QED
        BY <2>1, <2>2
<1> QED
    BY <1>1, <1>2

(* Two sequences of one element each.                                      *)
LEMMA OneAndOne ==
    ASSUME NEW a, NEW b
    PROVE  <<a>> \o <<b>> = <<a, b>>
<1> DEFINE X == {a, b}
<1>1. <<a>> \in Seq(X) /\ <<b>> \in Seq(X) /\ <<a, b>> \in Seq(X)
    OBVIOUS
<1> HIDE DEF X
<1>2. <<a>> \o <<b>> \in Seq(X) /\ Len(<<a>> \o <<b>>) = 2 /\ Len(<<a, b>>) = 2
    BY <1>1
<1>3. \A i \in 1 .. 2 : (<<a>> \o <<b>>)[i] = <<a, b>>[i]
    BY <1>1
<1> QED
    BY <1>1, <1>2, <1>3, SeqEqual

(* A tree that is asked for.                                               *)
GoodTopo(t) ==
    /\ t = [kind |-> t.kind, fanout |-> t.fanout, root |-> t.root]
    /\ t.kind \in Kinds
    /\ t.root # -1

(* A call asks for no tree, for one, or for two of different kinds.        *)
LEMMA TopoFacts ==
    ASSUME NEW call, NEW size \in Nat, IsCall(call, size)
    PROVE  LET topos == ToposOf(Decided(call, size), size)
           IN  \/ topos = <<>>
               \/ \E t : topos = <<t>> /\ GoodTopo(t)
               \/ \E t, u : /\ topos = <<t, u>> /\ GoodTopo(t) /\ GoodTopo(u)
                            /\ t.kind # u.kind
<1> DEFINE c == Decided(call, size)
           topos == ToposOf(c, size)
<1>1. CASE call.op = "barrier"
    <2>1. c.op = "barrier"
        BY <1>1, DecisionKeepsBarrier
    <2>2. topos = <<>>
        BY <2>1 DEF ToposOf
    <2> QED
        BY <2>2
<1>2. CASE call.op = "bcast"
    <2>1. c.op = "bcast" /\ c.root \in 0 .. size - 1 /\ c.alg \in BcastAlgs
        BY <1>2, DecisionKeeps DEF IsCall
    <2> HIDE DEF c
    <2>2. c.root # -1
        BY <2>1
    <2> DEFINE topo(kind, fanout) == [kind |-> kind, fanout |-> fanout, root |-> c.root]
    <2>3. \A kind \in Kinds : \A fanout : GoodTopo(topo(kind, fanout))
        BY <2>2 DEF GoodTopo
    <2>4. \A kind, fanout : topo(kind, fanout).kind = kind
        OBVIOUS
    <2>5. CASE topos = <<>>
        BY <2>5 DEF c
    <2>6. CASE topos # <<>>
        <3>1. topos = Topos(c)
            BY <2>6 DEF ToposOf
        <3>2. \/ Topos(c) = <<>>
              \/ \E kind \in Kinds : \E fanout : Topos(c) = <<topo(kind, fanout)>>
              \/ Topos(c) = <<topo("bintree", 2), topo("chain", 1)>>
            <4>1. CASE c.alg = "basic_linear"
                BY <4>1 DEF Topos
            <4>2. CASE c.alg = "chain"
                BY <4>2 DEF Topos, Kinds
            <4>3. CASE c.alg = "pipeline"
                BY <4>3 DEF Topos, Kinds
            <4>4. CASE c.alg = "bintree"
                BY <4>4 DEF Topos, Kinds
            <4>5. CASE c.alg = "binomial"
                BY <4>5 DEF Topos, Kinds
            <4>6. CASE c.alg = "split_bintree"
                <5>1. Topos(c) = <<topo("bintree", 2)>>
                                 \o IF TooSmallToSplit(c.count, c.segsize, c.bytes)
                                    THEN <<topo("chain", 1)>> ELSE <<>>
                    BY <4>6 DEF Topos
                <5> HIDE DEF topo
                <5>2. CASE TooSmallToSplit(c.count, c.segsize, c.bytes)
                    BY <5>1, <5>2, OneAndOne
                <5>3. CASE ~TooSmallToSplit(c.count, c.segsize, c.bytes)
                    <6>1. Topos(c) = <<topo("bintree", 2)>>
                        BY <5>1, <5>3
                    <6> QED
                        BY <6>1 DEF Kinds
                <5> QED
                    BY <5>2, <5>3
            <4> QED
                BY <2>1, <4>1, <4>2, <4>3, <4>4, <4>5, <4>6 DEF BcastAlgs
        <3>3. "bintree" \in Kinds /\ "chain" \in Kinds
            BY DEF Kinds
        <3> HIDE DEF topo
        <3>4. CASE \E kind \in Kinds : \E fanout : Topos(c) = <<topo(kind, fanout)>>
            BY <2>3, <3>1, <3>4 DEF c
        <3>5. CASE Topos(c) = <<topo("bintree", 2), topo("chain", 1)>>
            <4>1. /\ GoodTopo(topo("bintree", 2)) /\ GoodTopo(topo("chain", 1))
                  /\ topo("bintree", 2).kind # topo("chain", 1).kind
                BY <2>3, <2>4, <3>3
            <4> QED
                BY <3>1, <3>5, <4>1 DEF c
        <3> QED
            BY <2>6, <3>1, <3>2, <3>4, <3>5
    <2> QED
        BY <2>5, <2>6
<1> QED
    BY <1>1, <1>2 DEF IsCall

(* A tree brought up to date is the one that would be built now.           *)
LEMMA UpdateIsFresh ==
    ASSUME NEW r, NEW x, NEW t, GoodTopo(t), Fresh(x, t.kind, r)
    PROVE  /\ UpdateTopo(x, t, r) = BuildTopo(config.size, t, r)
           /\ Fresh(UpdateTopo(x, t, r), t.kind, r)
<1>1. BuildTopo(config.size, t, r).root = t.root
      /\ BuildTopo(config.size, t, r).fanout = t.fanout
    BY DEF BuildTopo
<1>2. t = [kind |-> t.kind, fanout |-> t.fanout, root |-> t.root] /\ t.root # -1
    BY DEF GoodTopo
<1>3. UpdateTopo(x, t, r) = BuildTopo(config.size, t, r)
    <2>1. CASE x.root = t.root /\ x.fanout = t.fanout
        <3>1. x = BuildTopo(config.size, [kind |-> t.kind, fanout |-> x.fanout,
                                          root |-> x.root], r)
            BY <1>2, <2>1 DEF Fresh
        <3>2. x = BuildTopo(config.size, t, r)
            BY <1>2, <2>1, <3>1
        <3> QED
            BY <2>1, <3>2 DEF UpdateTopo
    <2>2. CASE ~(x.root = t.root /\ x.fanout = t.fanout)
        BY <2>2 DEF UpdateTopo
    <2> QED
        BY <2>1, <2>2
<1> QED
    BY <1>1, <1>2, <1>3 DEF Fresh

(* After a call has begun the trees of a rank are fresh, and those that    *)
(* were asked for are those of their roots.                                *)
LEMMA KeptIsFresh ==
    ASSUME CacheFresh, NEW r \in Ranks, NEW topos,
           \A t \in Elements(topos) : GoodTopo(t),
           \A t, u \in Elements(topos) : t.kind = u.kind => t = u
    PROVE  /\ \A kind \in Kinds : Fresh(Kept(r, topos)[kind], kind, r)
           /\ \A t \in Elements(topos) :
                Kept(r, topos)[t.kind] = BuildTopo(config.size, t, r)
<1> DEFINE wanted(kind) == {u \in Elements(topos) : u.kind = kind}
           updated(kind) == {UpdateTopo(cached[r][kind], t, r) : t \in wanted(kind)}
<1>0. ASSUME NEW kind \in Kinds
      PROVE  Kept(r, topos)[kind] =
                IF updated(kind) = {} THEN cached[r][kind]
                ELSE CHOOSE topo \in updated(kind) : TRUE
    BY DEF Kept
<1>1. ASSUME NEW t \in Elements(topos)
      PROVE  /\ t.kind \in Kinds
             /\ Kept(r, topos)[t.kind] = BuildTopo(config.size, t, r)
             /\ Fresh(Kept(r, topos)[t.kind], t.kind, r)
    <2>1. GoodTopo(t) /\ t.kind \in Kinds
        BY DEF GoodTopo
    <2>2. wanted(t.kind) = {t}
        OBVIOUS
    <2>3. Kept(r, topos)[t.kind] = UpdateTopo(cached[r][t.kind], t, r)
        <3>1. updated(t.kind) = {UpdateTopo(cached[r][t.kind], t, r)}
            <4> HIDE DEF wanted
            <4> QED
                BY <2>2
        <3>2. \A x : (CHOOSE y \in {x} : TRUE) = x
            OBVIOUS
        <3> HIDE DEF updated
        <3> QED
            BY <1>0, <2>1, <3>1, <3>2
    <2>4. Fresh(cached[r][t.kind], t.kind, r)
        BY <2>1 DEF CacheFresh
    <2> QED
        BY <2>1, <2>3, <2>4, UpdateIsFresh
<1>2. ASSUME NEW kind \in Kinds, wanted(kind) = {}
      PROVE  Fresh(Kept(r, topos)[kind], kind, r)
    <2>1. Kept(r, topos)[kind] = cached[r][kind]
        <3>1. updated(kind) = {}
            BY <1>2
        <3> QED
            BY <1>0, <3>1
    <2> QED
        BY <2>1 DEF CacheFresh
<1> QED
    BY <1>1, <1>2

-----------------------------------------------------------------------------
(* The programs of the algorithms.                                         *)

(* The ranks that rank r may send to.                                      *)
Others(size, r) == (0 .. size - 1) \ {r}

(* A sequence of good phases is a program.                                 *)
LEMMA ProgramOfPhases ==
    ASSUME NEW T, NEW p \in Seq(T), NEW size, NEW r,
           \A x \in T : GoodPhase(x, size, r)
    PROVE  WellFormed(p, size, r)
<1>1. /\ Len(p) \in Nat /\ DOMAIN p = 1 .. Len(p)
      /\ p = [i \in 1 .. Len(p) |-> p[i]]
      /\ \A i \in 1 .. Len(p) : p[i] \in T
    OBVIOUS
<1>2. \A i \in 1 .. Len(p) : p[i] \in Elements(p)
    BY <1>1 DEF Elements
<1>3. Elements(p) \subseteq T
    BY <1>1 DEF Elements
<1>4. p \in [1 .. Len(p) -> Elements(p)]
    BY ONLY <1>1, <1>2
<1>5. p \in Seq(Elements(p))
    BY ONLY <1>1, <1>4
<1> QED
    BY <1>3, <1>5 DEF WellFormed

(* No phase at all, and a single one.                                      *)
LEMMA ShortPrograms ==
    ASSUME NEW size, NEW r
    PROVE  /\ WellFormed(<<>>, size, r)
           /\ \A x : GoodPhase(x, size, r) => WellFormed(<<x>>, size, r)
<1>1. WellFormed(<<>>, size, r)
    <2> DEFINE T == {}
               p == <<>>
    <2>1. p \in Seq(T) /\ \A x \in T : GoodPhase(x, size, r)
        OBVIOUS
    <2> HIDE DEF T, p
    <2>2. WellFormed(p, size, r)
        BY ONLY <2>1, ProgramOfPhases
    <2> QED
        BY <2>2 DEF p
<1>2. ASSUME NEW x, GoodPhase(x, size, r)
      PROVE  WellFormed(<<x>>, size, r)
    <2> DEFINE T == {x}
               p == <<x>>
    <2>1. p \in Seq(T) /\ \A y \in T : GoodPhase(y, size, r)
        BY <1>2
    <2> HIDE DEF T, p
    <2>2. WellFormed(p, size, r)
        BY ONLY <2>1, ProgramOfPhases
    <2> QED
        BY <2>2 DEF p
<1> QED
    BY <1>1, <1>2

(* One program after the other.                                            *)
LEMMA ProgramsJoin ==
    ASSUME NEW size, NEW r, NEW p, NEW q,
           WellFormed(p, size, r), WellFormed(q, size, r)
    PROVE  WellFormed(p \o q, size, r)
<1> DEFINE T == Elements(p) \cup Elements(q)
<1>1. \A x \in T : GoodPhase(x, size, r)
    BY DEF WellFormed
<1>2. p \in Seq(Elements(p)) /\ q \in Seq(Elements(q))
    BY DEF WellFormed
<1>3. Elements(p) \subseteq T /\ Elements(q) \subseteq T
    OBVIOUS
<1> HIDE DEF T
<1>4. p \in Seq(T) /\ q \in Seq(T)
    BY ONLY <1>2, <1>3
<1>5. p \o q \in Seq(T)
    BY ONLY <1>4
<1> QED
    BY ONLY <1>1, <1>5, ProgramOfPhases

(* A good phase for each of 1 .. n.                                        *)
LEMMA ProgramOfRounds ==
    ASSUME NEW size, NEW r, NEW n \in Nat, NEW p, p = [i \in 1 .. n |-> p[i]],
           \A i \in 1 .. n : GoodPhase(p[i], size, r)
    PROVE  WellFormed(p, size, r)
<1> DEFINE T == {p[i] : i \in 1 .. n}
<1>1. \A x \in T : GoodPhase(x, size, r)
    OBVIOUS
<1>2. \A i \in 1 .. n : p[i] \in T
    OBVIOUS
<1> HIDE DEF T
<1>3. p \in [1 .. n -> T]
    BY ONLY <1>2, p = [i \in 1 .. n |-> p[i]]
<1>4. p \in Seq(T)
    BY ONLY <1>3, n \in Nat
<1> QED
    BY ONLY <1>1, <1>4, ProgramOfPhases

(* A program for each of 1 .. n, one after the other.                      *)
LEMMA ProgramsFlatten ==
    ASSUME NEW size, NEW r, NEW n \in Nat, NEW p, p = [i \in 1 .. n |-> p[i]],
           \A i \in 1 .. n : WellFormed(p[i], size, r)
    PROVE  WellFormed(FlattenSeq(p), size, r)
<1> DEFINE T == UNION {Elements(p[i]) : i \in 1 .. n}
<1>1. \A x \in T : GoodPhase(x, size, r)
    BY DEF WellFormed
<1>2. \A i \in 1 .. n : p[i] \in Seq(Elements(p[i])) /\ Elements(p[i]) \subseteq T
    BY DEF WellFormed
<1> HIDE DEF T
<1>3. ASSUME NEW i \in 1 .. n
      PROVE  p[i] \in Seq(T)
    <2> DEFINE q == p[i]
               E == Elements(q)
    <2>1. q \in Seq(E) /\ E \subseteq T
        BY <1>2
    <2> HIDE DEF q, E
    <2>2. q \in Seq(T)
        BY ONLY <2>1
    <2> QED
        BY <2>2 DEF q
<1>4. p \in [1 .. n -> Seq(T)]
    BY ONLY <1>3, p = [i \in 1 .. n |-> p[i]]
<1>5. FlattenSeq(p) \in Seq(T)
    BY ONLY <1>4, n \in Nat, FlattenType
<1> QED
    BY ONLY <1>1, <1>5, ProgramOfPhases

(* Phases that send nothing, and those that send one message.              *)
LEMMA SimplePhases ==
    ASSUME NEW size, NEW r
    PROVE  /\ \A recvs, wait : GoodPhase(Phase(recvs, {}, wait), size, r)
           /\ \A recvs, wait, tag, from, sync, req : \A dst \in Others(size, r) :
                 GoodPhase(Phase(recvs, {ASend(dst, tag, from, sync, req)}, wait), size, r)
    BY DEF GoodPhase, Phase, ASend, Others

(* The calls of the barriers.                                              *)
LEMMA BarrierPhases ==
    ASSUME NEW size, NEW r
    PROVE  /\ \A src : GoodPhase(BRecv(src), size, r)
           /\ \A dst \in Others(size, r) :
                 /\ GoodPhase(BSend(dst), size, r) /\ GoodPhase(BSsend(dst), size, r)
                 /\ \A src : GoodPhase(sendrecv_zero(dst, src), size, r)
    BY SimplePhases DEF BRecv, BSend, BSsend, Recv, Send, Ssend, sendrecv_zero, SendRecv

(* The calls of the broadcasts.                                            *)
LEMMA BcastPhases ==
    ASSUME NEW size, NEW r
    PROVE  /\ \A src, tag, at : GoodPhase(Recv(src, tag, at), size, r)
           /\ \A src, at, i : GoodPhase(CRecv(src, at, i), size, r)
           /\ \A reqs : GoodPhase(Wait(reqs), size, r)
           /\ \A dst \in Others(size, r) : \A tag, from :
                 /\ GoodPhase(Send(dst, tag, from), size, r)
                 /\ \A src, at : GoodPhase(SendRecv(dst, from, src, at, tag), size, r)
    BY SimplePhases DEF Recv, CRecv, Wait, Send, SendRecv

(* Sending to different ranks at once.                                     *)
LEMMA SendAllGood ==
    ASSUME NEW size, NEW r, NEW dsts \in Seq(Others(size, r)), NEW tag, NEW from,
           \A i, j \in 1 .. Len(dsts) : dsts[i] = dsts[j] => i = j
    PROVE  GoodPhase(SendAll(dsts, tag, from), size, r)
<1> DEFINE a(i) == ASend(dsts[i], tag, from, FALSE, S(i))
           D == Others(size, r)
<1>1. SendAll(dsts, tag, from).sends = {a(i) : i \in 1 .. Len(dsts)}
    BY DEF SendAll, Phase
<1>2. \A i : a(i).dst = dsts[i]
    BY DEF ASend
<1>3. \A i \in 1 .. Len(dsts) : dsts[i] \in D
    <2> HIDE DEF D
    <2>1. dsts \in Seq(D)
        BY DEF D
    <2> QED
        BY ONLY <2>1
<1> HIDE DEF a
<1> QED
    BY <1>1, <1>2, <1>3 DEF GoodPhase, Others

(* v ^ mask is another number ...                                          *)
LEMMA FlipAnother ==
    ASSUME NEW v \in Nat, NEW m \in Nat \ {0}
    PROVE  Flip(v, m) \in Nat /\ Flip(v, m) # v
<1> DEFINE q == v \div m
           s == v % m
<1>1. q \in Nat /\ s \in 0 .. (m - 1) /\ v = m * q + s
    BY DivMod
<1>2. Flip(v, m) = IF q % 2 = 0 THEN v + m ELSE v - m
    BY DEF Flip
<1> HIDE DEF q, s
<1>3. CASE q % 2 = 0
    BY <1>2, <1>3
<1>4. CASE q % 2 # 0
    <2>1. 1 <= q
        BY <1>1, <1>4
    <2>2. m * 1 <= m * q
        BY <1>1, <2>1, MulMonotone
    <2>3. m <= v
        <3> DEFINE x == m * q
        <3>1. x \in Int /\ m <= x
            BY <1>1, <2>2
        <3> HIDE DEF x
        <3> QED
            BY <1>1, <3>1 DEF x
    <2> QED
        BY <1>2, <1>4, <2>3
<1> QED
    BY <1>3, <1>4

(* ... of as many bits, when mask is one of them.                          *)
LEMMA FlipStays ==
    ASSUME NEW k \in Nat, NEW i \in Nat, i < k, NEW v \in Nat, v < pown(2, k)
    PROVE  Flip(v, pown(2, i)) < pown(2, k)
<1> DEFINE m == pown(2, i)
           c == pown(2, k - (i + 1))
           q == v \div m
           s == v % m
<1>1. m \in Nat \ {0} /\ k - (i + 1) \in Nat /\ c \in Nat
    <2>1. k - (i + 1) \in Nat
        OBVIOUS
    <2>2. pown(2, i) \in Nat /\ pown(2, i) > i
        BY PowersOfTwo
    <2>3. pown(2, k - (i + 1)) \in Nat
        BY <2>1, PowersOfTwo
    <2> QED
        BY <2>1, <2>2, <2>3
<1>2. pown(2, k) = m * (2 * c)
    <2>1. pown(2, i + 1) = m * 2
        BY PowersOfTwo
    <2>2. pown(2, i + 1) * pown(2, k - (i + 1)) = pown(2, (i + 1) + (k - (i + 1)))
        BY <1>1, PowersAdd
    <2>3. (i + 1) + (k - (i + 1)) = k
        OBVIOUS
    <2>4. (m * 2) * c = m * (2 * c)
        <3> HIDE DEF m, c
        <3> QED
            BY <1>1
    <2> QED
        BY <2>1, <2>2, <2>3, <2>4
<1>3. Flip(v, m) = IF q % 2 = 0 THEN v + m ELSE v - m
    BY DEF Flip
<1>4. q \in Nat /\ s \in 0 .. (m - 1) /\ v = m * q + s
    BY <1>1, DivMod
<1> HIDE DEF m, c, q, s
<1>5. CASE q % 2 # 0
    BY <1>1, <1>3, <1>5, v < pown(2, k), PowersOfTwo DEF m
<1>6. CASE q % 2 = 0
    <2> DEFINE d == 2 * c
               x == m * q
               y == m * d
    <2>1. d \in Nat /\ d % 2 = 0 /\ x \in Nat /\ y \in Nat
        BY <1>1, <1>4
    <2>2. v < y
        BY <1>2
    <2>3. x < y
        <3>1. v = x + s /\ s >= 0 /\ s \in Int
            BY <1>1, <1>4
        <3> HIDE DEF x, y
        <3> QED
            BY ONLY <2>1, <2>2, <3>1
    <2>4. q < d
        <3> HIDE DEF d
        <3> QED
            BY <1>1, <1>4, <2>1, <2>3, MulCancel
    <2>5. q + 2 <= d
        <3> HIDE DEF d
        <3> QED
            BY <1>4, <1>6, <2>1, <2>4
    <2>6. m * (q + 2) <= y
        <3> HIDE DEF d
        <3> QED
            BY <1>1, <1>4, <2>1, <2>5, MulMonotone
    <2>7. m * (q + 2) = x + 2 * m
        BY <1>1, <1>4
    <2>8. v + m < y
        <3>1. v = x + s /\ s \in Int /\ s < m /\ m \in Int
            BY <1>1, <1>4
        <3> HIDE DEF x, y
        <3> QED
            BY ONLY <2>1, <2>6, <2>7, <3>1
    <2> QED
        BY <1>2, <1>3, <1>6, <2>8 DEF m
<1> QED
    BY <1>5, <1>6

(* The masks of a barrier: powers of two below n, none of them 0.          *)
LEMMA MaskFacts ==
    ASSUME NEW n \in Nat
    PROVE  /\ Len(MasksBelow(n)) \in Nat
           /\ \A i \in 1 .. Len(MasksBelow(n)) :
                 /\ i - 1 \in Nat /\ MasksBelow(n)[i] = pown(2, i - 1)
                 /\ MasksBelow(n)[i] \in Nat \ {0} /\ MasksBelow(n)[i] < n
<1>1. /\ Len(MasksBelow(n)) \in 0 .. n
      /\ \A i \in Nat \ {0} : i \in 1 .. Len(MasksBelow(n)) <=> pown(2, i - 1) < n
      /\ \A i \in 1 .. Len(MasksBelow(n)) : MasksBelow(n)[i] = pown(2, i - 1)
    BY Masks
<1>2. ASSUME NEW i \in 1 .. Len(MasksBelow(n))
      PROVE  /\ i - 1 \in Nat /\ MasksBelow(n)[i] = pown(2, i - 1)
             /\ MasksBelow(n)[i] \in Nat \ {0} /\ MasksBelow(n)[i] < n
    <2>1. i \in Nat \ {0} /\ i - 1 \in Nat
        BY <1>1
    <2>2. pown(2, i - 1) \in Nat /\ pown(2, i - 1) > i - 1
        BY <2>1, PowersOfTwo
    <2> QED
        BY <1>1, <2>1, <2>2
<1> QED
    BY <1>1, <1>2

(* A rank next to r in a circle of at least two.                           *)
LEMMA Neighbours ==
    ASSUME NEW size \in Nat, size > 1, NEW r \in 0 .. size - 1, NEW d \in 1 .. size - 1
    PROVE  (r + d) % size \in Others(size, r)
<1> DEFINE a == r + d
<1>0. size \in Nat \ {0} /\ a \in Nat /\ a < 2 * size
    OBVIOUS
<1> HIDE DEF a
<1>1. a % size = IF a < size THEN a ELSE a - size
    BY ONLY <1>0, ModOnce
<1> QED
    BY <1>0, <1>1 DEF Others, a

(* barrier_doublering.                                                     *)
LEMMA DoubleringWellFormed ==
    ASSUME NEW size \in Nat, size > 1, NEW r \in 0 .. size - 1
    PROVE  WellFormed(barrier_doublering(size, r), size, r)
<1> DEFINE left == IF r = 0 THEN -1 ELSE r - 1
           right == (r + 1) % size
           T == {BRecv(left), BSend(right), BSsend(right)}
<1>1. right \in Others(size, r)
    BY Neighbours
<1> HIDE DEF left, right
<1>2. \A x \in T : GoodPhase(x, size, r)
    BY <1>1, BarrierPhases
<1>3. \/ barrier_doublering(size, r)
           = <<BRecv(left), BSend(right), BRecv(left), BSsend(right)>>
      \/ barrier_doublering(size, r)
           = <<BSend(right), BRecv(left), BSsend(right), BRecv(left)>>
    BY DEF barrier_doublering, left, right
<1>4. BRecv(left) \in T /\ BSend(right) \in T /\ BSsend(right) \in T
    OBVIOUS
<1> HIDE DEF T
<1>5. barrier_doublering(size, r) \in Seq(T)
    <2> DEFINE x == BRecv(left)
               y == BSend(right)
               z == BSsend(right)
               p == barrier_doublering(size, r)
    <2>1. x \in T /\ y \in T /\ z \in T /\ (p = <<x, y, x, z>> \/ p = <<y, x, z, x>>)
        BY <1>3, <1>4
    <2> HIDE DEF x, y, z, p
    <2>2. <<x, y, x, z>> \in Seq(T) /\ <<y, x, z, x>> \in Seq(T)
        BY ONLY <2>1
    <2>3. p \in Seq(T)
        BY ONLY <2>1, <2>2
    <2> QED
        BY <2>3 DEF p
<1> QED
    BY ONLY <1>2, <1>5, ProgramOfPhases

(* barrier_two_procs.                                                      *)
LEMMA TwoProcsWellFormed ==
    ASSUME NEW size \in Nat, size > 1, NEW r \in 0 .. size - 1
    PROVE  WellFormed(barrier_two_procs(size, r), size, r)
<1> DEFINE remote == (r + 1) % 2
<1>1. remote \in Others(size, r)
    BY DEF Others
<1>2. barrier_two_procs(size, r) = <<sendrecv_zero(remote, remote)>>
    BY DEF barrier_two_procs
<1> HIDE DEF remote
<1> QED
    BY <1>1, <1>2, BarrierPhases, ShortPrograms

(* barrier_bruck.                                                          *)
LEMMA BruckWellFormed ==
    ASSUME NEW size \in Nat, size > 1, NEW r \in 0 .. size - 1
    PROVE  WellFormed(barrier_bruck(size, r), size, r)
<1> DEFINE distance == MasksBelow(size)
           n == Len(distance)
           p == barrier_bruck(size, r)
           dst(i) == (r + distance[i]) % size
           src(i) == (r + size - distance[i]) % size
<1>1. n \in Nat /\ \A i \in 1 .. n : distance[i] \in 1 .. size - 1
    <2>1. n \in Nat /\ \A i \in 1 .. n : distance[i] \in Nat \ {0} /\ distance[i] < size
        BY MaskFacts
    <2> HIDE DEF n, distance
    <2> QED
        BY <2>1
<1>2. \A i \in 1 .. n : dst(i) \in Others(size, r)
    BY <1>1, Neighbours
<1>3. p = [i \in 1 .. n |-> sendrecv_zero(dst(i), src(i))]
    BY DEF barrier_bruck
<1> HIDE DEF distance, n, p, dst, src
<1>4. p = [i \in 1 .. n |-> p[i]]
    BY ONLY <1>3
<1>5. \A i \in 1 .. n : GoodPhase(p[i], size, r)
    BY ONLY <1>2, <1>3, BarrierPhases
<1>6. WellFormed(p, size, r)
    BY ONLY <1>1, <1>4, <1>5, ProgramOfRounds
<1> QED
    BY <1>6 DEF p

(* barrier_basic_linear.                                                   *)
LEMMA LinearWellFormed ==
    ASSUME NEW size \in Nat, size > 1, NEW r \in 0 .. size - 1
    PROVE  WellFormed(barrier_basic_linear(size, r), size, r)
<1>1. CASE r > 0
    <2>1. barrier_basic_linear(size, r) = <<BSend(0), BRecv(0)>>
        BY <1>1 DEF barrier_basic_linear
    <2>2. 0 \in Others(size, r)
        BY <1>1 DEF Others
    <2> DEFINE T == {BSend(0), BRecv(0)}
    <2>3. \A x \in T : GoodPhase(x, size, r)
        BY <2>2, BarrierPhases
    <2>4. BSend(0) \in T /\ BRecv(0) \in T
        OBVIOUS
    <2> HIDE DEF T
    <2>5. barrier_basic_linear(size, r) \in Seq(T)
        BY ONLY <2>1, <2>4
    <2> QED
        BY ONLY <2>3, <2>5, ProgramOfPhases
<1>2. CASE r = 0
    <2> DEFINE n == size - 1
               w(i) == IF i = size - 1 THEN {R(j) : j \in 1 .. size - 1} ELSE {}
               p == [i \in 1 .. n |-> Phase({ARecv(-1, TAG_BARRIER, <<>>, R(i))}, {}, w(i))]
               dsts == Range0(1, n)
               q == <<SendAll(dsts, TAG_BARRIER, <<>>)>>
    <2>1. barrier_basic_linear(size, r) = p \o q
        BY <1>2 DEF barrier_basic_linear
    <2>2. n \in Nat
        OBVIOUS
    <2>3. dsts = [i \in 1 .. n |-> i]
        BY DEF Range0
    <2>4. \A i \in 1 .. n : i \in Others(size, r)
        BY <1>2 DEF Others
    <2>5. dsts \in Seq(Others(size, r)) /\ Len(dsts) = n
        <3> HIDE DEF n, dsts
        <3> QED
            BY ONLY <2>2, <2>3, <2>4
    <2>6. \A i, j \in 1 .. Len(dsts) : dsts[i] = dsts[j] => i = j
        BY ONLY <2>3, <2>5
    <2>7. WellFormed(q, size, r)
        <3> HIDE DEF dsts
        <3> QED
            BY <2>5, <2>6, SendAllGood, ShortPrograms
    <2>8. WellFormed(p, size, r)
        <3> HIDE DEF n, w
        <3>1. p = [i \in 1 .. n |-> p[i]]
            OBVIOUS
        <3>2. \A i \in 1 .. n : GoodPhase(p[i], size, r)
            BY SimplePhases
        <3> HIDE DEF p
        <3> QED
            BY ONLY <2>2, <3>1, <3>2, ProgramOfRounds
    <2> HIDE DEF p, q
    <2> QED
        BY ONLY <2>1, <2>7, <2>8, ProgramsJoin
<1> QED
    BY <1>1, <1>2

(* barrier_recursivedoubling.                                              *)
LEMMA DoublingWellFormed ==
    ASSUME NEW size \in Nat, size > 1, NEW r \in 0 .. size - 1
    PROVE  WellFormed(barrier_recursivedoubling(size, r), size, r)
<1> DEFINE adjsize == opal_next_poweroftwo(size) \div 2
           extra == size - adjsize
           before == IF r >= adjsize THEN <<sendrecv_zero(r - adjsize, r - adjsize)>>
                     ELSE IF r < extra THEN <<BRecv(r + adjsize)>> ELSE <<>>
           masks == MasksBelow(adjsize)
           n == Len(masks)
           rounds == IF r >= adjsize THEN <<>>
                     ELSE [i \in 1 .. n |->
                              sendrecv_zero(Flip(r, masks[i]), Flip(r, masks[i]))]
           after == IF r < extra THEN <<BSsend(r + adjsize)>> ELSE <<>>
<1>1. barrier_recursivedoubling(size, r) = before \o rounds \o after
    BY DEF barrier_recursivedoubling
<1>2. PICK k \in Nat : adjsize = pown(2, k) /\ adjsize <= size
    <2>1. PICK l \in Nat : /\ opal_next_poweroftwo(size) = pown(2, l)
                           /\ l # 0 /\ pown(2, l - 1) <= size
        BY NextPower
    <2>2. l - 1 \in Nat /\ (l - 1) + 1 = l
        BY <2>1
    <2>3. pown(2, l) = pown(2, l - 1) * 2 /\ pown(2, l - 1) \in Nat
        BY <2>2, PowersOfTwo
    <2>4. adjsize = pown(2, l - 1)
        <3> DEFINE x == pown(2, l - 1)
        <3>1. x \in Nat /\ opal_next_poweroftwo(size) = x * 2
            BY <2>1, <2>3
        <3> HIDE DEF x
        <3>2. (x * 2) \div 2 = x
            BY ONLY <3>1
        <3> QED
            BY <3>1, <3>2 DEF x
    <2> QED
        BY <2>1, <2>2, <2>4
<1>3. adjsize \in Nat \ {0}
    BY <1>2, PowersOfTwo
<1> HIDE DEF adjsize
<1>4. WellFormed(before, size, r)
    <2>1. CASE r >= adjsize
        <3>1. r - adjsize \in Others(size, r)
            BY <1>3, <2>1 DEF Others
        <3>2. before = <<sendrecv_zero(r - adjsize, r - adjsize)>>
            BY <2>1
        <3> HIDE DEF before
        <3> QED
            BY <3>1, <3>2, BarrierPhases, ShortPrograms
    <2>2. CASE ~(r >= adjsize) /\ r < extra
        <3>1. before = <<BRecv(r + adjsize)>>
            BY <2>2
        <3> HIDE DEF before
        <3> QED
            BY <3>1, BarrierPhases, ShortPrograms
    <2>3. CASE ~(r >= adjsize) /\ ~(r < extra)
        <3>1. before = <<>>
            BY <2>3
        <3> QED
            BY <3>1, ShortPrograms
    <2> QED
        BY <2>1, <2>2, <2>3
<1>5. WellFormed(rounds, size, r)
    <2>1. CASE r >= adjsize
        <3>1. rounds = <<>>
            BY <2>1
        <3> QED
            BY <3>1, ShortPrograms
    <2>2. CASE r < adjsize
        <3> DEFINE peer(i) == Flip(r, masks[i])
        <3>1. n \in Nat /\ \A i \in 1 .. n : /\ i - 1 \in Nat /\ masks[i] = pown(2, i - 1)
                                             /\ masks[i] \in Nat \ {0}
                                             /\ masks[i] < adjsize
            BY <1>3, MaskFacts
        <3>2. ASSUME NEW i \in 1 .. n
              PROVE  peer(i) \in Others(size, r)
            <4>1. i - 1 < k
                <5>1. i - 1 \in Nat /\ pown(2, i - 1) < pown(2, k)
                    BY <1>2, <3>1
                <5> QED
                    BY <5>1, PowersOrdered
            <4>2. r \in Nat /\ r < pown(2, k) /\ i - 1 \in Nat
                BY <1>2, <2>2, <3>1
            <4>3. Flip(r, pown(2, i - 1)) < pown(2, k)
                BY <4>1, <4>2, FlipStays
            <4>4. peer(i) \in Nat /\ peer(i) # r
                BY <3>1, <4>2, FlipAnother
            <4>5. peer(i) < adjsize
                BY <1>2, <3>1, <4>3
            <4> HIDE DEF peer
            <4> QED
                BY <1>2, <1>3, <4>4, <4>5 DEF Others
        <3>3. rounds = [i \in 1 .. n |-> sendrecv_zero(peer(i), peer(i))]
            BY <1>3, <2>2
        <3> HIDE DEF n, rounds, peer, masks
        <3>4. rounds = [i \in 1 .. n |-> rounds[i]]
            BY ONLY <3>3
        <3>5. \A i \in 1 .. n : GoodPhase(rounds[i], size, r)
            BY ONLY <3>2, <3>3, BarrierPhases
        <3> QED
            BY ONLY <3>1, <3>4, <3>5, ProgramOfRounds
    <2> QED
        BY <1>3, <2>1, <2>2
<1>6. WellFormed(after, size, r)
    <2>1. CASE r < extra
        <3>1. r + adjsize \in Others(size, r)
            BY <1>2, <1>3, <2>1 DEF Others
        <3>2. after = <<BSsend(r + adjsize)>>
            BY <2>1
        <3> HIDE DEF after
        <3> QED
            BY <3>1, <3>2, BarrierPhases, ShortPrograms
    <2>2. CASE ~(r < extra)
        <3>1. after = <<>>
            BY <2>2
        <3> QED
            BY <3>1, ShortPrograms
    <2> QED
        BY <2>1, <2>2
<1> HIDE DEF before, rounds, after
<1>7. WellFormed(before \o rounds, size, r)
    BY ONLY <1>4, <1>5, ProgramsJoin
<1> QED
    BY ONLY <1>1, <1>6, <1>7, ProgramsJoin

(* barrier_tree.                                                           *)
LEMMA TreeWellFormed ==
    ASSUME NEW size \in Nat, size > 1, NEW r \in 0 .. size - 1
    PROVE  WellFormed(barrier_tree(size, r), size, r)
<1> DEFINE depth == opal_next_poweroftwo_inclusive(size)
           jumps == MasksBelow(depth)
           n == Len(jumps)
           peer(jump) == Flip(r, jump)
           meets(jump) == peer(jump) % jump = 0 /\ peer(jump) < size
           gather(jump) == IF ~meets(jump) THEN <<>>
                           ELSE IF peer(jump) > r THEN <<BRecv(peer(jump))>>
                           ELSE <<BSend(peer(jump))>>
           release(jump) == IF ~meets(jump) THEN <<>>
                            ELSE IF peer(jump) > r THEN <<BSend(peer(jump))>>
                            ELSE <<BRecv(peer(jump))>>
           down == Reverse(jumps)
           p == [i \in 1 .. n |-> gather(jumps[i])]
           q == [i \in 1 .. Len(down) |-> release(down[i])]
<1>1. barrier_tree(size, r) = FlattenSeq(p) \o FlattenSeq(q)
    BY DEF barrier_tree
<1>2. ASSUME NEW jump \in Nat \ {0}
      PROVE  WellFormed(gather(jump), size, r) /\ WellFormed(release(jump), size, r)
    <2>1. peer(jump) \in Nat /\ peer(jump) # r
        BY FlipAnother
    <2>2. meets(jump) => peer(jump) \in Others(size, r)
        BY <2>1 DEF Others
    <2> HIDE DEF peer
    <2>3. CASE ~meets(jump)
        BY <2>3, ShortPrograms
    <2>4. CASE meets(jump)
        <3> HIDE DEF meets
        <3>1. /\ WellFormed(<<BRecv(peer(jump))>>, size, r)
              /\ WellFormed(<<BSend(peer(jump))>>, size, r)
            BY <2>2, <2>4, BarrierPhases, ShortPrograms
        <3> QED
            BY <2>4, <3>1
    <2> QED
        BY <2>3, <2>4
<1>3. depth \in Nat
    <2>1. depth = opal_next_poweroftwo(size - 1) /\ size - 1 \in Nat
        BY DEF opal_next_poweroftwo_inclusive
    <2>2. PICK k \in Nat : opal_next_poweroftwo(size - 1) = pown(2, k)
        BY <2>1, NextPower
    <2> QED
        BY <2>1, <2>2, PowersOfTwo
<1> HIDE DEF depth
<1>4. n \in Nat /\ \A i \in 1 .. n : jumps[i] \in Nat \ {0}
    BY <1>3, MaskFacts
<1>5. down = [i \in 1 .. n |-> jumps[(n - i) + 1]]
    BY DEF Reverse
<1> HIDE DEF n, jumps, down
<1>6. Len(down) = n /\ \A i \in 1 .. n : down[i] \in Nat \ {0}
    <2>1. \A i \in 1 .. n : (n - i) + 1 \in 1 .. n
        BY <1>4
    <2>2. \A i \in 1 .. n : down[i] \in Nat \ {0}
        BY ONLY <1>4, <1>5, <2>1
    <2>3. Len(down) = n
        BY ONLY <1>4, <1>5
    <2> QED
        BY <2>2, <2>3
<1> HIDE DEF gather, release, meets, peer
<1>7. WellFormed(FlattenSeq(p), size, r)
    <2>1. p = [i \in 1 .. n |-> p[i]]
        OBVIOUS
    <2>2. \A i \in 1 .. n : WellFormed(p[i], size, r)
        BY <1>2, <1>4
    <2> HIDE DEF p
    <2> QED
        BY ONLY <1>4, <2>1, <2>2, ProgramsFlatten
<1>8. WellFormed(FlattenSeq(q), size, r)
    <2>1. q = [i \in 1 .. n |-> q[i]]
        BY <1>6
    <2>2. \A i \in 1 .. n : WellFormed(q[i], size, r)
        BY <1>2, <1>6
    <2> HIDE DEF q
    <2> QED
        BY ONLY <1>4, <2>1, <2>2, ProgramsFlatten
<1> HIDE DEF p, q
<1> QED
    BY ONLY <1>1, <1>7, <1>8, ProgramsJoin

(* All barriers.                                                           *)
LEMMA BarriersWellFormed ==
    ASSUME NEW size \in Nat, size > 1, NEW r \in 0 .. size - 1, NEW alg \in BarrierAlgs
    PROVE  WellFormed(barrier_do_this(alg, size, r), size, r)
<1>1. CASE alg = "basic_linear"
    BY <1>1, LinearWellFormed DEF barrier_do_this
<1>2. CASE alg = "doublering"
    BY <1>2, DoubleringWellFormed DEF barrier_do_this
<1>3. CASE alg = "recursivedoubling"
    BY <1>3, DoublingWellFormed DEF barrier_do_this
<1>4. CASE alg = "bruck"
    BY <1>4, BruckWellFormed DEF barrier_do_this
<1>5. CASE alg = "two_procs"
    BY <1>5, TwoProcsWellFormed DEF barrier_do_this
<1>6. CASE alg = "tree"
    BY <1>6, TreeWellFormed DEF barrier_do_this
<1> QED
    BY <1>1, <1>2, <1>3, <1>4, <1>5, <1>6 DEF BarrierAlgs

(* Segments: at least one, of at least one element.                        *)
LEMMA SegmentFacts ==
    ASSUME NEW count \in Nat \ {0}, NEW seg \in Nat \ {0}
    PROVE  NumSegments(count, seg) \in Nat \ {0}
<1> DEFINE a == count + seg - 1
<1>1. a \in Nat /\ a >= seg
    OBVIOUS
<1>2. NumSegments(count, seg) = a \div seg
    BY DEF NumSegments
<1> HIDE DEF a
<1>3. a \div seg \in Nat /\ a % seg \in 0 .. (seg - 1) /\ a = seg * (a \div seg) + (a % seg)
    BY <1>1, DivMod
<1>4. a \div seg # 0
    <2> SUFFICES ASSUME a \div seg = 0
                 PROVE  FALSE
        OBVIOUS
    <2>1. a = a % seg
        BY <1>1, <1>3
    <2> QED
        BY <1>1, <1>3, <2>1
<1> QED
    BY <1>2, <1>3, <1>4

(* A pipeline of segments that are passed on by programs.                  *)
LEMMA PipelineWellFormed ==
    ASSUME NEW size, NEW r, NEW prev, NEW num \in Nat \ {0}, NEW room, NEW passOn,
           \A i \in 0 .. num - 1 : WellFormed(passOn[i], size, r)
    PROVE  WellFormed(Pipelined(prev, num, room, passOn), size, r)
<1> DEFINE n == num - 1
           ph(i) == Phase({ARecv(prev, TAG_BCAST, room[i], R(i % 2))}, {}, {R((i - 1) % 2)})
           a == <<CRecv(prev, room[0], 0)>>
           p == [i \in 1 .. n |-> <<ph(i)>> \o passOn[i - 1]]
           b == <<Wait({R((num - 1) % 2)})>>
           z == passOn[num - 1]
<1>1. Pipelined(prev, num, room, passOn) = a \o FlattenSeq(p) \o b \o z
    BY DEF Pipelined
<1>2. WellFormed(a, size, r) /\ WellFormed(b, size, r)
    BY BcastPhases, ShortPrograms
<1>3. WellFormed(z, size, r)
    OBVIOUS
<1>4. WellFormed(FlattenSeq(p), size, r)
    <2>1. n \in Nat /\ \A i \in 1 .. n : i - 1 \in 0 .. num - 1
        OBVIOUS
    <2>2. \A i \in 1 .. n : WellFormed(passOn[i - 1], size, r)
        BY <2>1
    <2>3. \A i : WellFormed(<<ph(i)>>, size, r)
        BY SimplePhases, ShortPrograms
    <2>4. p = [i \in 1 .. n |-> p[i]]
        OBVIOUS
    <2> HIDE DEF n, ph
    <2>5. ASSUME NEW i \in 1 .. n
          PROVE  WellFormed(p[i], size, r)
        <3>1. p[i] = <<ph(i)>> \o passOn[i - 1]
            OBVIOUS
        <3>2. WellFormed(<<ph(i)>>, size, r) /\ WellFormed(passOn[i - 1], size, r)
            BY <2>2, <2>3
        <3> QED
            BY ONLY <3>1, <3>2, ProgramsJoin
    <2> HIDE DEF p
    <2> QED
        BY ONLY <2>1, <2>4, <2>5, ProgramsFlatten
<1> HIDE DEF a, b, z, p
<1>5. WellFormed(a \o FlattenSeq(p), size, r)
    BY ONLY <1>2, <1>4, ProgramsJoin
<1>6. WellFormed(a \o FlattenSeq(p) \o b, size, r)
    BY ONLY <1>2, <1>5, ProgramsJoin
<1> QED
    BY ONLY <1>1, <1>3, <1>6, ProgramsJoin

(* A place in a tree: the children are other ranks, and different ones.    *)
GoodPlace(tree, size, r) ==
    /\ tree.next \in Seq(Others(size, r))
    /\ \A i, j \in 1 .. Len(tree.next) : tree.next[i] = tree.next[j] => i = j

(* bcast_generic.                                                          *)
LEMMA GenericWellFormed ==
    ASSUME NEW size, NEW r, NEW tree, GoodPlace(tree, size, r), NEW isRoot \in BOOLEAN,
           NEW count \in Nat \ {0}, NEW seg \in Nat \ {0}
    PROVE  WellFormed(bcast_generic(tree, isRoot, count, seg), size, r)
<1> DEFINE num == NumSegments(count, seg)
           room == [i \in 0 .. num - 1 |-> RoomFor(0, seg, i)]
           part(i) == SegmentOf(0, count, seg, i)
           pass(i) == IF tree.next = <<>> THEN <<>>
                      ELSE <<SendAll(tree.next, TAG_BCAST, part(i))>>
           passOn == [i \in 0 .. num - 1 |-> pass(i)]
           p == [i \in 1 .. num |-> passOn[i - 1]]
<1>1. bcast_generic(tree, isRoot, count, seg)
        = IF isRoot THEN FlattenSeq(p) ELSE Pipelined(tree.prev, num, room, passOn)
    BY DEF bcast_generic
<1>2. num \in Nat \ {0}
    BY SegmentFacts
<1> HIDE DEF num, room, part
<1>3. \A i : WellFormed(pass(i), size, r)
    <2>1. \A i : GoodPhase(SendAll(tree.next, TAG_BCAST, part(i)), size, r)
        BY SendAllGood DEF GoodPlace
    <2> QED
        BY <2>1, ShortPrograms
<1> HIDE DEF pass
<1>4. \A i \in 0 .. num - 1 : WellFormed(passOn[i], size, r)
    BY <1>3
<1>5. p = [i \in 1 .. num |-> p[i]] /\ \A i \in 1 .. num : WellFormed(p[i], size, r)
    <2>1. \A i \in 1 .. num : i - 1 \in 0 .. num - 1
        BY <1>2
    <2> HIDE DEF passOn
    <2> QED
        BY <1>4, <2>1
<1> HIDE DEF p, passOn
<1>6. WellFormed(FlattenSeq(p), size, r)
    <2>1. num \in Nat
        BY <1>2
    <2> QED
        BY ONLY <1>5, <2>1, ProgramsFlatten
<1>7. WellFormed(Pipelined(tree.prev, num, room, passOn), size, r)
    BY ONLY <1>2, <1>4, PipelineWellFormed
<1> QED
    BY <1>1, <1>6, <1>7

(* bcast_basic_linear.                                                     *)
LEMMA LinearBcastWellFormed ==
    ASSUME NEW size \in Nat, size > 1, NEW r \in 0 .. size - 1, NEW root \in 0 .. size - 1,
           NEW count
    PROVE  WellFormed(bcast_basic_linear(size, root, r, count), size, r)
<1>1. CASE r # root
    BY <1>1, BcastPhases, ShortPrograms DEF bcast_basic_linear
<1>2. CASE r = root
    <2> DEFINE n == size - 1
               d(i) == IF i <= root THEN i - 1 ELSE i
               dsts == [i \in 1 .. n |-> d(i)]
    <2>1. bcast_basic_linear(size, root, r, count)
            = <<SendAll(dsts, TAG_BCAST, Range0(0, count))>>
        BY <1>2 DEF bcast_basic_linear
    <2>2. /\ n \in Nat
          /\ \A i \in 1 .. n : d(i) \in Others(size, r)
          /\ \A i, j \in 1 .. n : d(i) = d(j) => i = j
        BY <1>2 DEF Others
    <2> HIDE DEF n, d
    <2>3. dsts \in Seq(Others(size, r)) /\ Len(dsts) = n
        BY ONLY <2>2
    <2>4. \A i, j \in 1 .. Len(dsts) : dsts[i] = dsts[j] => i = j
        BY ONLY <2>2, <2>3
    <2> HIDE DEF dsts
    <2>5. GoodPhase(SendAll(dsts, TAG_BCAST, Range0(0, count)), size, r)
        BY ONLY <2>3, <2>4, SendAllGood
    <2> QED
        BY ONLY <2>1, <2>5, ShortPrograms
<1> QED
    BY <1>1, <1>2

(* bcast_split_bintree, of data that are split.                            *)
LEMMA SplitWellFormed ==
    ASSUME NEW size \in Nat, size > 1, NEW r \in 0 .. size - 1, NEW root \in 0 .. size - 1,
           NEW tree, GoodPlace(tree, size, r),
           NEW count \in Nat, count \div 2 # 0, NEW seg \in Nat
    PROVE  WellFormed(bcast_split_bintree(tree, size, root, r, count, seg), size, r)
<1> DEFINE counts == <<(count + 1) \div 2, count \div 2>>
           firsts == <<0, counts[1]>>
           segs(h) == IF seg = 0 THEN counts[h] ELSE seg
           num(h) == NumSegments(counts[h], segs(h))
           lr == 1 + ((Shifted(size, root, r) + 1) % 2)
           other == 3 - lr
           half(h) == Range0(firsts[h], counts[h])
           part(h, i) == SegmentOf(firsts[h], counts[h], segs(h), i)
           room == [i \in 0 .. num(lr) - 1 |-> part(lr, i)]
           passOn == [i \in 0 .. num(lr) - 1 |->
                         [c \in 1 .. Len(tree.next) |->
                             Send(tree.next[c], TAG_BCAST, part(lr, i))]]
           kids(i) == {h \in 1 .. Minimum(2, Len(tree.next)) : i < num(h)}
           fromRoot(i) == [c \in 1 .. Cardinality(kids(i)) |->
                              Send(tree.next[c], TAG_BCAST, part(c, i))]
           p == [i \in 1 .. num(1) |-> fromRoot(i - 1)]
           q == [i \in 1 .. num(lr) |-> Recv(tree.prev, TAG_BCAST, part(lr, i - 1))]
           step1 == IF r = root THEN FlattenSeq(p)
                    ELSE IF tree.next # <<>>
                    THEN Pipelined(tree.prev, num(lr), room, passOn)
                    ELSE q
           last == (root + size - 1) % size
           pair == IF lr = 1 THEN (r + 1) % size ELSE (r + size - 1) % size
           swap == <<SendRecv(pair, half(lr), pair, half(other), TAG_BCAST)>>
           step2 == IF size % 2 # 0
                    THEN IF r = root THEN <<>> ELSE swap
                    ELSE IF r = root THEN <<Send(last, TAG_BCAST, half(2))>>
                    ELSE IF r = last THEN <<Recv(root, TAG_BCAST, half(2))>>
                    ELSE swap
           m == Len(tree.next)
<1>1. bcast_split_bintree(tree, size, root, r, count, seg) = step1 \o step2
    BY DEF bcast_split_bintree
<1>2. num(1) \in Nat \ {0} /\ num(2) \in Nat \ {0}
    <2>1. counts[1] \in Nat \ {0} /\ counts[2] \in Nat \ {0}
        OBVIOUS
    <2>2. segs(1) \in Nat \ {0} /\ segs(2) \in Nat \ {0}
        BY <2>1
    <2> HIDE DEF counts, segs
    <2> QED
        BY <2>1, <2>2, SegmentFacts
<1>3. lr \in {1, 2}
    <2>0. size \in Nat \ {0} /\ root \in 0 .. (size - 1) /\ r \in 0 .. (size - 1)
        OBVIOUS
    <2>1. Shifted(size, root, r) \in 0 .. (size - 1)
        BY ONLY <2>0, Shifting
    <2> QED
        BY ONLY <2>0, <2>1
<1>4. num(lr) \in Nat \ {0}
    BY <1>2, <1>3
<1>5. /\ m \in Nat
      /\ \A c \in 1 .. m : tree.next[c] \in Others(size, r)
    <2> DEFINE D == Others(size, r)
    <2>1. tree.next \in Seq(D)
        BY DEF GoodPlace
    <2> HIDE DEF D
    <2>2. Len(tree.next) \in Nat /\ \A c \in 1 .. Len(tree.next) : tree.next[c] \in D
        BY ONLY <2>1
    <2> QED
        BY <2>2 DEF D
<1> HIDE DEF counts, firsts, segs, num, lr, other, half, part, room
<1>6. \A c \in 1 .. m : \A from : GoodPhase(Send(tree.next[c], TAG_BCAST, from), size, r)
    BY <1>5, BcastPhases
<1>7. WellFormed(step1, size, r)
    <2>1. CASE r = root
        <3>1. \A i : Cardinality(kids(i)) \in Nat /\ Cardinality(kids(i)) <= m
            <4> TAKE i
            <4>1. Minimum(2, m) \in Nat /\ Minimum(2, m) <= m
                BY <1>5 DEF Minimum
            <4> DEFINE mm == Minimum(2, m)
                       B == 1 .. mm
            <4>2. mm \in Nat /\ mm <= m
                BY <4>1
            <4>3. kids(i) \subseteq B
                OBVIOUS
            <4> HIDE DEF kids, mm
            <4>4. IsFiniteSet(B) /\ Cardinality(B) = mm
                <5>1. IsFiniteSet(1 .. mm)
                      /\ Cardinality(1 .. mm) = IF 1 > mm THEN 0 ELSE mm - 1 + 1
                    BY ONLY <4>2, FS_Interval
                <5> QED
                    BY ONLY <4>2, <5>1
            <4>5. Cardinality(kids(i)) \in Nat /\ Cardinality(kids(i)) <= Cardinality(B)
                <5> HIDE DEF B
                <5>1. IsFiniteSet(kids(i)) /\ Cardinality(kids(i)) <= Cardinality(B)
                    BY <4>3, <4>4, FS_Subset
                <5> QED
                    BY <5>1, FS_CardinalityType
            <4> QED
                BY <1>5, <4>2, <4>4, <4>5
        <3> DEFINE card(i) == Cardinality(kids(i))
        <3> HIDE DEF m, kids, card
        <3>2. ASSUME NEW i
              PROVE  WellFormed(fromRoot(i), size, r)
            <4>1. card(i) \in Nat /\ card(i) <= m
                BY <3>1 DEF card
            <4>2. fromRoot(i) = [c \in 1 .. card(i) |->
                                    Send(tree.next[c], TAG_BCAST, part(c, i))]
                BY DEF card
            <4> DEFINE g == fromRoot(i)
            <4> HIDE DEF fromRoot
            <4>3. \A c \in 1 .. card(i) : c \in 1 .. m
                BY <1>5, <4>1
            <4>4. \A c \in 1 .. card(i) : GoodPhase(g[c], size, r)
                BY <1>6, <4>2, <4>3
            <4>5. g = [c \in 1 .. card(i) |-> g[c]]
                BY ONLY <4>2
            <4> HIDE DEF g
            <4>6. WellFormed(g, size, r)
                BY ONLY <4>1, <4>4, <4>5, ProgramOfRounds
            <4> QED
                BY <4>6 DEF g
        <3> HIDE DEF fromRoot
        <3>3. p = [i \in 1 .. num(1) |-> p[i]] /\ \A i \in 1 .. num(1) : WellFormed(p[i], size, r)
            BY <3>2
        <3> HIDE DEF p
        <3>4. WellFormed(FlattenSeq(p), size, r)
            <4> DEFINE n == num(1)
            <4>1. /\ n \in Nat /\ p = [i \in 1 .. n |-> p[i]]
                  /\ \A i \in 1 .. n : WellFormed(p[i], size, r)
                BY <1>2, <3>3
            <4> HIDE DEF n
            <4> QED
                BY ONLY <4>1, ProgramsFlatten
        <3> QED
            BY <2>1, <3>4
    <2>2. CASE r # root /\ tree.next # <<>>
        <3>1. ASSUME NEW i \in 0 .. num(lr) - 1
              PROVE  WellFormed(passOn[i], size, r)
            <4> DEFINE g == passOn[i]
            <4>1. g = [c \in 1 .. m |-> Send(tree.next[c], TAG_BCAST, part(lr, i))]
                OBVIOUS
            <4> HIDE DEF g, m
            <4>2. \A c \in 1 .. m : GoodPhase(g[c], size, r)
                BY <1>6, <4>1
            <4>3. g = [c \in 1 .. m |-> g[c]]
                BY ONLY <4>1
            <4>4. WellFormed(g, size, r)
                BY ONLY <1>5, <4>2, <4>3, ProgramOfRounds
            <4> QED
                BY <4>4 DEF g
        <3> DEFINE n == num(lr)
        <3>2. n \in Nat \ {0} /\ \A i \in 0 .. n - 1 : WellFormed(passOn[i], size, r)
            BY <1>4, <3>1
        <3> HIDE DEF n, passOn
        <3>3. WellFormed(Pipelined(tree.prev, n, room, passOn), size, r)
            BY ONLY <3>2, PipelineWellFormed
        <3> QED
            BY <2>2, <3>3 DEF n
    <2>3. CASE r # root /\ tree.next = <<>>
        <3> DEFINE n == num(lr)
        <3>1. /\ n \in Nat /\ q = [i \in 1 .. n |-> q[i]]
              /\ \A i \in 1 .. n : GoodPhase(q[i], size, r)
            BY <1>4, BcastPhases
        <3> HIDE DEF n, q
        <3>2. WellFormed(q, size, r)
            BY ONLY <3>1, ProgramOfRounds
        <3> QED
            BY <2>3, <3>2
    <2> QED
        BY <2>1, <2>2, <2>3
<1>8. WellFormed(step2, size, r)
    <2>0. (r + size - 1) % size \in Others(size, r)
        <3> DEFINE d == size - 1
        <3>1. d \in 1 .. size - 1 /\ r + d = r + size - 1
            OBVIOUS
        <3> HIDE DEF d
        <3>2. (r + d) % size \in Others(size, r)
            BY <3>1, Neighbours
        <3> QED
            BY ONLY <3>1, <3>2
    <2>1. pair \in Others(size, r)
        <3>1. (r + 1) % size \in Others(size, r)
            BY Neighbours
        <3> QED
            BY <2>0, <3>1
    <2>2. r = root => last \in Others(size, r)
        BY <2>0
    <2> HIDE DEF pair, last
    <2>3. WellFormed(swap, size, r)
        BY <2>1, BcastPhases, ShortPrograms
    <2>4. r = root => WellFormed(<<Send(last, TAG_BCAST, half(2))>>, size, r)
        BY <2>2, BcastPhases, ShortPrograms
    <2>5. WellFormed(<<Recv(root, TAG_BCAST, half(2))>>, size, r)
        BY BcastPhases, ShortPrograms
    <2>6. WellFormed(<<>>, size, r)
        BY ShortPrograms
    <2> HIDE DEF swap
    <2> QED
        BY <2>3, <2>4, <2>5, <2>6
<1> HIDE DEF step1, step2
<1> QED
    BY ONLY <1>1, <1>7, <1>8, ProgramsJoin

(* The place of a rank in a tree that spans the communicator.              *)
LEMMA PlaceInTree ==
    ASSUME NEW size \in Nat \ {0}, NEW top, NEW view, OneTree(view, size, top),
           NEW r \in 0 .. size - 1
    PROVE  GoodPlace(view[r], size, r)
<1> DEFINE ranks == 0 .. size - 1
           q == view[r].next
           D == ranks \ {top}
           E == Others(size, r)
<1>1. q \in Seq(D) /\ IsInjective(q)
    BY DEF OneTree
<1>2. \A s \in ranks \ {top} : /\ view[s].prev \in ranks \ {s}
                               /\ \A p \in ranks : s \in ToSet(view[p].next)
                                                      <=> view[s].prev = p
    BY DEF OneTree
<1>3. r \notin ToSet(q) \/ r = top
    BY <1>2
<1> HIDE DEF D, q
<1>4. /\ Len(q) \in Nat /\ DOMAIN q = 1 .. Len(q)
      /\ q = [i \in 1 .. Len(q) |-> q[i]]
      /\ \A i \in 1 .. Len(q) : q[i] \in D
    BY ONLY <1>1
<1>5. \A i \in 1 .. Len(q) : q[i] \in E
    <2> TAKE i \in 1 .. Len(q)
    <2>1. q[i] \in ranks /\ q[i] # top
        BY <1>4 DEF D
    <2>2. q[i] \in ToSet(q)
        BY ONLY <1>4, i \in 1 .. Len(q) DEF ToSet
    <2>3. q[i] # r
        BY <1>3, <2>1, <2>2
    <2> QED
        BY <2>1, <2>3 DEF Others
<1> HIDE DEF E
<1>6. q \in Seq(E)
    <2> DEFINE n == Len(q)
    <2>1. n \in Nat /\ q = [i \in 1 .. n |-> q[i]] /\ \A i \in 1 .. n : q[i] \in E
        BY <1>4, <1>5
    <2> HIDE DEF n
    <2>2. q \in [1 .. n -> E]
        BY ONLY <2>1
    <2> QED
        BY ONLY <2>1, <2>2
<1>7. \A i, j \in 1 .. Len(q) : q[i] = q[j] => i = j
    BY ONLY <1>1, <1>4 DEF IsInjective
<1> QED
    BY <1>6, <1>7 DEF GoodPlace, q, E

(* The place of a rank in the trees of the broadcasts.                     *)
LEMMA BuiltPlaces ==
    ASSUME NEW size \in Nat \ {0}, NEW root \in 0 .. size - 1, NEW r \in 0 .. size - 1
    PROVE  /\ GoodPlace(build_tree(2, size, root, r), size, r)
           /\ GoodPlace(build_bmtree(size, root, r), size, r)
           /\ \A fanout \in Int : GoodPlace(build_chain(fanout, size, root, r), size, r)
<1> DEFINE view(kind, fanout) == [p \in 0 .. size - 1 |-> Tree(kind, fanout, size, root, p)]
<1>1. ASSUME NEW kind \in {"tree", "bmtree", "chain"}, NEW fanout,
             Spans(kind, fanout, size, root)
      PROVE  GoodPlace(Tree(kind, fanout, size, root, r), size, r)
    <2>1. OneTree(view(kind, fanout), size, root)
        BY <1>1 DEF Spans, RootOf
    <2>2. view(kind, fanout)[r] = Tree(kind, fanout, size, root, r)
        OBVIOUS
    <2> HIDE DEF view
    <2>3. GoodPlace(view(kind, fanout)[r], size, r)
        BY <2>1, PlaceInTree
    <2> QED
        BY <2>2, <2>3
<1>2. GoodPlace(build_tree(2, size, root, r), size, r)
    <2>1. Spans("tree", 2, size, root)
        BY LevelTreeSpans
    <2>2. Tree("tree", 2, size, root, r) = build_tree(2, size, root, r)
        BY DEF Tree
    <2> QED
        BY <1>1, <2>1, <2>2
<1>3. GoodPlace(build_bmtree(size, root, r), size, r)
    <2>1. Spans("bmtree", 0, size, root)
        BY BmtreeSpans
    <2>2. Tree("bmtree", 0, size, root, r) = build_bmtree(size, root, r)
        BY DEF Tree
    <2> QED
        BY <1>1, <2>1, <2>2
<1>4. ASSUME NEW fanout \in Int
      PROVE  GoodPlace(build_chain(fanout, size, root, r), size, r)
    <2>1. Spans("chain", fanout, size, root)
        BY ChainSpans
    <2>2. Tree("chain", fanout, size, root, r) = build_chain(fanout, size, root, r)
        BY DEF Tree
    <2> QED
        BY <1>1, <2>1, <2>2
<1> QED
    BY <1>2, <1>3, <1>4

(* What the decision leaves of the data of a broadcast.                    *)
LEMMA DecisionTypes ==
    ASSUME NEW call, NEW size \in Nat, IsCall(call, size), call.op = "bcast"
    PROVE  /\ Decided(call, size).count = call.count
           /\ Decided(call, size).chains = call.chains
           /\ Decided(call, size).segsize \in Nat
           /\ Decided(call, size).bytes \in Nat \ {0}
<1>0. /\ {"op", "alg", "root", "count", "segsize", "chains", "bytes"} \subseteq DOMAIN call
      /\ call.bytes \in Nat \ {0} /\ call.segsize \in Nat
    BY DEF IsCall
<1>1. CASE call.alg # "fixed"
    BY <1>0, <1>1 DEF Decided
<1>2. CASE call.alg = "fixed"
    <2> DEFINE d == bcast_dec_fixed(call.count, call.bytes)
               c == [call EXCEPT !.alg = d.alg, !.segsize = d.segsize]
    <2>1. Decided(call, size) = c
        BY <1>2 DEF Decided
    <2>2. d.segsize \in Nat
        BY DEF bcast_dec_fixed
    <2> HIDE DEF d
    <2>3. /\ c.count = call.count /\ c.chains = call.chains
          /\ c.segsize = d.segsize /\ c.bytes = call.bytes
        BY <1>0
    <2> HIDE DEF c
    <2> QED
        BY <1>0, <2>1, <2>2, <2>3
<1> QED
    BY <1>1, <1>2

(* ... and of the algorithm of a barrier.                                  *)
LEMMA DecisionOnBarrier ==
    ASSUME NEW call, NEW size, IsCall(call, size), call.op = "barrier"
    PROVE  Decided(call, size).alg \in BarrierAlgs
<1>0. {"op", "alg"} \subseteq DOMAIN call /\ call.alg \in BarrierAlgs \cup {"fixed"}
    BY DEF IsCall
<1>1. CASE call.alg # "fixed"
    BY <1>0, <1>1 DEF Decided
<1>2. CASE call.alg = "fixed"
    <2> DEFINE d == barrier_dec_fixed(size)
               c == [call EXCEPT !.alg = d]
    <2>1. Decided(call, size) = c
        BY <1>2 DEF Decided
    <2>2. d \in BarrierAlgs
        BY DEF barrier_dec_fixed, BarrierAlgs
    <2> HIDE DEF d
    <2>3. c.alg = d
        BY <1>0
    <2> QED
        BY <2>1, <2>2, <2>3
<1> QED
    BY <1>1, <1>2

(* The tree that rank r uses in a call, as it is built for it.             *)
TreeOf(c, size, r) ==
    LET topos == ToposOf(c, size)
    IN  IF topos = <<>> THEN NoTopo.tree
        ELSE BuildTopo(size, topos[Len(topos)], r).tree

(* In a broadcast along a tree it is a place in that tree.                 *)
LEMMA TreeIsPlace ==
    ASSUME NEW size \in Nat, NEW c, ~NothingToDo(c, size), c.op = "bcast",
           c.alg \in BcastAlgs \ {"basic_linear"},
           c.root \in 0 .. size - 1, c.chains \in Int, NEW r \in 0 .. size - 1
    PROVE  GoodPlace(TreeOf(c, size, r), size, r)
<1> DEFINE topo(kind, fanout) == [kind |-> kind, fanout |-> fanout, root |-> c.root]
<1>1. ToposOf(c, size) = Topos(c)
    BY DEF ToposOf
<1>2. ASSUME NEW t, Topos(c) = <<t>>
      PROVE  TreeOf(c, size, r) = BuildTopo(size, t, r).tree
    BY <1>1, <1>2 DEF TreeOf
<1>3. ASSUME NEW t, NEW u, Topos(c) = <<u, t>>
      PROVE  TreeOf(c, size, r) = BuildTopo(size, t, r).tree
    BY <1>1, <1>3 DEF TreeOf
<1>4. size \in Nat \ {0}
    OBVIOUS
<1>5. /\ GoodPlace(BuildTopo(size, topo("bintree", 2), r).tree, size, r)
      /\ GoodPlace(BuildTopo(size, topo("bmtree", 0), r).tree, size, r)
      /\ \A fanout \in Int :
            /\ GoodPlace(BuildTopo(size, topo("chain", fanout), r).tree, size, r)
            /\ GoodPlace(BuildTopo(size, topo("pipeline", fanout), r).tree, size, r)
    BY <1>4, BuiltPlaces DEF BuildTopo
<1>6. CASE c.alg = "chain"
    <2>1. Topos(c) = <<topo("chain", c.chains)>>
        BY <1>6 DEF Topos
    <2> HIDE DEF topo
    <2> QED
        BY <1>2, <1>5, <2>1
<1>7. CASE c.alg = "pipeline"
    <2>1. Topos(c) = <<topo("pipeline", 1)>>
        BY <1>7 DEF Topos
    <2> HIDE DEF topo
    <2> QED
        BY <1>2, <1>5, <2>1
<1>8. CASE c.alg = "bintree"
    <2>1. Topos(c) = <<topo("bintree", 2)>>
        BY <1>8 DEF Topos
    <2> HIDE DEF topo
    <2> QED
        BY <1>2, <1>5, <2>1
<1>9. CASE c.alg = "binomial"
    <2>1. Topos(c) = <<topo("bmtree", 0)>>
        BY <1>9 DEF Topos
    <2> HIDE DEF topo
    <2> QED
        BY <1>2, <1>5, <2>1
<1>10. CASE c.alg = "split_bintree"
    <2>1. Topos(c) = <<topo("bintree", 2)>> \o IF TooSmallToSplit(c.count, c.segsize, c.bytes)
                                              THEN <<topo("chain", 1)>> ELSE <<>>
        BY <1>10 DEF Topos
    <2> HIDE DEF topo
    <2>2. CASE TooSmallToSplit(c.count, c.segsize, c.bytes)
        <3>1. Topos(c) = <<topo("bintree", 2), topo("chain", 1)>>
            BY <2>1, <2>2, OneAndOne
        <3> QED
            BY <1>3, <1>5, <3>1
    <2>3. CASE ~TooSmallToSplit(c.count, c.segsize, c.bytes)
        <3>1. Topos(c) = <<topo("bintree", 2)>>
            BY <2>1, <2>3
        <3> QED
            BY <1>2, <1>5, <3>1
    <2> QED
        BY <2>2, <2>3
<1> QED
    BY <1>6, <1>7, <1>8, <1>9, <1>10 DEF BcastAlgs

(* Pushing the segment size up leaves it a number of bytes.                *)
LEMMA RaisedType ==
    ASSUME NEW segsize \in Nat, NEW bytes \in Nat \ {0}
    PROVE  Raised(segsize, bytes) \in Nat
BY DEF Raised

(* A segment holds at least one element, whatever its size in bytes.       *)
LEMMA SegcountType ==
    ASSUME NEW count \in Nat \ {0}, NEW segsize \in Nat, NEW bytes \in Nat \ {0}
    PROVE  Segcount(count, segsize, bytes) \in Nat \ {0}
<1>1. CASE segsize >= bytes /\ segsize < bytes * count
    <2> DEFINE q == segsize \div bytes
               more == IF segsize % bytes > bytes \div 2 THEN 1 ELSE 0
    <2>1. /\ q \in Nat /\ segsize % bytes \in 0 .. bytes - 1
          /\ segsize = bytes * q + (segsize % bytes)
        BY DivMod
    <2>2. q # 0
        BY <1>1, <2>1
    <2>3. more \in {0, 1}
        OBVIOUS
    <2>4. Segcount(count, segsize, bytes) = q + more
        BY <1>1 DEF Segcount
    <2> HIDE DEF q, more
    <2> QED
        BY <2>1, <2>2, <2>3, <2>4
<1>2. CASE ~(segsize >= bytes /\ segsize < bytes * count)
    BY <1>2 DEF Segcount
<1> QED
    BY <1>1, <1>2

(* Whatever the size of the communicator, the root, the data and the       *)
(* algorithm that is forced or decided for, what a rank is to do in a      *)
(* barrier or broadcast of coll_tuned_barrier.c and coll_tuned_bcast.c,    *)
(* along the tree that coll_tuned_topo.c builds for it, is a program that  *)
(* sends to other ranks of the communicator only, and between two waits to *)
(* none of them twice.                                                     *)
THEOREM AlgorithmsWellFormed ==
    ASSUME NEW call, NEW size \in Nat, IsCall(call, size), NEW r \in 0 .. size - 1
    PROVE  LET c == Decided(call, size)
           IN  WellFormed(ProgramOf(c, size, r, TreeOf(c, size, r)), size, r)
<1> DEFINE c == Decided(call, size)
           tree == TreeOf(c, size, r)
<1> SUFFICES WellFormed(ProgramOf(c, size, r, tree), size, r)
    OBVIOUS
<1>1. CASE NothingToDo(c, size)
    <2>1. ProgramOf(c, size, r, tree) = <<>>
        BY <1>1 DEF ProgramOf
    <2> QED
        BY <2>1, ShortPrograms
<1>2. CASE ~NothingToDo(c, size) /\ call.op = "barrier"
    <2>1. c.op = "barrier" /\ c.alg \in BarrierAlgs
        BY <1>2, DecisionKeepsBarrier, DecisionOnBarrier
    <2> HIDE DEF c, tree
    <2>2. ProgramOf(c, size, r, tree) = barrier_do_this(c.alg, size, r)
        BY <1>2, <2>1 DEF ProgramOf
    <2>3. size > 1
        BY <1>2 DEF NothingToDo
    <2> QED
        BY <2>1, <2>2, <2>3, BarriersWellFormed
<1>3. CASE ~NothingToDo(c, size) /\ call.op = "bcast"
    <2>0. call.root \in 0 .. size - 1 /\ call.count \in Nat /\ call.chains \in Nat
        BY <1>3 DEF IsCall
    <2>1. /\ c.op = "bcast" /\ c.root \in 0 .. size - 1 /\ c.alg \in BcastAlgs
          /\ c.count \in Nat /\ c.chains \in Int
          /\ c.segsize \in Nat /\ c.bytes \in Nat \ {0}
        BY <1>3, <2>0, DecisionKeeps, DecisionTypes
    <2> HIDE DEF c
    <2>2. ProgramOf(c, size, r, tree) = bcast_do_this(c, size, r, tree)
        BY <1>3, <2>1 DEF ProgramOf
    <2>3. size > 1 /\ c.count \in Nat \ {0}
        BY <1>3, <2>1 DEF NothingToDo
    <2>4. c.alg # "basic_linear" => GoodPlace(tree, size, r)
        BY <1>3, <2>1, TreeIsPlace
    <2> HIDE DEF tree
    <2>5. CASE c.alg = "basic_linear"
        <3>1. bcast_do_this(c, size, r, tree) = bcast_basic_linear(size, c.root, r, c.count)
            BY <2>5 DEF bcast_do_this
        <3> QED
            BY <2>1, <2>2, <2>3, <3>1, LinearBcastWellFormed
    <2>6. CASE c.alg = "split_bintree" /\ ~TooSmallToSplit(c.count, c.segsize, c.bytes)
        <3> DEFINE seg == Raised(c.segsize, c.bytes) \div c.bytes
        <3>1. bcast_do_this(c, size, r, tree)
                = bcast_split_bintree(tree, size, c.root, r, c.count, seg)
            BY <2>6 DEF bcast_do_this
        <3>2. c.count \div 2 # 0
            BY <2>6 DEF TooSmallToSplit
        <3>3. seg \in Nat
            BY <2>1, RaisedType, DivMod
        <3> HIDE DEF seg
        <3> QED
            BY <2>1, <2>2, <2>3, <2>4, <2>6, <3>1, <3>2, <3>3, SplitWellFormed
    <2>7. CASE /\ c.alg # "basic_linear"
               /\ ~(c.alg = "split_bintree" /\ ~TooSmallToSplit(c.count, c.segsize, c.bytes))
        <3> DEFINE n == c.count
                   segsize == IF c.alg = "split_bintree" THEN Raised(c.segsize, c.bytes)
                              ELSE c.segsize
                   s == Segcount(n, segsize, c.bytes)
                   isRoot == r = c.root
        <3>1. bcast_do_this(c, size, r, tree) = bcast_generic(tree, isRoot, n, s)
            BY <2>7 DEF bcast_do_this
        <3>0. segsize \in Nat
            BY <2>1, RaisedType
        <3>2. s \in Nat \ {0} /\ n \in Nat \ {0} /\ isRoot \in BOOLEAN
            <4> HIDE DEF segsize
            <4> QED
                BY <2>1, <2>3, <3>0, SegcountType
        <3> HIDE DEF n, s, isRoot
        <3>3. WellFormed(bcast_generic(tree, isRoot, n, s), size, r)
            BY <2>4, <2>7, <3>2, GenericWellFormed
        <3> QED
            BY <2>2, <3>1, <3>3
    <2> QED
        BY <2>5, <2>6, <2>7
<1> QED
    BY <1>1, <1>2, <1>3 DEF IsCall

-----------------------------------------------------------------------------
(* The steps of the ranks.                                                 *)

(* Entering a call: the trees stay fresh, and the program is the one that  *)
(* AlgorithmsWellFormed is about.                                          *)
LEMMA EnterKeeps ==
    ASSUME IInv, NEW r \in Ranks, Enter(r)
    PROVE  CacheFresh' /\ ProgramsFit' /\ Scripted'
<1> DEFINE k == calls[r] + 1
           c == Decided(config.script[k], config.size)
           topos == ToposOf(c, config.size)
           kept == Kept(r, topos)
           tree == IF topos = <<>> THEN NoTopo.tree ELSE kept[topos[Len(topos)].kind].tree
<1>1. /\ calls[r] = returns[r] /\ calls[r] < Len(config.script)
      /\ calls' = [calls EXCEPT ![r] = k]
      /\ cached' = [cached EXCEPT ![r] = kept]
      /\ program' = [program EXCEPT ![r] = ProgramOf(c, config.size, r, tree)]
      /\ config' = config /\ returns' = returns
    BY Zenon DEF Enter
<1>2. /\ config \in Configs /\ CacheFresh /\ ProgramsFit /\ Scripted
    BY DEF IInv
<1>3. /\ config.size \in Nat /\ k \in 1 .. Len(config.script)
      /\ config.script[k] \in Elements(config.script)
      /\ IsCall(config.script[k], config.size)
      /\ Len(config.script) \in Nat
    <2>1. calls[r] \in Nat /\ Len(config.script) \in Nat
        BY <1>2, JobFacts DEF Scripted
    <2>2. k \in 1 .. Len(config.script)
        BY <1>1, <2>1
    <2> QED
        BY <1>2, <2>1, <2>2, JobFacts
<1>4. Scripted'
    <2>1. k \in Nat /\ k <= Len(config.script) /\ returns[r] = k - 1
        BY <1>1, <1>2, <1>3 DEF Scripted
    <2> HIDE DEF k
    <2>2. Ranks' = Ranks
        BY <1>1 DEF Ranks
    <2>3. calls' \in [Ranks -> Nat] /\ returns' \in [Ranks -> Int]
        BY <1>1, <1>2, <2>1 DEF Scripted
    <2>4. ASSUME NEW p \in Ranks
          PROVE  calls'[p] <= Len(config.script) /\ returns'[p] \in {calls'[p] - 1, calls'[p]}
        <3>1. CASE p = r
            BY <1>1, <1>2, <2>1, <3>1 DEF Scripted
        <3>2. CASE p # r
            BY <1>1, <1>2, <3>2 DEF Scripted
        <3> QED
            BY <3>1, <3>2
    <2> QED
        BY <1>1, <2>2, <2>3, <2>4 DEF Scripted
<1>5. /\ \A t \in Elements(topos) : GoodTopo(t)
      /\ \A t, u \in Elements(topos) : t.kind = u.kind => t = u
      /\ topos # <<>> => topos[Len(topos)] \in Elements(topos)
    <2>1. \/ topos = <<>>
          \/ \E t : topos = <<t>> /\ GoodTopo(t)
          \/ \E t, u : /\ topos = <<t, u>> /\ GoodTopo(t) /\ GoodTopo(u)
                       /\ t.kind # u.kind
        BY <1>3, TopoFacts
    <2> HIDE DEF topos
    <2>2. CASE topos = <<>>
        BY <2>2 DEF Elements
    <2>3. ASSUME NEW t, topos = <<t>>, GoodTopo(t)
          PROVE  Elements(topos) = {t} /\ topos[Len(topos)] = t
        BY <2>3 DEF Elements
    <2>4. ASSUME NEW t, NEW u, topos = <<t, u>>
          PROVE  Elements(topos) = {t, u} /\ topos[Len(topos)] = u
        BY <2>4 DEF Elements
    <2> QED
        BY <2>1, <2>2, <2>3, <2>4
<1>6. /\ \A kind \in Kinds : Fresh(kept[kind], kind, r)
      /\ \A t \in Elements(topos) : kept[t.kind] = BuildTopo(config.size, t, r)
    <2> HIDE DEF topos
    <2> QED
        BY <1>2, <1>5, KeptIsFresh
<1>7. CacheFresh'
    <2>2. DOMAIN kept = Kinds
        BY DEF Kept
    <2> HIDE DEF kept
    <2>3. Ranks' = Ranks /\ DOMAIN cached' = Ranks
        BY <1>1, <1>2 DEF Ranks, CacheFresh
    <2>4. ASSUME NEW p \in Ranks
          PROVE  /\ DOMAIN cached'[p] = Kinds
                 /\ \A kind \in Kinds : Fresh(cached'[p][kind], kind, p)
        <3>1. CASE p = r
            BY <1>1, <1>2, <1>6, <2>2, <3>1 DEF CacheFresh
        <3>2. CASE p # r
            BY <1>1, <1>2, <3>2 DEF CacheFresh
        <3> QED
            BY <3>1, <3>2
    <2> QED
        BY <1>1, <2>3, <2>4 DEF CacheFresh, Fresh
<1>8. WellFormed(ProgramOf(c, config.size, r, tree), config.size, r)
    <2>1. tree = TreeOf(c, config.size, r)
        <3>1. TreeOf(c, config.size, r)
                = IF topos = <<>> THEN NoTopo.tree
                  ELSE BuildTopo(config.size, topos[Len(topos)], r).tree
            BY DEF TreeOf
        <3> HIDE DEF topos, kept
        <3> QED
            BY <1>5, <1>6, <3>1
    <2>2. r \in 0 .. config.size - 1
        BY DEF Ranks
    <2>3. WellFormed(ProgramOf(c, config.size, r, TreeOf(c, config.size, r)),
                     config.size, r)
        BY <1>3, <2>2, AlgorithmsWellFormed
    <2> QED
        BY <2>1, <2>3
<1>9. ProgramsFit'
    <2> DEFINE q == ProgramOf(c, config.size, r, tree)
    <2> HIDE DEF q
    <2>1. program' = [program EXCEPT ![r] = q] /\ WellFormed(q, config.size, r)
        BY <1>1, <1>8 DEF q
    <2>2. Ranks' = Ranks /\ config'.size = config.size
        BY <1>1 DEF Ranks
    <2>3. \A p \in Ranks : WellFormed(program'[p], config.size, p)
        BY <1>2, <2>1 DEF ProgramsFit
    <2>4. DOMAIN program' = Ranks
        BY <1>2, <2>1 DEF ProgramsFit
    <2> QED
        BY <2>2, <2>3, <2>4 DEF ProgramsFit
<1> QED
    BY <1>4, <1>7, <1>9

(* An arrival or a round over the early fragments, as far as it goes for   *)
(* what is on its way.                                                     *)
LEMMA OrderStepFits ==
    ASSUME IInv, NEW r \in Procs,
           \/ \E f : ArriveStep(r, f)
           \/ \E s \in Procs : EarlyEnd(r, s) \/ \E i : EarlyStep(r, s, i)
           \/ UNCHANGED orderVars,
           config' = config
    PROVE  FragmentsFit'
<1> DEFINE M == SeqModulus
<1>0. M \in Nat \ {0} /\ Ranks' = Ranks /\ Ranks \subseteq Procs
    BY SeqAssumption, JobFacts DEF Ranks, IInv
<1>1. Shape /\ FragmentsFit
    BY DEF IInv
<1>2. \A e \in 0 .. M - 1 : (e + 1) % M \in 0 .. M - 1
    BY <1>0
<1> HIDE DEF M
<1>3. ASSUME NEW s \in Procs,
             expected_sequence' = [expected_sequence EXCEPT ![r][s] =
                 (expected_sequence[r][s] + 1) % M]
      PROVE  \A a \in Procs : expected_sequence'[a] \in [Procs -> 0 .. M - 1]
    <2>1. \A a \in Procs : expected_sequence[a] \in [Procs -> 0 .. M - 1]
        BY <1>1 DEF FragmentsFit, M
    <2> DEFINE e == (expected_sequence[r][s] + 1) % M
    <2>2. e \in 0 .. M - 1
        BY <1>2, <2>1
    <2> HIDE DEF e
    <2>3. expected_sequence' = [expected_sequence EXCEPT ![r][s] = e]
        BY <1>3 DEF e
    <2>4. DOMAIN expected_sequence = Procs
        BY <1>1 DEF Shape, PerPair
    <2> QED
        BY <2>1, <2>2, <2>3, <2>4
<1>4. CASE UNCHANGED orderVars
    BY <1>0, <1>1, <1>4 DEF orderVars, FragmentsFit
<1>5. ASSUME NEW f, ArriveStep(r, f)
      PROVE  FragmentsFit'
    <2>1. f \in net /\ net' = net \ {f} /\ send_sequence' = send_sequence
        BY <1>5 DEF ArriveStep
    <2>2. f.src \in Ranks /\ f.src \in Procs
        BY <1>0, <1>1, <2>1 DEF FragmentsFit
    <2>3. CASE f.seq = expected_sequence[r][f.src]
        <3>1. /\ expected_sequence' = [expected_sequence EXCEPT ![r][f.src] =
                    (expected_sequence[r][f.src] + 1) % M]
              /\ matching' = [matching EXCEPT ![r] =
                    IF frags_cant_match[r][f.src] = <<>> THEN Nobody ELSE f.src]
            BY <1>5, <2>3 DEF ArriveStep, M
        <3>2. \A a \in Procs : expected_sequence'[a] \in [Procs -> 0 .. M - 1]
            BY <1>3, <2>2, <3>1
        <3>3. \A a \in Ranks : matching'[a] \in Ranks \cup {Nobody}
            BY <1>0, <1>1, <2>2, <3>1 DEF FragmentsFit, Shape
        <3> QED
            BY <1>0, <1>1, <2>1, <3>2, <3>3 DEF FragmentsFit, M
    <2>4. CASE f.seq # expected_sequence[r][f.src]
        <3>1. expected_sequence' = expected_sequence /\ matching' = matching
            BY <1>5, <2>4 DEF ArriveStep
        <3> QED
            BY <1>0, <1>1, <2>1, <3>1 DEF FragmentsFit
    <2> QED
        BY <2>3, <2>4
<1>6. ASSUME NEW s \in Procs, EarlyEnd(r, s)
      PROVE  FragmentsFit'
    <2>1. /\ matching' = [matching EXCEPT ![r] = Nobody]
          /\ send_sequence' = send_sequence /\ net' = net
          /\ expected_sequence' = expected_sequence
        BY <1>6 DEF EarlyEnd
    <2>2. \A a \in Ranks : matching'[a] \in Ranks \cup {Nobody}
        BY <1>0, <1>1, <2>1 DEF FragmentsFit, Shape
    <2> QED
        BY <1>0, <1>1, <2>1, <2>2 DEF FragmentsFit
<1>7. ASSUME NEW s \in Procs, NEW i, EarlyStep(r, s, i)
      PROVE  FragmentsFit'
    <2> DEFINE m == IF RemoveAt(frags_cant_match[r][s], i) = <<>> THEN Nobody ELSE s
    <2>1. /\ matching[r] = s
          /\ net' = net /\ send_sequence' = send_sequence
          /\ expected_sequence' = [expected_sequence EXCEPT ![r][s] =
                (expected_sequence[r][s] + 1) % M]
          /\ matching' = [matching EXCEPT ![r] = m]
        BY <1>7 DEF EarlyStep, M
    <2>2. m \in {matching[r], Nobody}
        BY <2>1
    <2> HIDE DEF m
    <2>3. \A a \in Procs : expected_sequence'[a] \in [Procs -> 0 .. M - 1]
        BY <1>3, <2>1
    <2>4. \A a \in Ranks : matching'[a] \in Ranks \cup {Nobody}
        BY <1>0, <1>1, <2>1, <2>2 DEF FragmentsFit, Shape
    <2> QED
        BY <1>0, <1>1, <2>1, <2>3, <2>4 DEF FragmentsFit, M
<1> QED
    BY <1>4, <1>5, <1>6, <1>7, Zenon

(* The sends of a phase.                                                   *)
LEMMA SendFits ==
    ASSUME IInv, NEW r \in Ranks, NEW sends, NEW long, NEW b,
           SendStep(r, sends, long, b), \A s \in sends : s.dst \in Ranks \ {r},
           config' = config
    PROVE  FragmentsFit'
<1>0. /\ SeqModulus \in Nat \ {0} /\ Ranks' = Ranks /\ Ranks \subseteq Procs
      /\ Shape /\ FragmentsFit
    BY SeqAssumption, JobFacts DEF Ranks, IInv
<1>1. /\ send_sequence' =
            [send_sequence EXCEPT ![r] =
                [d \in Procs |-> IF \E s \in sends : s.dst = d
                                 THEN send_sequence[r][d] + 1 ELSE send_sequence[r][d]]]
      /\ net' = net \cup {Frag(r, s, long, b) : s \in sends}
      /\ expected_sequence' = expected_sequence /\ matching' = matching
    BY DEF SendStep, Isend
<1>2. ASSUME NEW a \in Procs, NEW d \in Procs
      PROVE  send_sequence'[a][d] \in Nat
    <2>1. \A x, y \in Procs : send_sequence[x][y] \in Nat
        BY <1>0 DEF FragmentsFit
    <2>2. DOMAIN send_sequence = Procs
        BY <1>0 DEF Shape, PerPair
    <2>3. CASE a = r
        BY <1>1, <2>1, <2>2, <2>3
    <2>4. CASE a # r
        BY <1>1, <2>1, <2>2, <2>4
    <2> QED
        BY <2>3, <2>4
<1>3. ASSUME NEW s \in sends
      PROVE  LET f == Frag(r, s, long, b)
             IN  /\ f.src \in Ranks /\ f.dst \in Ranks \ {f.src}
                 /\ f.seq \in 0 .. SeqModulus - 1
    <2> DEFINE f == Frag(r, s, long, b)
               n == send_sequence[r][s.dst]
    <2>1. s.dst \in Ranks \ {r} /\ n \in Nat
        BY <1>0 DEF FragmentsFit
    <2>2. f.src = r /\ f.dst = s.dst /\ f.seq = (n + 1) % SeqModulus
        BY DEF Frag
    <2> HIDE DEF n
    <2>3. (n + 1) % SeqModulus \in 0 .. SeqModulus - 1
        BY <1>0, <2>1
    <2> HIDE DEF f
    <2>4. f.src \in Ranks /\ f.dst \in Ranks \ {f.src} /\ f.seq \in 0 .. SeqModulus - 1
        BY <2>1, <2>2, <2>3
    <2> QED
        BY <2>4 DEF f
<1>4. \A f \in net' : /\ f.src \in Ranks /\ f.dst \in Ranks \ {f.src}
                      /\ f.seq \in 0 .. SeqModulus - 1
    BY <1>0, <1>1, <1>3 DEF FragmentsFit
<1> QED
    BY <1>0, <1>1, <1>2, <1>4 DEF FragmentsFit

(* What is left of a program is well-formed.                               *)
LEMMA RestWellFormed ==
    ASSUME NEW p, NEW size, NEW r, WellFormed(p, size, r), p # <<>>
    PROVE  WellFormed(Tail(p), size, r)
<1> DEFINE X == Elements(p)
           q == Tail(p)
<1>1. p \in Seq(X)
    BY DEF WellFormed
<1> HIDE DEF X
<1>2. q \in Seq(X) /\ \A i \in 1 .. Len(q) : q[i] \in X
    BY <1>1
<1> HIDE DEF q
<1>3. Elements(q) \subseteq X /\ \A i \in 1 .. Len(q) : q[i] \in Elements(q)
    BY <1>2 DEF Elements
<1>4. q \in Seq(Elements(q))
    BY <1>2, <1>3
<1> QED
    BY <1>3, <1>4 DEF WellFormed, X, q

(* A step that leaves the ranks' own state alone.                          *)
LEMMA RanksUntouched ==
    ASSUME IInv, UNCHANGED rankVars
    PROVE  /\ Scripted' /\ CacheFresh' /\ ProgramsFit'
<1>1. /\ config' = config /\ calls' = calls /\ returns' = returns
      /\ program' = program /\ cached' = cached /\ Ranks' = Ranks
    BY DEF rankVars, Ranks
<1> QED
    BY <1>1 DEF IInv, Scripted, CacheFresh, Fresh, ProgramsFit

(* A phase.                                                                *)
LEMMA StepKeeps ==
    ASSUME IInv, NEW r \in Ranks, Step(r)
    PROVE  FragmentsFit' /\ Scripted' /\ CacheFresh' /\ ProgramsFit'
<1> DEFINE phase == Head(program[r])
<1>0. config \in Configs /\ r \in Procs
    BY JobFacts DEF IInv
<1>1. /\ config' = config /\ calls' = calls /\ returns' = returns /\ cached' = cached
      /\ program[r] # <<>>
      /\ program' = [program EXCEPT ![r] = Tail(program[r])]
      /\ Post(r, phase.recvs, phase.sends, config.long)
    BY Zenon DEF Step
<1>2. WellFormed(program[r], config.size, r) /\ DOMAIN program = Ranks
    BY DEF IInv, ProgramsFit
<1>3. phase \in Elements(program[r])
    <2>1. program[r] \in Seq(Elements(program[r]))
        BY <1>2 DEF WellFormed
    <2> QED
        BY <1>1, <2>1
<1>4. GoodSends(phase.sends) /\ \A s \in phase.sends : s.dst \in Ranks \ {r}
    BY <1>0, <1>2, <1>3, PhasesGood
<1>5. PICK b : SendStep(r, phase.sends, config.long, b)
    BY <1>1, <1>4, PostIsStep
<1>6. FragmentsFit'
    BY <1>1, <1>4, <1>5, SendFits
<1>7. Ranks' = Ranks
    BY <1>1 DEF Ranks
<1>8. Scripted' /\ CacheFresh'
    BY <1>1, <1>7 DEF IInv, Scripted, CacheFresh, Fresh
<1>9. ProgramsFit'
    <2> DEFINE q == Tail(program[r])
    <2>1. WellFormed(q, config.size, r)
        BY <1>1, <1>2, RestWellFormed
    <2>2. program' = [program EXCEPT ![r] = q]
        BY <1>1
    <2> HIDE DEF q
    <2>3. DOMAIN program' = Ranks /\ \A p \in Ranks : WellFormed(program'[p], config.size, p)
        BY <2>1, <2>2 DEF IInv, ProgramsFit
    <2> QED
        BY <1>1, <1>7, <2>3 DEF ProgramsFit
<1> QED
    BY <1>6, <1>8, <1>9

(* The end of a call.                                                      *)
LEMMA ReturnKeeps ==
    ASSUME IInv, NEW r \in Ranks, Return(r)
    PROVE  FragmentsFit' /\ Scripted' /\ CacheFresh' /\ ProgramsFit'
<1>1. /\ returns[r] < calls[r]
      /\ returns' = [returns EXCEPT ![r] = returns[r] + 1]
      /\ config' = config /\ calls' = calls /\ cached' = cached /\ program' = program
      /\ UNCHANGED pmlVars
    BY Zenon DEF Return, Inside
<1>2. Ranks' = Ranks
    BY <1>1 DEF Ranks
<1>3. UNCHANGED orderVars
    BY <1>1 DEF pmlVars
<1>4. FragmentsFit'
    <2>1. r \in Procs
        BY JobFacts DEF IInv
    <2> QED
        BY <1>1, <1>3, <2>1, OrderStepFits
<1>5. CacheFresh' /\ ProgramsFit'
    BY <1>1, <1>2 DEF IInv, CacheFresh, Fresh, ProgramsFit
<1>6. Scripted'
    <2>1. Scripted
        BY DEF IInv
    <2>2. returns[r] + 1 \in Int /\ returns[r] + 1 = calls[r]
        BY <1>1, <2>1 DEF Scripted
    <2>3. returns' \in [Ranks -> Int] /\ returns'[r] = calls[r]
          /\ \A p \in Ranks : p # r => returns'[p] = returns[p]
        BY <1>1, <2>1, <2>2 DEF Scripted
    <2>4. \A p \in Ranks : returns'[p] \in {calls[p] - 1, calls[p]}
        BY <2>1, <2>3 DEF Scripted
    <2> QED
        BY <1>1, <1>2, <2>1, <2>3, <2>4 DEF Scripted
<1> QED
    BY <1>4, <1>5, <1>6

(* What a rank handles while it waits.                                     *)
LEMMA WaitingKeeps ==
    ASSUME IInv, NEW r \in Ranks, Waiting(r)
    PROVE  FragmentsFit' /\ Scripted' /\ CacheFresh' /\ ProgramsFit'
<1>1. Progress(r) /\ UNCHANGED rankVars
    BY Zenon DEF Waiting
<1>2. Scripted' /\ CacheFresh' /\ ProgramsFit'
    BY <1>1, RanksUntouched
<1>3. r \in Procs /\ config' = config /\ Shape
    BY <1>1, JobFacts DEF IInv, rankVars
<1>4. \/ \E f : ArriveStep(r, f)
      \/ \E s \in Procs : EarlyEnd(r, s) \/ \E i : EarlyStep(r, s, i)
      \/ UNCHANGED orderVars
    <2>1. CASE \E f \in net : Arrive(r, f)
        BY <2>1, ArriveIsStep, Zenon
    <2>2. CASE MatchEarly(r)
        BY <1>3, <2>2, EarlyIsStep, Zenon
    <2>3. CASE \E a \in ctl : RecvAck(r, a) \/ RecvFrag(r, a)
        BY <2>3, Zenon DEF RecvAck, RecvFrag
    <2> QED
        BY <1>1, <2>1, <2>2, <2>3, Zenon DEF Progress
<1>5. FragmentsFit'
    BY <1>3, <1>4, OrderStepFits
<1> QED
    BY <1>2, <1>5

(* The invariant is kept by every step.                                    *)
LEMMA InvariantKept ==
    ASSUME IInv, [Next]_vars
    PROVE  IInv'
<1>1. TypeOK /\ config \in Configs /\ Shape
    BY InvariantIsTyped DEF IInv
<1>2. Shape'
    BY <1>1, StepsOfTheLayer, ShapeKept
<1>3. CASE UNCHANGED vars
    <2>1. UNCHANGED rankVars /\ UNCHANGED orderVars /\ config' = config
        BY <1>3, Zenon DEF vars, pmlVars, rankVars
    <2>2. Scripted' /\ CacheFresh' /\ ProgramsFit'
        BY <2>1, RanksUntouched
    <2>3. FragmentsFit'
        <3>1. Ranks' = Ranks
            BY <2>1 DEF Ranks
        <3> QED
            BY <2>1, <3>1 DEF IInv, FragmentsFit, orderVars
    <2> QED
        BY <1>1, <1>2, <2>1, <2>2, <2>3 DEF IInv
<1>4. ASSUME NEW r \in Ranks, Enter(r)
      PROVE  IInv'
    <2>1. UNCHANGED orderVars /\ config' = config /\ r \in Procs
        BY <1>1, <1>4, JobFacts, Zenon DEF Enter
    <2>2. FragmentsFit'
        BY <2>1, OrderStepFits
    <2>3. CacheFresh' /\ ProgramsFit' /\ Scripted'
        BY <1>4, EnterKeeps
    <2> QED
        BY <1>1, <1>2, <2>1, <2>2, <2>3 DEF IInv
<1>5. ASSUME NEW r \in Ranks, Step(r) \/ Return(r) \/ Waiting(r)
      PROVE  IInv'
    <2>1. FragmentsFit' /\ Scripted' /\ CacheFresh' /\ ProgramsFit'
        BY <1>5, StepKeeps, ReturnKeeps, WaitingKeeps, Zenon
    <2>2. config' = config
        BY <1>5, Zenon DEF Step, Return, Waiting, rankVars
    <2> QED
        BY <1>1, <1>2, <2>1, <2>2 DEF IInv
<1> QED
    BY <1>3, <1>4, <1>5, Zenon DEF Next

(* The ranks go through the script call by call, messages go to other      *)
(* ranks of the communicator, with numbers of their width, and programs    *)
(* send at most once to a rank between two waits: for all jobs whose       *)
(* algorithms are well-formed on freshly built trees, although the ranks   *)
(* run them on trees they keep from earlier calls.                         *)
THEOREM CollectivesTypeCorrect == Spec => []TypeOK
<1>1. Init => IInv
    BY InitInvariant
<1>2. IInv /\ [Next]_vars => IInv'
    BY InvariantKept
<1>3. IInv => TypeOK
    BY InvariantIsTyped
<1> QED
    BY <1>1, <1>2, <1>3, PTL DEF Spec

(* COLL_TUNED_UPDATE_... never leaves a rank with a tree of another root   *)
(* or fanout than the one it asks for: what it keeps is what it would      *)
(* build now.                                                              *)
THEOREM CachedTreesFresh == Spec => []CacheFresh
<1>1. Init => IInv
    BY InitInvariant
<1>2. IInv /\ [Next]_vars => IInv'
    BY InvariantKept
<1>3. IInv => CacheFresh
    BY DEF IInv
<1> QED
    BY <1>1, <1>2, <1>3, PTL DEF Spec

(* No fragment of a barrier or broadcast is left among the early ones when *)
(* its turn has come.                                                      *)
THEOREM CollectivesStrandNone == Spec => []NoneStranded
<1>1. config \in Configs /\ TypeOK /\ [Next]_vars => [PmlNext]_pmlVars
    BY StepsOfTheLayer
<1>2. Init => PmlInit
    BY DEF Init
<1> QED
    BY <1>1, <1>2, ConfigKept, CollectivesTypeCorrect, EarlyFragmentsHandedOn, PTL
    DEF Spec

(* Within the window of the sequence numbers, the fragments of the         *)
(* collectives are matched in the order of their numbers.                  *)
THEOREM CollectivesInOrder == Spec /\ []Window => []InOrder
<1>1. config \in Configs /\ TypeOK /\ [Next]_vars => [PmlNext]_pmlVars
    BY StepsOfTheLayer
<1>2. Init => PmlInit
    BY DEF Init
<1> QED
    BY <1>1, <1>2, ConfigKept, CollectivesTypeCorrect, FragmentsInOrder, PTL
    DEF Spec
=============================================================================
