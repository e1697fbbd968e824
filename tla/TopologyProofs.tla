--------------------------- MODULE TopologyProofs ---------------------------
(***************************************************************************)
(* The trees of Open MPI's tuned collectives span the communicator, for    *)
(* every size, root and fanout: the places that the ranks compute each for *)
(* itself fit together.                                                    *)
(***************************************************************************)
EXTENDS Topology, FiniteSetTheorems, TLAPS

-----------------------------------------------------------------------------
(* Arithmetic.                                                             *)

(* Division with remainder.                                                *)
LEMMA DivMod ==
    ASSUME NEW a \in Nat, NEW n \in Nat \ {0}
    PROVE  /\ a \div n \in Nat
           /\ a % n \in 0 .. (n - 1)
           /\ a = n * (a \div n) + (a % n)
OBVIOUS

(* ... and its uniqueness.                                                 *)
LEMMA Quotient ==
    ASSUME NEW n \in Nat \ {0}, NEW q \in Nat, NEW s \in 0 .. (n - 1)
    PROVE  /\ (n * q + s) \div n = q
           /\ (n * q + s) % n = s
OBVIOUS

(* Multiplication keeps the order ...                                      *)
LEMMA MulMonotone ==
    ASSUME NEW n \in Nat, NEW p \in Nat, NEW q \in Nat, p <= q
    PROVE  n * p <= n * q
OBVIOUS

(* ... and reflects it.                                                    *)
LEMMA MulCancel ==
    ASSUME NEW n \in Nat \ {0}, NEW p \in Nat, NEW q \in Nat, n * p < n * q
    PROVE  p < q
OBVIOUS

(* A nonempty set of naturals has a least element: what induction comes    *)
(* down to.                                                                *)
LEMMA LeastNatural ==
    ASSUME NEW X, X \subseteq Nat, X # {}
    PROVE  \E i \in X : \A j \in X : i <= j
  <1> DEFINE Less == OpToRel(<, Nat)
  <1>1. \A x, y \in Nat : <<y, x>> \in Less <=> y < x
    BY DEF OpToRel
  <1>2. IsWellFoundedOn(Less, Nat)
    BY NatLessThanWellFounded
  <1> HIDE DEF Less
  <1>3. PICK i \in X : \A j \in X : ~(<<j, i>> \in Less)
    BY <1>2, WFMin
  <1>4. ASSUME NEW j \in X
        PROVE  i <= j
    <2>1. i \in Nat /\ j \in Nat /\ ~(<<j, i>> \in Less)
      BY <1>3
    <2>2. ~(j < i)
      BY <1>1, <2>1
    <2> QED
      BY <2>1, <2>2
  <1> QED
    BY <1>4

(* A function that starts with x0 and goes on as step says.                *)
IsIteration(f, X, x0, step, n) ==
    /\ f \in [0 .. n -> X]
    /\ f[0] = x0
    /\ \A k \in 1 .. n : f[k] = step[k][f[k - 1]]

(* Definition by recursion on a natural number: there is such a function.  *)
LEMMA IterationFound ==
    ASSUME NEW X, NEW x0 \in X, NEW step \in [Nat -> [X -> X]], NEW n \in Nat
    PROVE  \E f : IsIteration(f, X, x0, step, n)
  <1> DEFINE Good(m, f) == /\ f \in [0 .. m -> X]
                           /\ f[0] = x0
                           /\ \A k \in 1 .. m : f[k] = step[k][f[k - 1]]
             Bad == {m \in Nat : ~\E f : Good(m, f)}
  <1>1. Bad = {}
    <2> SUFFICES ASSUME Bad # {}
                 PROVE  FALSE
      OBVIOUS
    <2>0. Bad \subseteq Nat
      OBVIOUS
    <2>1. PICK m \in Bad : \A j \in Bad : m <= j
      <3> HIDE DEF Bad
      <3> QED
        BY <2>0, LeastNatural
    <2>2. m \in Nat /\ ~\E f : Good(m, f)
      BY <2>1
    <2>3. m # 0
      <3> SUFFICES ASSUME m = 0
                   PROVE  FALSE
        OBVIOUS
      <3>1. Good(0, [k \in 0 .. 0 |-> x0])
        OBVIOUS
      <3> HIDE DEF Good
      <3> QED
        BY <2>2, <3>1
    <2>4. m - 1 \in Nat /\ ~(m <= m - 1)
      BY <2>2, <2>3
    <2>5. PICK f : Good(m - 1, f)
      BY <2>1, <2>4
    <2> DEFINE g == [k \in 0 .. m |-> IF k = m THEN step[m][f[m - 1]] ELSE f[k]]
    <2>6. Good(m, g)
      <3>1. f[m - 1] \in X /\ step[m][f[m - 1]] \in X
        BY <2>2, <2>4, <2>5
      <3>2. g \in [0 .. m -> X]
        BY <2>2, <2>4, <2>5, <3>1
      <3>3. g[0] = x0
        BY <2>2, <2>3, <2>5
      <3>4. ASSUME NEW k \in 1 .. m
            PROVE  g[k] = step[k][g[k - 1]]
        <4>1. CASE k = m
          BY <2>2, <2>3, <4>1
        <4>2. CASE k # m
          <5>1. k \in 1 .. (m - 1) /\ k - 1 \in 0 .. m /\ k - 1 # m
            BY <2>2, <4>2
          <5> QED
            BY <2>2, <2>5, <4>2, <5>1
        <4> QED
          BY <4>1, <4>2
      <3> QED
        BY <3>2, <3>3, <3>4
    <2> HIDE DEF Good, g
    <2> QED
      BY <2>2, <2>6
  <1>2. \E f : Good(n, f)
    BY <1>1
  <1> QED
    BY <1>2 DEF IsIteration

(* The same, spelled out.                                                  *)
LEMMA IterationExists ==
    ASSUME NEW X, NEW x0 \in X, NEW step \in [Nat -> [X -> X]], NEW n \in Nat
    PROVE  \E f \in [0 .. n -> X] :
              /\ f[0] = x0
              /\ \A k \in 1 .. n : f[k] = step[k][f[k - 1]]
BY IterationFound DEF IsIteration

-----------------------------------------------------------------------------
(* Powers.                                                                 *)

(* The equation of the recursion of pown.                                  *)
PowEq(f, n, g) ==
    g = [j \in 0 .. n |-> IF j = 0 THEN 1 ELSE g[j - 1] * f]

(* It has a solution ...                                                   *)
LEMMA PowSolution ==
    ASSUME NEW f \in Nat, NEW n \in Nat
    PROVE  \E g \in [0 .. n -> Nat] : PowEq(f, n, g)
  <1> DEFINE step == [k \in Nat |-> [x \in Nat |-> x * f]]
  <1>1. step \in [Nat -> [Nat -> Nat]]
    OBVIOUS
  <1>2. \A k, x \in Nat : step[k][x] = x * f
    OBVIOUS
  <1> HIDE DEF step
  <1>3. PICK g \in [0 .. n -> Nat] :
            g[0] = 1 /\ \A k \in 1 .. n : g[k] = step[k][g[k - 1]]
    <2> DEFINE X == Nat
               one == 1
    <2>1. one \in X /\ step \in [Nat -> [X -> X]]
      BY <1>1
    <2> HIDE DEF X, one
    <2>2. \E g \in [0 .. n -> X] :
             g[0] = one /\ \A k \in 1 .. n : g[k] = step[k][g[k - 1]]
      BY <2>1, IterationExists
    <2> QED
      BY <2>2 DEF X, one
  <1>4. \A j \in 0 .. n : g[j] = IF j = 0 THEN 1 ELSE g[j - 1] * f
    <2> SUFFICES ASSUME NEW j \in 0 .. n, j # 0
                 PROVE  g[j] = g[j - 1] * f
      BY <1>3
    <2>1. j \in 1 .. n /\ j - 1 \in 0 .. n
      OBVIOUS
    <2>2. g[j - 1] \in Nat /\ j \in Nat
      BY <2>1
    <2> QED
      BY <1>2, <1>3, <2>1, <2>2
  <1> QED
    BY <1>4 DEF PowEq

(* ... and solutions agree where they are defined.                         *)
LEMMA PowUnique ==
    ASSUME NEW f \in Nat, NEW m \in Nat, NEW n \in Nat, NEW g, NEW h,
           PowEq(f, m, g), PowEq(f, n, h), NEW k \in Nat, k <= m, k <= n
    PROVE  g[k] = h[k]
  <1> DEFINE Bad == {j \in Nat : j <= m /\ j <= n /\ g[j] # h[j]}
  <1>1. Bad = {}
    <2> SUFFICES ASSUME Bad # {}
                 PROVE  FALSE
      OBVIOUS
    <2>0. Bad \subseteq Nat
      OBVIOUS
    <2>1. PICK j \in Bad : \A i \in Bad : j <= i
      <3> HIDE DEF Bad
      <3> QED
        BY <2>0, LeastNatural
    <2>2. j \in Nat /\ j <= m /\ j <= n /\ g[j] # h[j]
      BY <2>1
    <2>3. /\ g[j] = IF j = 0 THEN 1 ELSE g[j - 1] * f
          /\ h[j] = IF j = 0 THEN 1 ELSE h[j - 1] * f
      BY <2>2 DEF PowEq
    <2>4. j # 0
      BY <2>2, <2>3
    <2>5. j - 1 \in Nat /\ j - 1 <= m /\ j - 1 <= n /\ ~(j <= j - 1)
      BY <2>2, <2>4
    <2>6. g[j - 1] = h[j - 1]
      BY <2>1, <2>5
    <2> QED
      BY <2>2, <2>3, <2>6
  <1> QED
    BY <1>1

(* pown multiplies.                                                        *)
LEMMA Powers ==
    ASSUME NEW f \in Nat
    PROVE  /\ pown(f, 0) = 1
           /\ \A n \in Nat : pown(f, n) \in Nat
           /\ \A n \in Nat : pown(f, n + 1) = pown(f, n) * f
  <1> DEFINE P(n) == CHOOSE g : PowEq(f, n, g)
  <1>1. \A n \in Nat : pown(f, n) = P(n)[n]
    BY DEF pown, PowEq
  <1>2. \A n \in Nat : PowEq(f, n, P(n))
    BY PowSolution
  <1>3. ASSUME NEW n \in Nat
        PROVE  P(n)[n] \in Nat
    <2>1. PICK g \in [0 .. n -> Nat] : PowEq(f, n, g)
      BY PowSolution
    <2>2. P(n)[n] = g[n]
      BY <1>2, <2>1, PowUnique
    <2> QED
      BY <2>1, <2>2
  <1>4. P(0)[0] = 1
    <2>1. PowEq(f, 0, P(0))
      BY <1>2
    <2> HIDE DEF P
    <2> QED
      BY <2>1 DEF PowEq
  <1>5. ASSUME NEW n \in Nat
        PROVE  P(n + 1)[n + 1] = P(n)[n] * f
    <2>1. P(n + 1)[n + 1] = P(n + 1)[n] * f
      <3>1. PowEq(f, n + 1, P(n + 1)) /\ n + 1 # 0 /\ (n + 1) - 1 = n
            /\ n + 1 \in 0 .. n + 1
        BY <1>2
      <3> HIDE DEF P
      <3> QED
        BY <3>1 DEF PowEq
    <2>2. P(n + 1)[n] = P(n)[n]
      <3>1. /\ PowEq(f, n + 1, P(n + 1)) /\ PowEq(f, n, P(n))
            /\ n + 1 \in Nat /\ n <= n + 1 /\ n <= n
        BY <1>2
      <3> HIDE DEF P
      <3> QED
        BY <3>1, PowUnique
    <2> QED
      BY <2>1, <2>2
  <1> HIDE DEF P
  <1> QED
    BY <1>1, <1>3, <1>4, <1>5

(* A power of at least two is above its exponent, and powers grow.         *)
LEMMA PowersGrow ==
    ASSUME NEW f \in Nat, f >= 2
    PROVE  /\ \A n \in Nat : pown(f, n) > n
           /\ \A m, n \in Nat : m < n => pown(f, m) * f <= pown(f, n)
  <1> DEFINE p(n) == pown(f, n)
  <1>1. /\ p(0) = 1
        /\ \A n \in Nat : p(n) \in Nat
        /\ \A n \in Nat : p(n + 1) = p(n) * f
    BY Powers
  <1> HIDE DEF p
  <1>2. \A x \in Nat : x * f >= 2 * x
    OBVIOUS
  <1>3. \A n \in Nat : p(n) > n
    <2> DEFINE Bad == {n \in Nat : ~(p(n) > n)}
    <2> SUFFICES ASSUME Bad # {}
                 PROVE  FALSE
      OBVIOUS
    <2>0. Bad \subseteq Nat
      OBVIOUS
    <2>1. PICK n \in Bad : \A i \in Bad : n <= i
      <3> HIDE DEF Bad
      <3> QED
        BY <2>0, LeastNatural
    <2>2. n \in Nat /\ ~(p(n) > n)
      BY <2>1
    <2>3. n # 0
      BY <1>1, <2>2
    <2>4. n - 1 \in Nat /\ ~(n <= n - 1) /\ (n - 1) + 1 = n
      BY <2>2, <2>3
    <2>5. p(n - 1) > n - 1
      BY <2>1, <2>4
    <2>6. p(n) = p(n - 1) * f
      BY <1>1, <2>4
    <2>7. p(n) >= 2 * p(n - 1)
      BY <1>1, <1>2, <2>4, <2>6
    <2> QED
      BY <1>1, <2>2, <2>4, <2>5, <2>7
  <1>4. ASSUME NEW m \in Nat
        PROVE  \A n \in Nat : m < n => p(m) * f <= p(n)
    <2> DEFINE Bad == {n \in Nat : m < n /\ ~(p(m) * f <= p(n))}
    <2> SUFFICES ASSUME Bad # {}
                 PROVE  FALSE
      OBVIOUS
    <2>0. Bad \subseteq Nat
      OBVIOUS
    <2>1. PICK n \in Bad : \A i \in Bad : n <= i
      <3> HIDE DEF Bad
      <3> QED
        BY <2>0, LeastNatural
    <2>2. n \in Nat /\ m < n /\ ~(p(m) * f <= p(n))
      BY <2>1
    <2>4. n - 1 \in Nat /\ ~(n <= n - 1) /\ (n - 1) + 1 = n
      BY <2>2
    <2>6. p(n) = p(n - 1) * f
      BY <1>1, <2>4
    <2> DEFINE pf == p(m) * f
               qf == p(n - 1) * f
    <2>7. pf \in Nat /\ qf \in Nat /\ qf >= 2 * p(n - 1)
      <3>1. p(m) \in Nat /\ p(n - 1) \in Nat
        BY <1>1, <2>4
      <3>2. \A x \in Nat : x * f \in Nat
        OBVIOUS
      <3> QED
        BY <1>2, <3>1, <3>2
    <2>3. n # m + 1
      BY <1>1, <2>2
    <2>5. pf <= p(n - 1)
      BY <2>1, <2>2, <2>3, <2>4
    <2> HIDE DEF pf, qf
    <2> QED
      BY <1>1, <2>2, <2>4, <2>5, <2>6, <2>7 DEF pf, qf
  <1> QED
    BY <1>3, <1>4 DEF p

(* The powers of two.                                                      *)
LEMMA PowersOfTwo ==
    /\ pown(2, 0) = 1
    /\ \A n \in Nat : pown(2, n) \in Nat
    /\ \A n \in Nat : pown(2, n + 1) = pown(2, n) * 2
    /\ \A n \in Nat : pown(2, n) > n
    /\ \A m, n \in Nat : m < n => pown(2, m) * 2 <= pown(2, n)
  <1> DEFINE two == 2
  <1>1. two \in Nat /\ two >= 2
    OBVIOUS
  <1> HIDE DEF two
  <1>2. /\ pown(two, 0) = 1
        /\ \A n \in Nat : pown(two, n) \in Nat
        /\ \A n \in Nat : pown(two, n + 1) = pown(two, n) * two
        /\ \A n \in Nat : pown(two, n) > n
        /\ \A m, n \in Nat : m < n => pown(two, m) * two <= pown(two, n)
    BY <1>1, Powers, PowersGrow
  <1> QED
    BY <1>2 DEF two

(* The power of two that opal_next_poweroftwo finds: the first one above v. *)
LEMMA NextPower ==
    ASSUME NEW v \in Nat
    PROVE  \E k \in Nat :
              /\ opal_next_poweroftwo(v) = pown(2, k)
              /\ v < pown(2, k)
              /\ v = 0 => k = 0
              /\ v # 0 => k # 0 /\ pown(2, k - 1) <= v
  <1> DEFINE p(n) == pown(2, n)
             Above == {n \in Nat : p(n) > v}
  <1>1. /\ p(0) = 1
        /\ \A n \in Nat : p(n) \in Nat
        /\ \A n \in Nat : p(n + 1) = p(n) * 2
        /\ \A n \in Nat : p(n) > n
        /\ \A m, n \in Nat : m < n => p(m) * 2 <= p(n)
    BY PowersOfTwo
  <1> HIDE DEF p
  <1>2. v \in Above /\ Above \subseteq Nat
    BY <1>1
  <1>3. PICK n \in Above : \A i \in Above : n <= i
    <2> HIDE DEF Above
    <2> QED
      BY <1>2, LeastNatural
  <1>4. n \in 0 .. v /\ p(n) > v
    BY <1>2, <1>3
  <1>5. v = 0 \/ p(n) <= 2 * v
    <2> SUFFICES ASSUME v # 0
                 PROVE  p(n) <= 2 * v
      OBVIOUS
    <2>1. n # 0
      BY <1>1, <1>4
    <2>2. n - 1 \in Nat /\ ~(n <= n - 1) /\ (n - 1) + 1 = n
      BY <1>4, <2>1
    <2>3. ~(p(n - 1) > v)
      BY <1>3, <2>2
    <2> QED
      BY <1>1, <2>2, <2>3
  <1> DEFINE S == {p(k) : k \in 0 .. v}
             x == CHOOSE y \in S : y > v /\ (v = 0 \/ y <= 2 * v)
  <1>6. x \in S /\ x > v /\ (v = 0 \/ x <= 2 * v)
    <2>1. p(n) \in S
      BY <1>4
    <2> HIDE DEF S
    <2> QED
      BY <1>4, <1>5, <2>1
  <1>7. opal_next_poweroftwo(v) = x
    BY DEF opal_next_poweroftwo, p
  <1> HIDE DEF x
  <1>8. PICK k \in 0 .. v : x = p(k)
    BY <1>6
  <1>9. k \in Nat /\ v < p(k) /\ (v = 0 => k = 0)
    BY <1>6, <1>8
  <1>10. ASSUME v # 0
         PROVE  k # 0 /\ p(k - 1) <= v
    <2>1. k # 0
      BY <1>1, <1>9, <1>10
    <2>2. k - 1 \in Nat /\ (k - 1) + 1 = k
      BY <1>9, <2>1
    <2>3. p(k) = p(k - 1) * 2
      BY <1>1, <2>2
    <2> QED
      BY <1>1, <1>6, <1>8, <1>10, <2>1, <2>2, <2>3
  <1> QED
    BY <1>7, <1>8, <1>9, <1>10 DEF p

-----------------------------------------------------------------------------
(* What makes a tree.                                                      *)

(* A remainder below twice the modulus.                                    *)
LEMMA ModOnce ==
    ASSUME NEW n \in Nat \ {0}, NEW a \in Nat, a < 2 * n
    PROVE  a % n = IF a < n THEN a ELSE a - n
  <1>1. CASE a < n
    <2>1. a \in 0 .. (n - 1) /\ n * 0 + a = a /\ 0 \in Nat
      BY <1>1
    <2>2. (n * 0 + a) % n = a
      BY <2>1, Quotient
    <2> QED
      BY <1>1, <2>1, <2>2
  <1>2. CASE ~(a < n)
    <2>1. a - n \in 0 .. (n - 1) /\ n * 1 + (a - n) = a /\ 1 \in Nat
      BY <1>2
    <2>2. (n * 1 + (a - n)) % n = a - n
      BY <2>1, Quotient
    <2> QED
      BY <1>2, <2>1, <2>2
  <1> QED
    BY <1>1, <1>2

(* Shifting the ranks so that the root becomes 0, and back.                *)
LEMMA Shifting ==
    ASSUME NEW size \in Nat \ {0}, NEW root \in 0 .. (size - 1),
           NEW r \in 0 .. (size - 1)
    PROVE  /\ Shifted(size, root, r) \in 0 .. (size - 1)
           /\ Shifted(size, root, r) = 0 <=> r = root
           /\ (Shifted(size, root, r) + root) % size = r
           /\ (r + root) % size \in 0 .. (size - 1)
           /\ Shifted(size, root, (r + root) % size) = r
  <1>1. Shifted(size, root, r) = IF r < root THEN r - root + size ELSE r - root
    <2>1. r - root + size \in Nat /\ r - root + size < 2 * size
      OBVIOUS
    <2>2. (r - root + size) % size
            = IF r - root + size < size THEN r - root + size
              ELSE (r - root + size) - size
      BY <2>1, ModOnce
    <2> QED
      BY <2>2 DEF Shifted
  <1>2. ASSUME NEW u \in 0 .. (size - 1)
        PROVE  (u + root) % size = IF u + root < size THEN u + root
                                   ELSE u + root - size
    <2> DEFINE a == u + root
    <2>1. a \in Nat /\ a < 2 * size
      OBVIOUS
    <2> HIDE DEF a
    <2>2. a % size = IF a < size THEN a ELSE a - size
      BY <2>1, ModOnce
    <2> QED
      BY <2>2 DEF a
  <1>3. Shifted(size, root, r) \in 0 .. (size - 1)
    BY <1>1
  <1>4. (Shifted(size, root, r) + root) % size = r
    BY <1>1, <1>2, <1>3
  <1> DEFINE s == (r + root) % size
  <1>5. s = IF r + root < size THEN r + root ELSE r + root - size
    BY <1>2
  <1> HIDE DEF s
  <1>6. s \in 0 .. (size - 1)
    BY <1>5
  <1>7. Shifted(size, root, s) = r
    <2>1. s - root + size \in Nat /\ s - root + size < 2 * size
      BY <1>6
    <2>2. (s - root + size) % size
            = IF s - root + size < size THEN s - root + size
              ELSE (s - root + size) - size
      BY <2>1, ModOnce
    <2> QED
      BY <1>5, <2>2 DEF Shifted
  <1> QED
    BY <1>1, <1>3, <1>4, <1>6, <1>7 DEF s

(* The same, of all ranks.                                                 *)
LEMMA ShiftingAll ==
    ASSUME NEW size \in Nat \ {0}, NEW root \in 0 .. (size - 1)
    PROVE  \A r \in 0 .. (size - 1) :
              /\ Shifted(size, root, r) \in 0 .. (size - 1)
              /\ Shifted(size, root, r) = 0 <=> r = root
              /\ (Shifted(size, root, r) + root) % size = r
              /\ (r + root) % size \in 0 .. (size - 1)
              /\ Shifted(size, root, (r + root) % size) = r
  BY Shifting

(* The equation of the recursion of climb ...                              *)
ClimbEq(g, size, R, top, view) ==
    g = [n \in 0 .. size |->
            [r \in R |-> IF r = top \/ n = 0 THEN r ELSE g[n - 1][view[r].prev]]]

(* ... has a solution.                                                     *)
LEMMA ClimbExists ==
    ASSUME NEW size \in Nat, NEW R, NEW top, NEW view,
           \A r \in R \ {top} : view[r].prev \in R
    PROVE  \E g : ClimbEq(g, size, R, top, view)
  <1> DEFINE X == [R -> R]
             id == [r \in R |-> r]
             step == [k \in Nat |-> [h \in X |->
                        [r \in R |-> IF r = top THEN r ELSE h[view[r].prev]]]]
  <1>1. id \in X /\ step \in [Nat -> [X -> X]]
    <2>1. ASSUME NEW h \in X
          PROVE  [r \in R |-> IF r = top THEN r ELSE h[view[r].prev]] \in X
      OBVIOUS
    <2>2. id \in X
      OBVIOUS
    <2> HIDE DEF X
    <2> QED
      BY <2>1, <2>2
  <1>2. PICK g \in [0 .. size -> X] :
            g[0] = id /\ \A k \in 1 .. size : g[k] = step[k][g[k - 1]]
    <2> HIDE DEF X, id, step
    <2> QED
      BY <1>1, IterationExists
  <1>3. ASSUME NEW n \in 0 .. size
        PROVE  g[n] = [r \in R |-> IF r = top \/ n = 0 THEN r
                                   ELSE g[n - 1][view[r].prev]]
    <2>1. CASE n = 0
      BY <1>2, <2>1
    <2>2. CASE n # 0
      <3>1. n \in 1 .. size /\ n - 1 \in 0 .. size /\ n \in Nat
        BY <2>2
      <3>2. g[n - 1] \in X
        BY <3>1
      <3>3. g[n] = step[n][g[n - 1]]
        BY <1>2, <3>1
      <3>4. g[n] = [r \in R |-> IF r = top THEN r ELSE g[n - 1][view[r].prev]]
        BY <3>1, <3>2, <3>3
      <3> QED
        BY <2>2, <3>4
    <2> QED
      BY <2>1, <2>2
  <1>4. DOMAIN g = 0 .. size
    OBVIOUS
  <1>5. g = [n \in 0 .. size |->
               [r \in R |-> IF r = top \/ n = 0 THEN r
                            ELSE g[n - 1][view[r].prev]]]
    <2> HIDE DEF X, id, step
    <2> QED
      BY <1>3, <1>4
  <1> QED
    BY <1>5 DEF ClimbEq

(* Parents that come closer to the root lead up to it.                     *)
LEMMA ParentsMakeTree ==
    ASSUME NEW size \in Nat \ {0}, NEW top \in 0 .. (size - 1), NEW view,
           NEW far \in [0 .. (size - 1) -> 0 .. size],
           \A p \in 0 .. (size - 1) :
               /\ view[p].next \in Seq((0 .. (size - 1)) \ {top})
               /\ \A i, j \in 1 .. Len(view[p].next) :
                     view[p].next[i] = view[p].next[j] => i = j,
           \A r \in (0 .. (size - 1)) \ {top} :
               /\ view[r].prev \in 0 .. (size - 1)
               /\ far[view[r].prev] < far[r],
           \A p \in 0 .. (size - 1), r \in (0 .. (size - 1)) \ {top} :
               (\E i \in 1 .. Len(view[p].next) : view[p].next[i] = r)
                   <=> view[r].prev = p
    PROVE  OneTree(view, size, top)
  <1> DEFINE ranks == 0 .. (size - 1)
             climb == CHOOSE g : ClimbEq(g, size, ranks, top, view)
  <1>1. ClimbEq(climb, size, ranks, top, view)
    <2>1. size \in Nat /\ \A r \in ranks \ {top} : view[r].prev \in ranks
      OBVIOUS
    <2> HIDE DEF ranks
    <2>2. \E g : ClimbEq(g, size, ranks, top, view)
      BY <2>1, ClimbExists
    <2> QED
      BY <2>2
  <1> HIDE DEF climb
  <1>2. \A n \in 0 .. size : \A r \in ranks : far[r] <= n => climb[n][r] = top
    <2> DEFINE Bad == {n \in 0 .. size :
                          ~\A r \in ranks : far[r] <= n => climb[n][r] = top}
    <2> SUFFICES ASSUME Bad # {}
                 PROVE  FALSE
      OBVIOUS
    <2>0. Bad \subseteq Nat
      OBVIOUS
    <2>1. PICK n \in Bad : \A i \in Bad : n <= i
      <3> HIDE DEF Bad
      <3> QED
        BY <2>0, LeastNatural
    <2>2. PICK r \in ranks : far[r] <= n /\ climb[n][r] # top
      BY <2>1
    <2>3. n \in 0 .. size
      BY <2>1
    <2>4. climb[n][r] = IF r = top \/ n = 0 THEN r ELSE climb[n - 1][view[r].prev]
      <3>1. climb[n] = [q \in ranks |-> IF q = top \/ n = 0 THEN q
                                        ELSE climb[n - 1][view[q].prev]]
        BY ONLY <1>1, <2>3 DEF ClimbEq
      <3>2. r \in ranks
        OBVIOUS
      <3> QED
        BY ONLY <3>1, <3>2
    <2>5. r # top
      BY ONLY <2>2, <2>4
    <2>6. /\ view[r].prev \in ranks /\ far[view[r].prev] < far[r]
          /\ far[view[r].prev] \in Nat /\ far[r] \in Nat
      BY <2>5
    <2>a. size \in Nat /\ far[r] <= n
      BY <2>2
    <2>7. n # 0
      BY ONLY <2>a, <2>3, <2>6
    <2>8. n - 1 \in 0 .. size /\ ~(n <= n - 1) /\ far[view[r].prev] <= n - 1
      BY ONLY <2>a, <2>3, <2>6, <2>7
    <2>9. climb[n - 1][view[r].prev] = top
      BY <2>1, <2>6, <2>8
    <2> QED
      BY <2>2, <2>4, <2>5, <2>7, <2>9
  <1>3. \A r \in ranks : climb[size][r] = top
    BY <1>2
  <1>4. \A p \in ranks : /\ DOMAIN view[p].next = 1 .. Len(view[p].next)
                         /\ view[p].next \in Seq(ranks \ {top})
                         /\ IsInjective(view[p].next)
    <2> TAKE p \in ranks
    <2>1. view[p].next \in Seq(ranks \ {top})
      OBVIOUS
    <2> DEFINE q == view[p].next
    <2>2. \A i, j \in 1 .. Len(q) : q[i] = q[j] => i = j
      OBVIOUS
    <2> HIDE DEF q
    <2>3. q \in Seq(ranks \ {top})
      BY <2>1 DEF q
    <2>4. DOMAIN q = 1 .. Len(q) /\ \A i \in 1 .. Len(q) : q[i] \in ranks \ {top}
      <3> HIDE DEF ranks
      <3> QED
        BY <2>3
    <2>5. IsInjective(q)
      BY <2>2, <2>4 DEF IsInjective
    <2> QED
      BY <2>3, <2>4, <2>5 DEF q
  <1>5. \A p \in ranks, r \in ranks \ {top} :
            r \in ToSet(view[p].next) <=> view[r].prev = p
    <2> TAKE p \in ranks, r \in ranks \ {top}
    <2>1. (\E i \in 1 .. Len(view[p].next) : view[p].next[i] = r)
              <=> view[r].prev = p
      OBVIOUS
    <2>2. DOMAIN view[p].next = 1 .. Len(view[p].next)
      BY <1>4
    <2> DEFINE q == view[p].next
    <2> HIDE DEF q
    <2>3. r \in ToSet(q) <=> \E i \in 1 .. Len(q) : q[i] = r
      <3>1. DOMAIN q = 1 .. Len(q)
        BY <2>2 DEF q
      <3> QED
        BY ONLY <3>1 DEF ToSet
    <2> QED
      BY <2>1, <2>3 DEF q
  <1>6. OneTree(view, size, top) <=>
          /\ \A p \in ranks : /\ view[p].next \in Seq(ranks \ {top})
                              /\ IsInjective(view[p].next)
          /\ \A r \in ranks \ {top} : view[r].prev \in ranks \ {r}
          /\ \A p \in ranks, r \in ranks \ {top} :
                r \in ToSet(view[p].next) <=> view[r].prev = p
          /\ \A r \in ranks : climb[size][r] = top
    BY DEF OneTree, climb, ClimbEq
  <1>7. \A r \in ranks \ {top} : view[r].prev \in ranks \ {r}
    <2> TAKE r \in ranks \ {top}
    <2>1. view[r].prev \in ranks /\ far[view[r].prev] < far[r] /\ far[r] \in Nat
      OBVIOUS
    <2> QED
      BY ONLY <2>1
  <1> QED
    BY ONLY <1>3, <1>4, <1>5, <1>6, <1>7

(* A tree on the shifted ranks, given by the parent and the children of    *)
(* each, in which parents precede their children ...                       *)
PlacesFit(size, par, chi) ==
    /\ \A s \in 0 .. (size - 1) :
          /\ chi[s] \in Seq(1 .. (size - 1))
          /\ \A i, j \in 1 .. Len(chi[s]) : chi[s][i] = chi[s][j] => i = j
    /\ \A s \in 1 .. (size - 1) : par[s] \in 0 .. (s - 1)
    /\ \A p \in 0 .. (size - 1), s \in 1 .. (size - 1) :
          (\E i \in 1 .. Len(chi[p]) : chi[p][i] = s) <=> par[s] = p

(* ... and views of the ranks that follow it ...                           *)
Follows(view, size, root, par, chi) ==
    \A r \in 0 .. (size - 1) :
        /\ view[r].next = [i \in 1 .. Len(chi[Shifted(size, root, r)]) |->
                              (chi[Shifted(size, root, r)][i] + root) % size]
        /\ r # root =>
             view[r].prev = (par[Shifted(size, root, r)] + root) % size

(* ... make a tree on the ranks.                                           *)
LEMMA ShiftedTree ==
    ASSUME NEW size \in Nat \ {0}, NEW root \in 0 .. (size - 1), NEW view,
           NEW par, NEW chi,
           PlacesFit(size, par, chi), Follows(view, size, root, par, chi)
    PROVE  OneTree(view, size, root)
  <1> DEFINE ranks == 0 .. (size - 1)
             sh(r) == Shifted(size, root, r)
             un(s) == (s + root) % size
             far == [r \in ranks |-> sh(r)]
  <1>1. \A r \in ranks : /\ sh(r) \in ranks /\ (sh(r) = 0 <=> r = root)
                         /\ un(sh(r)) = r /\ un(r) \in ranks /\ sh(un(r)) = r
    <2>1. \A r \in 0 .. (size - 1) :
             /\ Shifted(size, root, r) \in 0 .. (size - 1)
             /\ Shifted(size, root, r) = 0 <=> r = root
             /\ (Shifted(size, root, r) + root) % size = r
             /\ (r + root) % size \in 0 .. (size - 1)
             /\ Shifted(size, root, (r + root) % size) = r
      <3> HIDE DEF ranks, sh, un, far
      <3>1. size \in Nat \ {0} /\ root \in 0 .. (size - 1)
        OBVIOUS
      <3> QED
        BY ONLY <3>1, ShiftingAll
    <2> QED
      BY ONLY <2>1, Zenon
  <1> USE DEF PlacesFit, Follows
  <1>2. \A r \in ranks :
            /\ view[r].next = [i \in 1 .. Len(chi[sh(r)]) |-> un(chi[sh(r)][i])]
            /\ r # root => view[r].prev = un(par[sh(r)])
    OBVIOUS
  <1> HIDE DEF sh, un
  <1>3. \A r \in ranks \ {root} : sh(r) \in 1 .. (size - 1)
    BY <1>1
  <1>4. \A s \in 1 .. (size - 1) : un(s) \in ranks \ {root}
    BY <1>1
  <1>5. ASSUME NEW p \in ranks
        PROVE  /\ view[p].next \in Seq(ranks \ {root})
               /\ Len(view[p].next) = Len(chi[sh(p)])
               /\ \A i \in 1 .. Len(chi[sh(p)]) :
                     /\ chi[sh(p)][i] \in 1 .. (size - 1)
                     /\ view[p].next[i] = un(chi[sh(p)][i])
               /\ \A i, j \in 1 .. Len(view[p].next) :
                     view[p].next[i] = view[p].next[j] => i = j
    <2> DEFINE c == chi[sh(p)]
               v == view[p].next
               S == 1 .. (size - 1)
    <2>1. /\ c \in Seq(S)
          /\ \A i, j \in 1 .. Len(c) : c[i] = c[j] => i = j
          /\ v = [i \in 1 .. Len(c) |-> un(c[i])]
      BY <1>1, <1>2
    <2>2. \A s \in S : un(s) \in ranks \ {root} /\ sh(un(s)) = s
      BY <1>1, <1>4
    <2> HIDE DEF c, v, S
    <2>3. Len(c) \in Nat /\ \A i \in 1 .. Len(c) : c[i] \in S
      BY <2>1
    <2>4. \A i \in 1 .. Len(c) : un(c[i]) \in ranks \ {root}
      BY <2>2, <2>3
    <2>5. v \in Seq(ranks \ {root}) /\ Len(v) = Len(c)
      <3> DEFINE T == ranks \ {root}
                 f(i) == un(c[i])
      <3>1. \A i \in 1 .. Len(c) : f(i) \in T
        BY <2>4
      <3>2. v = [i \in 1 .. Len(c) |-> f(i)]
        BY <2>1
      <3> HIDE DEF T, f
      <3>3. v \in Seq(T) /\ Len(v) = Len(c)
        BY <2>3, <3>1, <3>2
      <3> QED
        BY <3>3 DEF T
    <2>6. \A i \in 1 .. Len(c) : v[i] = un(c[i])
      BY <2>1
    <2>7. ASSUME NEW i \in 1 .. Len(c), NEW j \in 1 .. Len(c), v[i] = v[j]
          PROVE  i = j
      <3>1. un(c[i]) = un(c[j])
        BY <2>6, <2>7
      <3>2. c[i] = c[j]
        BY <2>2, <2>3, <3>1
      <3> QED
        BY <2>1, <3>2
    <2> QED
      BY <2>3, <2>5, <2>6, <2>7 DEF c, v, S
  <1>6. ASSUME NEW r \in ranks \ {root}
        PROVE  /\ view[r].prev \in ranks
               /\ sh(view[r].prev) = par[sh(r)]
               /\ far[view[r].prev] < far[r]
    <2>1. sh(r) \in 1 .. (size - 1) /\ view[r].prev = un(par[sh(r)])
      BY <1>2, <1>3
    <2>2. par[sh(r)] \in 0 .. (sh(r) - 1)
      BY <2>1
    <2>3. par[sh(r)] \in ranks
      BY <2>1, <2>2
    <2>4. view[r].prev \in ranks /\ sh(view[r].prev) = par[sh(r)]
      <3> DEFINE q == par[sh(r)]
      <3>1. un(q) \in ranks /\ sh(un(q)) = q
        <4>1. q \in ranks
          BY <2>3
        <4> HIDE DEF q, ranks
        <4> QED
          BY <1>1, <4>1
      <3> QED
        BY <2>1, <3>1
    <2> QED
      BY <2>1, <2>2, <2>4
  <1>7. ASSUME NEW p \in ranks, NEW r \in ranks \ {root}
        PROVE  (\E i \in 1 .. Len(view[p].next) : view[p].next[i] = r)
                   <=> view[r].prev = p
    <2>1. (\E i \in 1 .. Len(chi[sh(p)]) : chi[sh(p)][i] = sh(r))
             <=> par[sh(r)] = sh(p)
      BY <1>1, <1>3
    <2>2. par[sh(r)] = sh(p) <=> view[r].prev = p
      <3>1. /\ view[r].prev = un(par[sh(r)]) /\ sh(view[r].prev) = par[sh(r)]
            /\ un(sh(p)) = p
        BY <1>1, <1>2, <1>6
      <3> HIDE DEF ranks
      <3> QED
        BY <3>1
    <2>3. ASSUME NEW i \in 1 .. Len(chi[sh(p)])
          PROVE  chi[sh(p)][i] = sh(r) <=> view[p].next[i] = r
      <3> DEFINE q == chi[sh(p)][i]
      <3>1. /\ q \in 1 .. (size - 1)
            /\ view[p].next[i] = un(q)
        BY <1>5
      <3>2. q \in ranks
        BY <3>1
      <3>3. sh(un(q)) = q /\ un(sh(r)) = r
        <4> HIDE DEF q, ranks
        <4> QED
          BY <1>1, <3>2
      <3> HIDE DEF ranks
      <3> QED
        BY <3>1, <3>3
    <2>4. Len(view[p].next) = Len(chi[sh(p)])
      BY <1>5
    <2> QED
      BY <2>1, <2>2, <2>3, <2>4
  <1>8. far \in [ranks -> 0 .. size]
    BY <1>1
  <1> HIDE DEF far
  <1> QED
    BY <1>5, <1>6, <1>7, <1>8, ParentsMakeTree

-----------------------------------------------------------------------------
(* Children that are counted, and bits.                                    *)

(* A set of numbers that leaves none out from 1 on is counted by itself.   *)
LEMMA PrefixSet ==
    ASSUME NEW n \in Nat, NEW A, A \subseteq 1 .. n,
           \A i \in A : \A j \in 1 .. i : j \in A
    PROVE  Cardinality(A) \in 0 .. n /\ A = 1 .. Cardinality(A)
  <1> DEFINE Out == {j \in 1 .. (n + 1) : j \notin A}
  <1>1. Out # {} /\ Out \subseteq Nat
    <2>1. n + 1 \in Out
      OBVIOUS
    <2> QED
      BY <2>1
  <1>2. PICK k \in Out : \A j \in Out : k <= j
    <2> HIDE DEF Out
    <2> QED
      BY <1>1, LeastNatural
  <1>3. k \in 1 .. (n + 1) /\ k \notin A
    BY <1>2
  <1>4. \A j \in 1 .. (k - 1) : j \in A
    <2> TAKE j \in 1 .. (k - 1)
    <2>1. j \in 1 .. (n + 1) /\ ~(k <= j)
      BY <1>3
    <2> QED
      BY <1>2, <2>1
  <1>5. \A i \in A : i < k
    <2> SUFFICES ASSUME NEW i \in A, ~(i < k)
                 PROVE  FALSE
      OBVIOUS
    <2>1. k \in 1 .. i
      BY <1>3
    <2> QED
      BY <1>3, <2>1
  <1>6. A = 1 .. (k - 1)
    <2>1. \A i \in A : i \in 1 .. (k - 1)
      <3> TAKE i \in A
      <3>1. i \in 1 .. n /\ i < k
        BY <1>5
      <3> QED
        BY <1>3, <3>1
    <2> QED
      BY <1>4, <2>1
  <1>7. Cardinality(1 .. (k - 1)) = k - 1
    <2>1. 1 \in Int /\ k - 1 \in Int
      BY <1>3
    <2>2. Cardinality(1 .. (k - 1)) = IF 1 > k - 1 THEN 0 ELSE (k - 1) - 1 + 1
      BY <2>1, FS_Interval
    <2> QED
      BY <1>3, <2>2
  <1> QED
    BY <1>3, <1>6, <1>7

(* Setting a bit that is not set, and clearing the highest one.            *)
LEMMA FlipUp ==
    ASSUME NEW v \in Nat, NEW m \in Nat, v < m
    PROVE  Flip(v, m) = v + m
  <1>1. m \in Nat \ {0} /\ v \in 0 .. (m - 1) /\ m * 0 + v = v /\ 0 \in Nat
    OBVIOUS
  <1>2. (m * 0 + v) \div m = 0
    BY <1>1, Quotient
  <1> QED
    BY <1>1, <1>2 DEF Flip

(* See FlipUp.                                                             *)
LEMMA FlipDown ==
    ASSUME NEW v \in Nat, NEW m \in Nat, m <= v, v < 2 * m
    PROVE  Flip(v, m) = v - m
  <1>1. /\ m \in Nat \ {0} /\ v - m \in 0 .. (m - 1) /\ m * 1 + (v - m) = v
        /\ 1 \in Nat
    OBVIOUS
  <1>2. (m * 1 + (v - m)) \div m = 1
    BY <1>1, Quotient
  <1>3. v \div m = 1
    BY <1>1, <1>2
  <1> QED
    BY <1>3 DEF Flip

(* Powers multiply by adding exponents, and do not shrink.                 *)
LEMMA PowersAdd ==
    ASSUME NEW a \in Nat
    PROVE  \A b \in Nat : pown(2, a) * pown(2, b) = pown(2, a + b)
  <1> DEFINE p(n) == pown(2, n)
             Bad == {b \in Nat : p(a) * p(b) # p(a + b)}
  <1>1. /\ p(0) = 1
        /\ \A n \in Nat : p(n) \in Nat
        /\ \A n \in Nat : p(n + 1) = p(n) * 2
    BY PowersOfTwo
  <1> HIDE DEF p
  <1>2. Bad = {}
    <2> SUFFICES ASSUME Bad # {}
                 PROVE  FALSE
      OBVIOUS
    <2>0. Bad \subseteq Nat
      OBVIOUS
    <2>1. PICK b \in Bad : \A i \in Bad : b <= i
      <3> HIDE DEF Bad
      <3> QED
        BY <2>0, LeastNatural
    <2>2. b \in Nat /\ p(a) * p(b) # p(a + b)
      BY <2>1
    <2>3. b # 0
      BY <1>1, <2>2
    <2>4. /\ b - 1 \in Nat /\ ~(b <= b - 1) /\ (b - 1) + 1 = b
          /\ a + (b - 1) \in Nat /\ (a + (b - 1)) + 1 = a + b
      BY <2>2, <2>3
    <2>5. p(a) * p(b - 1) = p(a + (b - 1))
      BY <2>1, <2>4
    <2>6. p(b) = p(b - 1) * 2 /\ p(a + b) = p(a + (b - 1)) * 2
      BY <1>1, <2>4
    <2>7. \A x, y \in Nat : x * (y * 2) = (x * y) * 2
      OBVIOUS
    <2>8. p(a) \in Nat /\ p(b - 1) \in Nat
      BY <1>1, <2>4
    <2>9. p(a) * (p(b - 1) * 2) = (p(a) * p(b - 1)) * 2
      BY <2>7, <2>8
    <2> QED
      BY <2>2, <2>5, <2>6, <2>9
  <1> QED
    BY <1>2 DEF p

(* See PowersAdd.                                                          *)
LEMMA PowersOrdered ==
    /\ \A a, b \in Nat : a <= b => pown(2, a) <= pown(2, b)
    /\ \A a, b \in Nat : a < b => pown(2, a) < pown(2, b)
    /\ \A a, b \in Nat : pown(2, a) = pown(2, b) => a = b
    /\ \A a \in Nat : pown(2, a) \in Nat /\ pown(2, a) > a
  <1> DEFINE p(n) == pown(2, n)
  <1>1. /\ \A n \in Nat : p(n) \in Nat
        /\ \A n \in Nat : p(n) > n
        /\ \A m, n \in Nat : m < n => p(m) * 2 <= p(n)
    BY PowersOfTwo
  <1> HIDE DEF p
  <1>2. \A a, b \in Nat : a < b => p(a) < p(b)
    <2> TAKE a \in Nat, b \in Nat
    <2>1. p(a) \in Nat /\ p(b) \in Nat /\ p(a) > a
      BY <1>1
    <2>2. a < b => p(a) * 2 <= p(b)
      BY <1>1
    <2> QED
      BY <2>1, <2>2
  <1>3. \A a, b \in Nat : a <= b => p(a) <= p(b)
    <2> TAKE a \in Nat, b \in Nat
    <2>1. p(a) \in Nat /\ p(b) \in Nat
      BY <1>1
    <2>2. a = b \/ a < b \/ b < a
      OBVIOUS
    <2> QED
      BY <1>2, <2>1, <2>2
  <1>4. \A a, b \in Nat : p(a) = p(b) => a = b
    <2> TAKE a \in Nat, b \in Nat
    <2>1. p(a) \in Nat /\ p(b) \in Nat
      BY <1>1
    <2>2. a = b \/ a < b \/ b < a
      OBVIOUS
    <2> QED
      BY <1>2, <2>1, <2>2
  <1> QED
    BY <1>1, <1>2, <1>3, <1>4 DEF p

-----------------------------------------------------------------------------
(* The binomial tree, on shifted ranks: the parent of s, where its i-th    *)
(* child is, and the children that there are.                              *)
bmParent(s) == Flip(s, opal_next_poweroftwo(s) \div 2)
bmChild(s, i) == Flip(s, opal_next_poweroftwo(s) * pown(2, i - 1))
bmChildren(size, s) ==
    {i \in 1 .. size : /\ opal_next_poweroftwo(s) * pown(2, i - 1) < size
                       /\ bmChild(s, i) < size}

(* With k bits taken by s, its parent lacks the highest one, and its       *)
(* children set a further one.                                             *)
LEMMA BmPlace ==
    ASSUME NEW s \in Nat
    PROVE  \E k \in Nat :
              /\ s < pown(2, k)
              /\ s = 0 => k = 0
              /\ s # 0 => /\ k # 0 /\ pown(2, k - 1) <= s
                          /\ bmParent(s) = s - pown(2, k - 1)
              /\ \A i \in Nat \ {0} :
                    /\ opal_next_poweroftwo(s) * pown(2, i - 1) = pown(2, k + i - 1)
                    /\ bmChild(s, i) = s + pown(2, k + i - 1)
  <1>1. PICK k \in Nat :
           /\ opal_next_poweroftwo(s) = pown(2, k)
           /\ s < pown(2, k)
           /\ s = 0 => k = 0
           /\ s # 0 => k # 0 /\ pown(2, k - 1) <= s
    BY NextPower
  <1>2. ASSUME s # 0
        PROVE  bmParent(s) = s - pown(2, k - 1)
    <2> DEFINE m == pown(2, k - 1)
    <2>1. k - 1 \in Nat /\ (k - 1) + 1 = k
      BY <1>1, <1>2
    <2>2. m \in Nat /\ pown(2, k) = m * 2
      BY <2>1, PowersOfTwo
    <2>3. m <= s /\ s < 2 * m
      BY <1>1, <1>2, <2>2
    <2> HIDE DEF m
    <2>4. (m * 2) \div 2 = m
      BY <2>2
    <2>5. Flip(s, m) = s - m
      BY <2>2, <2>3, FlipDown
    <2> QED
      BY <1>1, <2>2, <2>4, <2>5 DEF bmParent, m
  <1>3. ASSUME NEW i \in Nat \ {0}
        PROVE  /\ opal_next_poweroftwo(s) * pown(2, i - 1) = pown(2, k + i - 1)
               /\ bmChild(s, i) = s + pown(2, k + i - 1)
    <2>1. i - 1 \in Nat /\ k + (i - 1) = k + i - 1 /\ k + i - 1 \in Nat /\ k <= k + i - 1
      OBVIOUS
    <2>2. pown(2, k) * pown(2, i - 1) = pown(2, k + i - 1)
      <3>1. pown(2, k) * pown(2, i - 1) = pown(2, k + (i - 1))
        BY <2>1, PowersAdd
      <3> QED
        BY <2>1, <3>1
    <2>3. /\ pown(2, k) \in Nat /\ pown(2, k + i - 1) \in Nat
          /\ pown(2, k) <= pown(2, k + i - 1)
      BY <2>1, PowersOrdered
    <2>4. s < pown(2, k + i - 1)
      BY <1>1, <2>3
    <2>5. Flip(s, pown(2, k + i - 1)) = s + pown(2, k + i - 1)
      BY <2>3, <2>4, FlipUp
    <2> QED
      BY <1>1, <2>2, <2>5 DEF bmChild
  <1> QED
    BY <1>1, <1>2, <1>3

(* The powers of two around a number tell it apart.                        *)
LEMMA HighestBit ==
    ASSUME NEW s \in Nat, NEW a \in Nat, NEW b \in Nat,
           pown(2, a) <= s, s < pown(2, a + 1),
           pown(2, b) <= s, s < pown(2, b + 1)
    PROVE  a = b
  <1>1. /\ pown(2, a) \in Nat /\ pown(2, b) \in Nat
        /\ pown(2, a + 1) \in Nat /\ pown(2, b + 1) \in Nat
        /\ a + 1 \in Nat /\ b + 1 \in Nat
    BY PowersOrdered
  <1>2. ~(a < b)
    <2>1. a + 1 <= b => pown(2, a + 1) <= pown(2, b)
      BY <1>1, PowersOrdered
    <2> QED
      BY <1>1, <2>1
  <1>3. ~(b < a)
    <2>1. b + 1 <= a => pown(2, b + 1) <= pown(2, a)
      BY <1>1, PowersOrdered
    <2> QED
      BY <1>1, <2>1
  <1> QED
    BY <1>2, <1>3

(* The children of a rank are ranks behind it, and different ones.         *)
LEMMA BmChildren ==
    ASSUME NEW size \in Nat \ {0}, NEW s \in 0 .. (size - 1)
    PROVE  /\ Cardinality(bmChildren(size, s)) \in Nat
           /\ bmChildren(size, s) = 1 .. Cardinality(bmChildren(size, s))
           /\ \A i \in bmChildren(size, s) : bmChild(s, i) \in 1 .. (size - 1)
           /\ \A i, j \in bmChildren(size, s) :
                 bmChild(s, i) = bmChild(s, j) => i = j
  <1>0. s \in Nat
    OBVIOUS
  <1>1. PICK k \in Nat :
           \A i \in Nat \ {0} :
              /\ opal_next_poweroftwo(s) * pown(2, i - 1) = pown(2, k + i - 1)
              /\ bmChild(s, i) = s + pown(2, k + i - 1)
    BY <1>0, BmPlace
  <1> DEFINE A == bmChildren(size, s)
             q(i) == pown(2, k + i - 1)
  <1>2. \A i \in Nat \ {0} :
           /\ q(i) \in Nat \ {0}
           /\ bmChild(s, i) = s + q(i)
           /\ i \in A <=> i <= size /\ q(i) < size /\ s + q(i) < size
    <2> TAKE i \in Nat \ {0}
    <2>1. k + i - 1 \in Nat
      OBVIOUS
    <2>2. q(i) \in Nat /\ q(i) > k + i - 1
      BY <2>1, PowersOrdered
    <2> QED
      BY <1>1, <2>1, <2>2 DEF bmChildren
  <1>3. \A i, j \in Nat \ {0} : (i <= j => q(i) <= q(j)) /\ (q(i) = q(j) => i = j)
    <2> TAKE i, j \in Nat \ {0}
    <2>1. k + i - 1 \in Nat /\ k + j - 1 \in Nat
      OBVIOUS
    <2>2. /\ k + i - 1 <= k + j - 1 => q(i) <= q(j)
          /\ q(i) = q(j) => k + i - 1 = k + j - 1
      BY <2>1, PowersOrdered
    <2> QED
      BY <2>1, <2>2
  <1>4. A \subseteq 1 .. size
    BY DEF bmChildren
  <1> HIDE DEF A, q
  <1>5. \A i \in A : \A j \in 1 .. i : j \in A
    <2> TAKE i \in A
    <2> TAKE j \in 1 .. i
    <2>1. i \in Nat \ {0} /\ j \in Nat \ {0} /\ j <= i
      BY <1>4
    <2>2. /\ i <= size /\ q(i) < size /\ s + q(i) < size
          /\ q(i) \in Nat /\ q(j) \in Nat /\ q(j) <= q(i)
      BY <1>2, <1>3, <2>1
    <2> QED
      BY <1>2, <2>1, <2>2
  <1>6. Cardinality(A) \in 0 .. size /\ A = 1 .. Cardinality(A)
    <2>1. size \in Nat
      OBVIOUS
    <2> QED
      BY <1>4, <1>5, <2>1, PrefixSet
  <1>7. \A i \in A : bmChild(s, i) \in 1 .. (size - 1)
    <2> TAKE i \in A
    <2>1. i \in Nat \ {0}
      BY <1>4
    <2> QED
      BY <1>2, <2>1
  <1>8. \A i, j \in A : bmChild(s, i) = bmChild(s, j) => i = j
    <2> TAKE i, j \in A
    <2>1. i \in Nat \ {0} /\ j \in Nat \ {0}
      BY <1>4
    <2>2. /\ bmChild(s, i) = s + q(i) /\ bmChild(s, j) = s + q(j)
          /\ q(i) \in Nat /\ q(j) \in Nat
      BY <1>2, <2>1
    <2>3. s + q(i) = s + q(j) => q(i) = q(j)
      BY <2>2
    <2> QED
      BY <1>3, <2>1, <2>2, <2>3
  <1> QED
    BY <1>6, <1>7, <1>8 DEF A

(* The parent of a rank is the one whose child it is.                      *)
LEMMA BmParent ==
    ASSUME NEW size \in Nat \ {0}, NEW s \in 1 .. (size - 1)
    PROVE  /\ bmParent(s) \in 0 .. (s - 1)
           /\ \A p \in 0 .. (size - 1) :
                 (\E i \in bmChildren(size, p) : bmChild(p, i) = s)
                     <=> bmParent(s) = p
  <1>1. PICK k \in Nat : /\ s < pown(2, k) /\ k # 0 /\ pown(2, k - 1) <= s
                         /\ bmParent(s) = s - pown(2, k - 1)
    <2>1. s \in Nat /\ s # 0
      OBVIOUS
    <2> QED
      BY <2>1, BmPlace
  <1> DEFINE a == k - 1
             m == pown(2, a)
  <1>2. /\ a \in Nat /\ k = a + 1 /\ m \in Nat /\ m > a
        /\ pown(2, a + 1) = m * 2 /\ m <= s /\ s < m * 2
        /\ bmParent(s) = s - m
    <2>1. a \in Nat /\ k = a + 1
      BY <1>1
    <2> QED
      BY <1>1, <2>1, PowersOfTwo
  <1>3. bmParent(s) \in 0 .. (s - 1)
    BY <1>2
  <1> HIDE DEF a, m
  <1>4. ASSUME NEW p \in 0 .. (size - 1)
        PROVE  (\E i \in bmChildren(size, p) : bmChild(p, i) = s) <=> bmParent(s) = p
    <2>0. p \in Nat
      OBVIOUS
    <2>1. PICK l \in Nat :
              /\ p < pown(2, l)
              /\ p = 0 => l = 0
              /\ p # 0 => l # 0 /\ pown(2, l - 1) <= p
              /\ \A i \in Nat \ {0} :
                    /\ opal_next_poweroftwo(p) * pown(2, i - 1) = pown(2, l + i - 1)
                    /\ bmChild(p, i) = p + pown(2, l + i - 1)
      BY <2>0, BmPlace
    <2>2. ASSUME NEW i \in bmChildren(size, p), bmChild(p, i) = s
          PROVE  bmParent(s) = p
      <3> DEFINE b == l + i - 1
                 n == pown(2, b)
      <3>1. i \in Nat \ {0}
        BY DEF bmChildren
      <3>2. b \in Nat /\ l <= b
        BY <3>1
      <3>3. /\ n \in Nat /\ pown(2, l) <= n /\ pown(2, l) \in Nat
            /\ pown(2, b + 1) = n * 2
        BY <3>2, PowersOfTwo, PowersOrdered
      <3>4. s = p + n
        BY <2>1, <2>2, <3>1
      <3>5. n <= s /\ s < n * 2
        BY <2>1, <3>3, <3>4
      <3>6. a = b
        <4>1. pown(2, a) <= s /\ s < pown(2, a + 1)
          BY <1>2 DEF m
        <4>2. pown(2, b) <= s /\ s < pown(2, b + 1)
          BY <3>3, <3>5
        <4>3. s \in Nat
          OBVIOUS
        <4> HIDE DEF b, n
        <4> QED
          BY <1>2, <3>2, <4>1, <4>2, <4>3, HighestBit
      <3>7. m = n
        BY <3>6 DEF m
      <3> QED
        BY <1>2, <3>3, <3>4, <3>7
    <2>3. ASSUME bmParent(s) = p
          PROVE  \E i \in bmChildren(size, p) : bmChild(p, i) = s
      <3>1. p = s - m /\ p < m
        BY <1>2, <2>3
      <3>2. l <= a
        <4> SUFFICES ASSUME ~(l <= a)
                     PROVE  FALSE
          OBVIOUS
        <4>1. p # 0 /\ pown(2, l - 1) <= p /\ l - 1 \in Nat /\ a <= l - 1
          BY <1>2, <2>1
        <4>2. m <= pown(2, l - 1) /\ pown(2, l - 1) \in Nat
          BY <1>2, <4>1, PowersOrdered DEF m
        <4> QED
          BY <1>2, <3>1, <4>1, <4>2
      <3> DEFINE i == a - l + 1
      <3>3. i \in Nat \ {0} /\ l + i - 1 = a
        BY <1>2, <3>2
      <3>4. /\ opal_next_poweroftwo(p) * pown(2, i - 1) = m
            /\ bmChild(p, i) = p + m
        BY <2>1, <3>3 DEF m
      <3>5. p + m = s
        BY <1>2, <3>1
      <3>6. i \in 1 .. size
        BY <1>2, <3>3
      <3> HIDE DEF i
      <3>7. i \in bmChildren(size, p)
        BY <1>2, <3>4, <3>5, <3>6 DEF bmChildren
      <3> QED
        BY <3>4, <3>5, <3>7
    <2> QED
      BY <2>2, <2>3
  <1> QED
    BY <1>3, <1>4

(* build_bmtree spans the communicator, whatever its size and the root.    *)
THEOREM BmtreeSpans ==
    ASSUME NEW size \in Nat \ {0}, NEW root \in 0 .. (size - 1), NEW fanout
    PROVE  Spans("bmtree", fanout, size, root)
  <1> DEFINE n(s) == Cardinality(bmChildren(size, s))
             par == [s \in 1 .. (size - 1) |-> bmParent(s)]
             chi == [s \in 0 .. (size - 1) |-> [i \in 1 .. n(s) |-> bmChild(s, i)]]
             view == [r \in 0 .. (size - 1) |-> Tree("bmtree", fanout, size, root, r)]
  <1>1. ASSUME NEW s \in 0 .. (size - 1)
        PROVE  /\ chi[s] \in Seq(1 .. (size - 1)) /\ Len(chi[s]) = n(s)
               /\ bmChildren(size, s) = 1 .. n(s)
               /\ \A i \in 1 .. n(s) : chi[s][i] = bmChild(s, i)
               /\ \A i, j \in 1 .. n(s) : chi[s][i] = chi[s][j] => i = j
    <2>1. /\ n(s) \in Nat /\ bmChildren(size, s) = 1 .. n(s)
          /\ \A i \in 1 .. n(s) : bmChild(s, i) \in 1 .. (size - 1)
          /\ \A i, j \in 1 .. n(s) : bmChild(s, i) = bmChild(s, j) => i = j
      <3> DEFINE A == bmChildren(size, s)
      <3>1. /\ Cardinality(A) \in Nat /\ A = 1 .. Cardinality(A)
            /\ \A i \in A : bmChild(s, i) \in 1 .. (size - 1)
            /\ \A i, j \in A : bmChild(s, i) = bmChild(s, j) => i = j
        BY BmChildren
      <3> HIDE DEF A
      <3> QED
        BY <3>1 DEF A
    <2>2. chi[s] = [i \in 1 .. n(s) |-> bmChild(s, i)]
      OBVIOUS
    <2> HIDE DEF n, chi
    <2>3. chi[s] \in Seq(1 .. (size - 1)) /\ Len(chi[s]) = n(s)
      <3> DEFINE S == 1 .. (size - 1)
      <3> HIDE DEF S
      <3>1. \A i \in 1 .. n(s) : bmChild(s, i) \in S
        BY <2>1 DEF S
      <3>2. chi[s] \in Seq(S) /\ Len(chi[s]) = n(s)
        BY <2>1, <2>2, <3>1
      <3> QED
        BY <3>2 DEF S
    <2> QED
      BY <2>1, <2>2, <2>3
  <1>2. ASSUME NEW s \in 1 .. (size - 1)
        PROVE  par[s] \in 0 .. (s - 1) /\ par[s] = bmParent(s)
    BY BmParent
  <1>3. ASSUME NEW p \in 0 .. (size - 1), NEW s \in 1 .. (size - 1)
        PROVE  (\E i \in 1 .. Len(chi[p]) : chi[p][i] = s) <=> par[s] = p
    <2>1. (\E i \in bmChildren(size, p) : bmChild(p, i) = s) <=> bmParent(s) = p
      BY BmParent
    <2> HIDE DEF chi, par, n
    <2>2. /\ Len(chi[p]) = n(p) /\ bmChildren(size, p) = 1 .. n(p)
          /\ \A i \in 1 .. n(p) : chi[p][i] = bmChild(p, i)
      BY <1>1
    <2>3. par[s] = bmParent(s)
      BY <1>2
    <2> QED
      BY ONLY <2>1, <2>2, <2>3
  <1>4. ASSUME NEW r \in 0 .. (size - 1)
        PROVE  LET s == Shifted(size, root, r)
               IN  /\ view[r].next = [i \in 1 .. Len(chi[s]) |-> (chi[s][i] + root) % size]
                   /\ r # root => view[r].prev = (par[s] + root) % size
    <2> DEFINE s == Shifted(size, root, r)
    <2>1. s \in 0 .. (size - 1) /\ (r # root => s \in 1 .. (size - 1))
      BY Shifting
    <2>2. view[r] = build_bmtree(size, root, r)
      BY DEF Tree
    <2>3. /\ view[r].next = [i \in 1 .. n(s) |-> (bmChild(s, i) + root) % size]
          /\ r # root => view[r].prev = (bmParent(s) + root) % size
      <3>1. build_bmtree(size, root, r)
              = [prev |-> IF r = root THEN root ELSE (bmParent(s) + root) % size,
                 next |-> [i \in 1 .. n(s) |-> (bmChild(s, i) + root) % size]]
        BY DEF build_bmtree, bmChild, bmParent, bmChildren
      <3> HIDE DEF n, s, view
      <3> QED
        BY <2>2, <3>1
    <2> HIDE DEF s, view, chi, par, n
    <2>4. /\ view[r].next = [i \in 1 .. Len(chi[s]) |-> (chi[s][i] + root) % size]
          /\ r # root => view[r].prev = (par[s] + root) % size
      BY <1>1, <1>2, <2>1, <2>3
    <2> QED
      BY <2>4 DEF s
  <1>5. OneTree(view, size, root)
    <2> HIDE DEF n, par, chi, view
    <2>1. PlacesFit(size, par, chi)
      BY <1>1, <1>2, <1>3 DEF PlacesFit
    <2>2. Follows(view, size, root, par, chi)
      BY <1>4 DEF Follows
    <2> QED
      BY <2>1, <2>2, ShiftedTree
  <1> QED
    BY <1>5 DEF Spans, RootOf

-----------------------------------------------------------------------------
(* The tree that is filled level by level, on shifted ranks.               *)

(* The nodes above a level, a quotient without remainder ...               *)
LEMMA NodesAbove ==
    ASSUME NEW f \in Nat, f >= 2
    PROVE  /\ calculate_num_nodes_up_to_level(f, 0) = 0
           /\ \A l \in Nat : calculate_num_nodes_up_to_level(f, l) \in Nat
           /\ \A l \in Nat : calculate_num_nodes_up_to_level(f, l + 1)
                               = calculate_num_nodes_up_to_level(f, l) + pown(f, l)
  <1> DEFINE p(l) == pown(f, l)
             N(l) == (p(l) - 1) \div (f - 1)
             d == f - 1
  <1>1. /\ p(0) = 1
        /\ \A n \in Nat : p(n) \in Nat
        /\ \A n \in Nat : p(n + 1) = p(n) * f
    BY Powers
  <1>2. d \in Nat \ {0} /\ f = d + 1
    OBVIOUS
  <1>3. \A l : N(l) = (p(l) - 1) \div d
    OBVIOUS
  <1> HIDE DEF p, N, d
  <1>4. \A q \in Nat : \A l \in Nat : p(l) = d * q + 1 => N(l) = q
    <2> TAKE q \in Nat
    <2> TAKE l \in Nat
    <2>1. d * q \in Nat
      BY <1>2
    <2>2. (d * q + 0) \div d = q
      <3> DEFINE z == 0
      <3>1. z \in 0 .. (d - 1)
        BY <1>2
      <3> HIDE DEF z
      <3>2. (d * q + z) \div d = q
        BY <1>2, <3>1, Quotient
      <3> QED
        BY <3>2 DEF z
    <2>3. (d * q + 1) - 1 = d * q + 0
      BY <2>1
    <2> QED
      BY <1>3, <2>2, <2>3
  <1>5. ASSUME NEW l \in Nat, NEW q \in Nat, p(l) = d * q + 1
        PROVE  q + p(l) \in Nat /\ p(l + 1) = d * (q + p(l)) + 1
    <2>1. p(l) \in Nat /\ p(l + 1) = p(l) * f
      BY <1>1
    <2>2. \A x \in Nat : x * (d + 1) = d * x + x /\ d * (q + x) = d * q + d * x
      BY <1>2
    <2>3. \A x \in Nat : d * x \in Nat
      BY <1>2
    <2> DEFINE x == p(l)
    <2>4. /\ p(l + 1) = d * x + x /\ d * (q + x) = d * q + d * x
          /\ d * x \in Nat /\ d * q \in Nat /\ x = d * q + 1
      BY <1>2, <1>5, <2>1, <2>2, <2>3
    <2> QED
      BY <2>1, <2>4
  <1>6. \A l \in Nat : \E q \in Nat : p(l) = d * q + 1
    <2> DEFINE Bad == {l \in Nat : ~\E q \in Nat : p(l) = d * q + 1}
    <2> SUFFICES ASSUME Bad # {}
                 PROVE  FALSE
      OBVIOUS
    <2>0. Bad \subseteq Nat
      OBVIOUS
    <2>1. PICK l \in Bad : \A i \in Bad : l <= i
      <3> HIDE DEF Bad
      <3> QED
        BY <2>0, LeastNatural
    <2>2. l \in Nat /\ ~\E q \in Nat : p(l) = d * q + 1
      BY <2>1
    <2>3. l # 0
      <3>1. d * 0 + 1 = 1 /\ 0 \in Nat
        BY <1>2
      <3> QED
        BY <1>1, <2>2, <3>1
    <2>4. l - 1 \in Nat /\ ~(l <= l - 1) /\ (l - 1) + 1 = l
      BY <2>2, <2>3
    <2>5. PICK q \in Nat : p(l - 1) = d * q + 1
      BY <2>1, <2>4
    <2>6. q + p(l - 1) \in Nat /\ p(l) = d * (q + p(l - 1)) + 1
      BY <1>5, <2>4, <2>5
    <2> QED
      BY <2>2, <2>6
  <1>7. ASSUME NEW l \in Nat
        PROVE  N(l) \in Nat /\ N(l + 1) = N(l) + p(l)
    <2>1. PICK q \in Nat : p(l) = d * q + 1
      BY <1>6
    <2>2. q + p(l) \in Nat /\ p(l + 1) = d * (q + p(l)) + 1 /\ l + 1 \in Nat
      BY <1>5, <2>1
    <2> QED
      BY <1>4, <2>1, <2>2
  <1>8. N(0) = 0
    <2>1. p(0) = d * 0 + 1 /\ 0 \in Nat
      BY <1>1, <1>2
    <2> QED
      BY <1>4, <2>1
  <1> QED
    BY <1>7, <1>8 DEF N, p, calculate_num_nodes_up_to_level

(* The equation of the recursion of nodes, which counts the same.          *)
NodesEq(f, r, g) ==
    g = [l \in 0 .. r |-> pown(f, l) + (IF l = 0 THEN 0 ELSE g[l - 1])]

(* See NodesEq.                                                            *)
LEMMA NodesCount ==
    ASSUME NEW f \in Nat, f >= 2, NEW r \in Nat
    PROVE  /\ \E g : NodesEq(f, r, g)
           /\ \A g : NodesEq(f, r, g) =>
                \A l \in 0 .. r : g[l] = calculate_num_nodes_up_to_level(f, l + 1)
  <1> DEFINE p(l) == pown(f, l)
             N(l) == calculate_num_nodes_up_to_level(f, l)
  <1>1. /\ N(0) = 0
        /\ \A l \in Nat : N(l) \in Nat /\ p(l) \in Nat
        /\ \A l \in Nat : N(l + 1) = N(l) + p(l)
    BY NodesAbove, Powers
  <1> HIDE DEF p, N
  <1> DEFINE h == [l \in 0 .. r |-> N(l + 1)]
  <1>2. ASSUME NEW l \in 0 .. r
        PROVE  h[l] = p(l) + (IF l = 0 THEN 0 ELSE h[l - 1])
    <2>1. l \in Nat /\ h[l] = N(l + 1) /\ N(l + 1) = N(l) + p(l)
      BY <1>1
    <2>2. l # 0 => (l - 1 \in 0 .. r /\ (l - 1) + 1 = l)
      OBVIOUS
    <2>3. l # 0 => h[l - 1] = N(l)
      BY <2>2
    <2>4. N(l) \in Nat /\ p(l) \in Nat
      BY <1>1, <2>1
    <2> HIDE DEF h
    <2> QED
      BY <1>1, <2>1, <2>3, <2>4
  <1>3. NodesEq(f, r, h)
    <2>1. h = [l \in 0 .. r |-> p(l) + (IF l = 0 THEN 0 ELSE h[l - 1])]
      <3>1. DOMAIN h = 0 .. r /\ h = [l \in 0 .. r |-> h[l]]
        OBVIOUS
      <3> HIDE DEF h
      <3> QED
        BY <1>2, <3>1
    <2> HIDE DEF h
    <2> QED
      BY <2>1 DEF NodesEq, p
  <1>4. ASSUME NEW g, NodesEq(f, r, g), NEW l \in 0 .. r
        PROVE  g[l] = N(l + 1)
    <2> DEFINE Bad == {k \in 0 .. r : g[k] # N(k + 1)}
    <2> SUFFICES ASSUME Bad # {}
                 PROVE  FALSE
      OBVIOUS
    <2>0. Bad \subseteq Nat
      OBVIOUS
    <2>1. PICK k \in Bad : \A i \in Bad : k <= i
      <3> HIDE DEF Bad
      <3> QED
        BY <2>0, LeastNatural
    <2>2. k \in 0 .. r /\ g[k] # N(k + 1)
      BY <2>1
    <2>3. g[k] = p(k) + (IF k = 0 THEN 0 ELSE g[k - 1])
      BY <1>4, <2>2 DEF NodesEq, p
    <2>4. k \in Nat /\ N(k + 1) = N(k) + p(k) /\ N(k) \in Nat /\ p(k) \in Nat
      BY <1>1, <2>2
    <2>5. k # 0
      BY <1>1, <2>2, <2>3, <2>4
    <2>6. k - 1 \in 0 .. r /\ ~(k <= k - 1) /\ (k - 1) + 1 = k
      BY <2>2, <2>5
    <2>7. g[k - 1] = N(k)
      BY <2>1, <2>6
    <2> QED
      BY <2>2, <2>3, <2>4, <2>5, <2>7
  <1> QED
    BY <1>3, <1>4 DEF N

(* The level of a rank: it is behind the nodes above, and before those of  *)
(* the next level.                                                         *)
LEMMA LevelOf ==
    ASSUME NEW f \in Nat, f >= 2, NEW s \in Nat
    PROVE  /\ calculate_level(f, s) \in Nat
           /\ calculate_num_nodes_up_to_level(f, calculate_level(f, s)) <= s
           /\ s < calculate_num_nodes_up_to_level(f, calculate_level(f, s) + 1)
  <1> DEFINE N(l) == calculate_num_nodes_up_to_level(f, l)
             nodes == CHOOSE g : NodesEq(f, s, g)
             Good(l) == nodes[l] > s /\ \A k \in 0 .. l - 1 : nodes[k] <= s
             level == CHOOSE l \in 0 .. s : Good(l)
  <1>1. \A l \in 0 .. s : nodes[l] = N(l + 1)
    <2>1. NodesEq(f, s, nodes)
      BY NodesCount
    <2> HIDE DEF nodes, N
    <2> QED
      BY <2>1, NodesCount DEF N
  <1>2. calculate_level(f, s) = level
    BY DEF calculate_level, NodesEq
  <1>3. /\ N(0) = 0
        /\ \A l \in Nat : N(l) \in Nat /\ pown(f, l) \in Nat /\ pown(f, l) > l
        /\ \A l \in Nat : N(l + 1) = N(l) + pown(f, l)
    BY NodesAbove, Powers, PowersGrow
  <1> HIDE DEF N, nodes
  <1>4. \E l \in 0 .. s : Good(l)
    <2> DEFINE Above == {l \in 0 .. s : N(l + 1) > s}
    <2>1. s \in Above /\ Above \subseteq Nat
      <3>1. N(s) \in Nat /\ pown(f, s) \in Nat /\ pown(f, s) > s
            /\ N(s + 1) = N(s) + pown(f, s)
        BY <1>3
      <3>2. N(s + 1) > s
        BY <3>1
      <3> QED
        BY <3>2
    <2>2. PICK l \in Above : \A i \in Above : l <= i
      <3> HIDE DEF Above
      <3> QED
        BY <2>1, LeastNatural
    <2>3. l \in 0 .. s /\ nodes[l] > s
      BY <1>1, <2>2
    <2>4. ASSUME NEW k \in 0 .. l - 1
          PROVE  nodes[k] <= s
      <3>1. k \in 0 .. s /\ ~(l <= k)
        BY <2>3
      <3>2. ~(N(k + 1) > s)
        BY <2>2, <3>1
      <3>3. N(k + 1) \in Nat /\ nodes[k] = N(k + 1)
        BY <1>1, <1>3, <3>1
      <3> QED
        BY <3>2, <3>3
    <2> QED
      BY <2>3, <2>4
  <1>5. level \in 0 .. s /\ Good(level)
    <2> HIDE DEF Good
    <2> QED
      BY <1>4
  <1> HIDE DEF level
  <1>6. level \in Nat /\ s < N(level + 1)
    BY <1>1, <1>3, <1>5
  <1>7. N(level) <= s
    <2>1. CASE level = 0
      BY <1>3, <2>1
    <2>2. CASE level # 0
      <3>1. level - 1 \in 0 .. level - 1 /\ level - 1 \in 0 .. s /\ (level - 1) + 1 = level
        BY <1>5, <2>2
      <3>2. nodes[level - 1] <= s /\ nodes[level - 1] = N(level)
        BY <1>1, <1>5, <3>1
      <3> QED
        BY <3>2
    <2> QED
      BY <2>1, <2>2
  <1> QED
    BY <1>2, <1>6, <1>7 DEF N

(* ... which are the only such level.                                      *)
LEMMA LevelUnique ==
    ASSUME NEW f \in Nat, f >= 2, NEW s \in Nat, NEW l \in Nat,
           calculate_num_nodes_up_to_level(f, l) <= s,
           s < calculate_num_nodes_up_to_level(f, l + 1)
    PROVE  calculate_level(f, s) = l
  <1> DEFINE N(n) == calculate_num_nodes_up_to_level(f, n)
             m == calculate_level(f, s)
  <1>1. \A n \in Nat : N(n) \in Nat /\ N(n) <= N(n + 1)
    <2> TAKE n \in Nat
    <2>1. N(n) \in Nat /\ N(n + 1) = N(n) + pown(f, n) /\ pown(f, n) \in Nat
      BY NodesAbove, Powers
    <2> HIDE DEF N
    <2> QED
      BY <2>1
  <1>2. m \in Nat /\ N(m) <= s /\ s < N(m + 1) /\ N(l) <= s /\ s < N(l + 1)
    BY LevelOf
  <1> HIDE DEF N, m
  <1>3. \A a \in Nat : \A b \in Nat : a <= b => N(a) <= N(b)
    <2> SUFFICES ASSUME NEW a \in Nat
                 PROVE  \A b \in Nat : a <= b => N(a) <= N(b)
      OBVIOUS
    <2> DEFINE Bad == {b \in Nat : a <= b /\ ~(N(a) <= N(b))}
    <2> SUFFICES ASSUME Bad # {}
                 PROVE  FALSE
      OBVIOUS
    <2>0. Bad \subseteq Nat
      OBVIOUS
    <2>1. PICK b \in Bad : \A i \in Bad : b <= i
      <3> HIDE DEF Bad
      <3> QED
        BY <2>0, LeastNatural
    <2>2. b \in Nat /\ a <= b /\ ~(N(a) <= N(b)) /\ N(a) \in Nat /\ N(b) \in Nat
      BY <1>1, <2>1
    <2>3. b # a
      BY <2>2
    <2>4. b - 1 \in Nat /\ a <= b - 1 /\ ~(b <= b - 1) /\ (b - 1) + 1 = b
      BY <2>2, <2>3
    <2>5. N(a) <= N(b - 1)
      BY <2>1, <2>4
    <2>6. N(b - 1) \in Nat /\ N(b - 1) <= N(b)
      BY <1>1, <2>4
    <2> QED
      BY <2>2, <2>5, <2>6
  <1>4. ~(m < l)
    <2>1. m + 1 <= l => N(m + 1) <= N(l)
      BY <1>2, <1>3
    <2>2. N(m + 1) \in Nat /\ N(l) \in Nat
      BY <1>1, <1>2
    <2> QED
      BY <1>2, <2>1, <2>2
  <1>5. ~(l < m)
    <2>1. l + 1 <= m => N(l + 1) <= N(m)
      BY <1>2, <1>3
    <2>2. N(l + 1) \in Nat /\ N(m) \in Nat
      BY <1>1, <1>2
    <2> QED
      BY <1>2, <2>1, <2>2
  <1>6. m = l
    BY <1>2, <1>4, <1>5
  <1> QED
    BY <1>6 DEF m

(* Steps down from s, until one is below n: how many, and where they end.  *)
UpBy(s, step, n) ==
    CHOOSE k \in 0 .. s : s - k * step < n /\ \A j \in 0 .. k - 1 : s - j * step >= n

(* See UpBy.                                                               *)
LEMMA StepDown ==
    ASSUME NEW s \in Nat, NEW step \in Nat \ {0}, NEW n \in Nat \ {0}, n <= s
    PROVE  /\ UpBy(s, step, n) \in Nat \ {0}
           /\ s - UpBy(s, step, n) * step < n
           /\ s - UpBy(s, step, n) * step >= n - step
           /\ \A k \in Nat : (s - k * step < n /\ s - k * step >= n - step)
                                => k = UpBy(s, step, n)
  <1> DEFINE m(k) == k * step
             Good(k) == s - m(k) < n /\ \A j \in 0 .. k - 1 : s - m(j) >= n
             up == CHOOSE k \in 0 .. s : Good(k)
  <1>1. /\ m(0) = 0
        /\ \A k \in Nat : m(k) \in Nat /\ m(k + 1) = m(k) + step /\ m(k) >= k
    <2>1. \A k \in Nat : k * step \in Nat /\ (k + 1) * step = k * step + step
      OBVIOUS
    <2>2. \A k \in Nat : k * step >= k
      OBVIOUS
    <2>3. 0 * step = 0
      OBVIOUS
    <2> QED
      BY <2>1, <2>2, <2>3
  <1>2. \A i, j \in Nat : i <= j => m(i) <= m(j)
    <2>1. \A i, j \in Nat : i <= j => step * i <= step * j
      BY MulMonotone
    <2>2. \A i \in Nat : i * step = step * i
      OBVIOUS
    <2> QED
      BY <2>1, <2>2
  <1>3. UpBy(s, step, n) = up
    BY DEF UpBy
  <1> HIDE DEF m
  <1>4. \E k \in 0 .. s : Good(k)
    <2> DEFINE Below == {k \in 0 .. s : s - m(k) < n}
    <2>1. s \in Below /\ Below \subseteq Nat
      <3>1. m(s) \in Nat /\ m(s) >= s
        BY <1>1
      <3> QED
        BY <3>1
    <2>2. PICK k \in Below : \A i \in Below : k <= i
      <3> HIDE DEF Below
      <3> QED
        BY <2>1, LeastNatural
    <2>3. k \in 0 .. s /\ s - m(k) < n
      BY <2>2
    <2>4. ASSUME NEW j \in 0 .. k - 1
          PROVE  s - m(j) >= n
      <3>1. j \in 0 .. s /\ ~(k <= j) /\ m(j) \in Nat
        BY <1>1, <2>3
      <3>2. ~(s - m(j) < n)
        BY <2>2, <3>1
      <3> QED
        BY <3>1, <3>2
    <2> QED
      BY <2>3, <2>4
  <1>5. up \in 0 .. s /\ Good(up)
    <2> HIDE DEF Good
    <2> QED
      BY <1>4
  <1> HIDE DEF up
  <1>6. up # 0
    BY <1>1, <1>5
  <1>7. s - m(up) >= n - step
    <2>1. up - 1 \in 0 .. up - 1 /\ up - 1 \in Nat /\ (up - 1) + 1 = up
      BY <1>5, <1>6
    <2>2. s - m(up - 1) >= n /\ m(up) = m(up - 1) + step /\ m(up - 1) \in Nat
      BY <1>1, <1>5, <2>1
    <2> QED
      BY <2>2
  <1>8. ASSUME NEW k \in Nat, s - m(k) < n, s - m(k) >= n - step
        PROVE  k = up
    <2>1. m(k) \in Nat /\ m(up) \in Nat /\ up \in Nat
      BY <1>1, <1>5
    <2>2. ~(k < up)
      <3>1. k < up => k \in 0 .. up - 1
        BY <2>1
      <3> QED
        BY <1>5, <1>8, <2>1, <3>1
    <2>3. ~(up < k)
      <3>1. /\ up + 1 <= k => m(up + 1) <= m(k)
            /\ m(up + 1) = m(up) + step
        BY <1>1, <1>2, <2>1
      <3> QED
        BY <1>5, <1>8, <2>1, <3>1
    <2> QED
      BY <2>1, <2>2, <2>3
  <1>9. up \in Nat \ {0} /\ s - m(up) < n
    BY <1>5, <1>6
  <1> QED
    BY <1>3, <1>7, <1>8, <1>9 DEF m

(* The parent of s, where its i-th child is, and the children there are.   *)
trParent(f, s) ==
    LET level == calculate_level(f, s)
        step  == pown(f, level) \div f
    IN  IF s < f THEN 0
        ELSE s - UpBy(s, step, calculate_num_nodes_up_to_level(f, level)) * step
trChild(f, s, i) == s + pown(f, calculate_level(f, s)) * i
trChildren(f, size, s) == {i \in 1 .. f : trChild(f, s, i) < size}

(* A child is one level below its parent, and its parent the one node of   *)
(* the level above that is a multiple of the step away.                    *)
LEMMA TrPlace ==
    ASSUME NEW f \in Nat, f >= 2, NEW s \in Nat \ {0}
    PROVE  /\ trParent(f, s) \in 0 .. (s - 1)
           /\ \E i \in 1 .. f : trChild(f, trParent(f, s), i) = s
           /\ \A p \in Nat, i \in 1 .. f : trChild(f, p, i) = s => trParent(f, s) = p
  <1> DEFINE N(n) == calculate_num_nodes_up_to_level(f, n)
             L(n) == calculate_level(f, n)
             P(n) == pown(f, n)
             l == L(s)
             step == P(l) \div f
             up == UpBy(s, step, N(l))
  <1>1. /\ N(0) = 0 /\ P(0) = 1
        /\ \A n \in Nat : N(n) \in Nat /\ P(n) \in Nat /\ P(n) > n
        /\ \A n \in Nat : N(n + 1) = N(n) + P(n)
        /\ \A n \in Nat : P(n + 1) = P(n) * f
    BY NodesAbove, Powers, PowersGrow
  <1>2. /\ \A n \in Nat : L(n) \in Nat /\ N(L(n)) <= n /\ n < N(L(n) + 1)
        /\ \A n, k \in Nat : (N(k) <= n /\ n < N(k + 1)) => L(n) = k
    BY LevelOf, LevelUnique
  <1>3. trParent(f, s) = IF s < f THEN 0 ELSE s - up * step
    BY DEF trParent
  <1>4. \A n, i : trChild(f, n, i) = n + P(L(n)) * i
    BY DEF trChild
  <1> HIDE DEF N, L, P
  <1>5. l \in Nat /\ N(l) <= s /\ s < N(l + 1)
    BY <1>2
  <1>6. l # 0
    <2>1. N(0 + 1) = 1
      BY <1>1
    <2> QED
      BY <1>5, <2>1
  <1> DEFINE k == l - 1
  <1>7. k \in Nat /\ l = k + 1
    BY <1>5, <1>6
  <1>8. step = P(k) /\ step \in Nat \ {0}
    <2>1. P(l) = P(k) * f /\ P(k) \in Nat /\ P(k) > k
      BY <1>1, <1>7
    <2>2. \A x \in Nat : (x * f) \div f = x
      <3> TAKE x \in Nat
      <3> DEFINE z == 0
      <3>1. z \in 0 .. (f - 1)
        OBVIOUS
      <3> HIDE DEF z
      <3>2. (f * x + z) \div f = x
        BY <3>1, Quotient
      <3>3. f * x + z = x * f
        BY DEF z
      <3> QED
        BY <3>2, <3>3
    <2> QED
      BY <1>7, <2>1, <2>2
  <1>9. /\ N(l) = N(k) + step /\ N(l) \in Nat \ {0} /\ N(k) \in Nat
        /\ N(l + 1) = N(l) + step * f
    <2> HIDE DEF l, k, step
    <2>1. N(k) \in Nat /\ N(k + 1) = N(k) + P(k)
      BY <1>1, <1>7
    <2>2. N(l + 1) = N(l) + P(l)
      BY <1>1, <1>5
    <2>3. P(k + 1) = P(k) * f
      BY <1>1, <1>7
    <2>4. P(l) = step * f
      BY <1>7, <1>8, <2>3
    <2>5. N(l) = N(k) + step
      BY <1>7, <1>8, <2>1
    <2> QED
      BY <1>8, <2>1, <2>2, <2>4, <2>5
  <1> HIDE DEF l, k, step
  <1>10. /\ up \in Nat \ {0}
         /\ s - up * step < N(l)
         /\ s - up * step >= N(l) - step
         /\ \A j \in Nat : (s - j * step < N(l) /\ s - j * step >= N(l) - step) => j = up
    <2> HIDE DEF up
    <2> QED
      BY <1>5, <1>8, <1>9, StepDown DEF up
  <1> HIDE DEF up
  <1>11. \A x, y \in Nat : x * y \in Nat /\ x * y = y * x
    OBVIOUS
  <1> DEFINE q == s - up * step
  <1>12. /\ up * step \in Nat /\ up * step >= 1 /\ q \in Nat /\ q < s
         /\ N(k) <= q /\ q < N(k + 1) /\ s = q + step * up
    <2>1. up * step \in Nat /\ up * step = step * up
      BY <1>8, <1>10, <1>11
    <2>2. up * step >= 1
      <3>1. \A x, y \in Nat \ {0} : x * y >= 1
        OBVIOUS
      <3> QED
        BY <1>8, <1>10, <3>1
    <2> DEFINE x == up * step
    <2>3. /\ x \in Nat /\ x >= 1 /\ s - x < N(l) /\ s - x >= N(l) - step
          /\ q = s - x /\ x = step * up
      BY <1>10, <2>1, <2>2
    <2>4. N(k + 1) = N(k) + step
      BY <1>7, <1>9
    <2> HIDE DEF x, q
    <2>5. /\ q \in Nat /\ q < s /\ N(k) <= q /\ q < N(k + 1)
          /\ s = q + x
      BY <1>8, <1>9, <2>3, <2>4
    <2> QED
      BY <2>3, <2>5 DEF x
  <1>13. L(q) = k
    BY <1>2, <1>7, <1>12
  <1>14. up \in 1 .. f
    <2> SUFFICES ASSUME up > f
                 PROVE  FALSE
      BY <1>10
    <2>1. up - 1 \in Nat /\ f <= up - 1
      BY <1>10
    <2>2. step * f <= step * (up - 1)
      BY <1>8, <2>1, MulMonotone
    <2>3. step * (up - 1) = step * up - step
      BY <1>8, <1>10
    <2>4. step * f \in Nat /\ step * up \in Nat
      BY <1>8, <1>10, <1>11
    <2> QED
      BY <1>5, <1>8, <1>9, <1>12, <2>2, <2>3, <2>4
  <1>15. trParent(f, s) = q
    <2> SUFFICES ASSUME s < f
                 PROVE  q = 0
      BY <1>3
    <2>1. N(0 + 1) = 1 /\ P(0 + 1) = f /\ N(1 + 1) = 1 + f
      BY <1>1
    <2>2. L(s) = 1
      BY <1>2, <2>1
    <2>3. k = 0
      BY <1>7, <2>2 DEF l
    <2> QED
      BY <1>1, <1>12, <2>1, <2>3
  <1>16. ASSUME NEW p \in Nat, NEW i \in 1 .. f, trChild(f, p, i) = s
         PROVE  q = p
    <2> DEFINE e == L(p)
               w == P(e)
    <2>1. e \in Nat /\ N(e) <= p /\ p < N(e + 1) /\ s = p + w * i
      BY <1>2, <1>4, <1>16
    <2>2. /\ w \in Nat \ {0} /\ P(e + 1) = w * f
          /\ N(e + 1) = N(e) + w /\ N((e + 1) + 1) = N(e + 1) + w * f
          /\ N(e) \in Nat /\ N(e + 1) \in Nat
      <3>1. e \in Nat /\ e + 1 \in Nat
        BY <2>1
      <3> HIDE DEF e
      <3>2. w \in Nat /\ w > e
        BY <1>1, <3>1
      <3>3. P(e + 1) = w * f /\ N(e + 1) = N(e) + w
        BY <1>1, <3>1
      <3>4. N((e + 1) + 1) = N(e + 1) + P(e + 1) /\ N(e) \in Nat /\ N(e + 1) \in Nat
        BY <1>1, <3>1
      <3> QED
        BY <3>1, <3>2, <3>3, <3>4
    <2> HIDE DEF e, w
    <2>3. w <= w * i /\ w * i <= w * f /\ w * i \in Nat /\ w * f \in Nat
      <3>1. i \in Nat /\ 1 <= i /\ i <= f /\ 1 \in Nat /\ w * 1 = w
        BY <2>2
      <3>2. w * i <= w * f
        BY <2>2, <3>1, MulMonotone
      <3>3. w * 1 <= w * i
        <4> DEFINE one == 1
        <4> HIDE DEF one
        <4>1. one \in Nat /\ one <= i
          BY <3>1 DEF one
        <4>2. w * one <= w * i
          BY <2>2, <3>1, <4>1, MulMonotone
        <4> QED
          BY <4>2 DEF one
      <3> QED
        BY <1>11, <2>2, <3>1, <3>2, <3>3
    <2>4. N(e + 1) <= s /\ s < N((e + 1) + 1)
      BY <2>1, <2>2, <2>3
    <2>5. l = e + 1
      BY <1>2, <2>1, <2>4 DEF l
    <2>6. k = e
      BY <1>7, <2>1, <2>5
    <2>7. step = w
      BY <1>8, <2>6 DEF w
    <2>8. i * step = w * i
      BY <1>11, <2>2, <2>7
    <2>9. s - i * step = p
      BY <2>1, <2>3, <2>8
    <2>10. i = up
      BY <1>9, <1>10, <2>1, <2>2, <2>5, <2>7, <2>9
    <2> QED
      BY <2>9, <2>10
  <1>17. trChild(f, q, up) = s
    BY <1>4, <1>8, <1>12, <1>13
  <1>18. q \in 0 .. (s - 1)
    BY <1>12
  <1> HIDE DEF q
  <1> QED
    BY <1>14, <1>15, <1>16, <1>17, <1>18

(* The children of a rank are ranks behind it, and different ones.         *)
LEMMA TrChildren ==
    ASSUME NEW f \in Nat, f >= 2, NEW size \in Nat \ {0}, NEW s \in 0 .. (size - 1)
    PROVE  /\ Cardinality(trChildren(f, size, s)) \in Nat
           /\ trChildren(f, size, s) = 1 .. Cardinality(trChildren(f, size, s))
           /\ \A i \in trChildren(f, size, s) : trChild(f, s, i) \in 1 .. (size - 1)
           /\ \A i, j \in trChildren(f, size, s) :
                 trChild(f, s, i) = trChild(f, s, j) => i = j
  <1> DEFINE A == trChildren(f, size, s)
             w == pown(f, calculate_level(f, s))
             q(i) == w * i
  <1>1. w \in Nat \ {0}
    <2> DEFINE l == calculate_level(f, s)
    <2>1. s \in Nat
      OBVIOUS
    <2>2. l \in Nat
      BY <2>1, LevelOf
    <2> HIDE DEF l
    <2>3. pown(f, l) \in Nat /\ pown(f, l) > l
      BY <2>2, Powers, PowersGrow
    <2> QED
      BY <2>2, <2>3 DEF l
  <1>2. A = {i \in 1 .. f : s + q(i) < size} /\ \A i : trChild(f, s, i) = s + q(i)
    BY DEF trChildren, trChild
  <1> HIDE DEF A, w
  <1>3. \A i \in Nat \ {0} : q(i) \in Nat /\ q(i) >= 1
    <2>1. \A x, y \in Nat \ {0} : x * y \in Nat /\ x * y >= 1
      OBVIOUS
    <2> QED
      BY <1>1, <2>1
  <1>4. \A i, j \in Nat : i <= j => q(i) <= q(j)
    BY <1>1, MulMonotone
  <1>5. \A i, j \in Nat : q(i) = q(j) => i = j
    <2>1. \A x \in Nat \ {0} : \A i, j \in Nat : x * i = x * j => i = j
      OBVIOUS
    <2> QED
      BY <1>1, <2>1
  <1> HIDE DEF q
  <1>6. A \subseteq 1 .. f /\ \A i \in A : i \in Nat \ {0} /\ s + q(i) < size
    BY <1>2
  <1>7. \A i \in A : \A j \in 1 .. i : j \in A
    <2> TAKE i \in A
    <2> TAKE j \in 1 .. i
    <2>1. i \in 1 .. f /\ i \in Nat \ {0} /\ j \in Nat \ {0} /\ j <= i
      BY <1>6
    <2>2. s + q(i) < size /\ q(i) \in Nat /\ q(j) \in Nat /\ q(j) <= q(i)
      BY <1>3, <1>4, <1>6, <2>1
    <2> QED
      BY <1>2, <2>1, <2>2
  <1>8. Cardinality(A) \in 0 .. f /\ A = 1 .. Cardinality(A)
    BY <1>6, <1>7, PrefixSet
  <1>9. \A i \in A : trChild(f, s, i) \in 1 .. (size - 1)
    BY <1>2, <1>3, <1>6
  <1>10. \A i, j \in A : trChild(f, s, i) = trChild(f, s, j) => i = j
    <2> TAKE i, j \in A
    <2>1. /\ i \in Nat \ {0} /\ j \in Nat \ {0} /\ q(i) \in Nat /\ q(j) \in Nat
          /\ trChild(f, s, i) = s + q(i) /\ trChild(f, s, j) = s + q(j)
      BY <1>2, <1>3, <1>6
    <2>2. s + q(i) = s + q(j) => q(i) = q(j)
      BY <2>1
    <2> QED
      BY <1>5, <2>1, <2>2
  <1> QED
    BY <1>8, <1>9, <1>10 DEF A

(* The parent of a rank is the one whose child it is.                      *)
LEMMA TrParent ==
    ASSUME NEW f \in Nat, f >= 2, NEW size \in Nat \ {0}, NEW s \in 1 .. (size - 1)
    PROVE  /\ trParent(f, s) \in 0 .. (s - 1)
           /\ \A p \in 0 .. (size - 1) :
                 (\E i \in trChildren(f, size, p) : trChild(f, p, i) = s)
                     <=> trParent(f, s) = p
  <1>1. s \in Nat \ {0}
    OBVIOUS
  <1>2. /\ trParent(f, s) \in 0 .. (s - 1)
        /\ \E i \in 1 .. f : trChild(f, trParent(f, s), i) = s
        /\ \A p \in Nat, i \in 1 .. f : trChild(f, p, i) = s => trParent(f, s) = p
    BY <1>1, TrPlace
  <1>3. \A p : \A i \in 1 .. f : trChild(f, p, i) = s => i \in trChildren(f, size, p)
    BY DEF trChildren
  <1>4. \A p : trChildren(f, size, p) \subseteq 1 .. f
    BY DEF trChildren
  <1>5. 0 .. (size - 1) \subseteq Nat
    OBVIOUS
  <1> QED
    BY <1>2, <1>3, <1>4, <1>5

(* build_tree spans the communicator, whatever its size, the root and the  *)
(* fanout, from two on.                                                    *)
THEOREM LevelTreeSpans ==
    ASSUME NEW size \in Nat \ {0}, NEW root \in 0 .. (size - 1),
           NEW fanout \in Nat, fanout >= 2
    PROVE  Spans("tree", fanout, size, root)
  <1> DEFINE n(s) == Cardinality(trChildren(fanout, size, s))
             par == [s \in 1 .. (size - 1) |-> trParent(fanout, s)]
             chi == [s \in 0 .. (size - 1) |->
                        [i \in 1 .. n(s) |-> trChild(fanout, s, i)]]
             view == [r \in 0 .. (size - 1) |-> Tree("tree", fanout, size, root, r)]
  <1>1. ASSUME NEW s \in 0 .. (size - 1)
        PROVE  /\ chi[s] \in Seq(1 .. (size - 1)) /\ Len(chi[s]) = n(s)
               /\ trChildren(fanout, size, s) = 1 .. n(s)
               /\ \A i \in 1 .. n(s) : chi[s][i] = trChild(fanout, s, i)
               /\ \A i, j \in 1 .. n(s) : chi[s][i] = chi[s][j] => i = j
    <2>1. /\ n(s) \in Nat /\ trChildren(fanout, size, s) = 1 .. n(s)
          /\ \A i \in 1 .. n(s) : trChild(fanout, s, i) \in 1 .. (size - 1)
          /\ \A i, j \in 1 .. n(s) : trChild(fanout, s, i) = trChild(fanout, s, j) => i = j
      <3> DEFINE A == trChildren(fanout, size, s)
      <3>1. /\ Cardinality(A) \in Nat /\ A = 1 .. Cardinality(A)
            /\ \A i \in A : trChild(fanout, s, i) \in 1 .. (size - 1)
            /\ \A i, j \in A : trChild(fanout, s, i) = trChild(fanout, s, j) => i = j
        BY TrChildren
      <3> HIDE DEF A
      <3> QED
        BY <3>1 DEF A
    <2>2. chi[s] = [i \in 1 .. n(s) |-> trChild(fanout, s, i)]
      OBVIOUS
    <2> HIDE DEF n, chi
    <2>3. chi[s] \in Seq(1 .. (size - 1)) /\ Len(chi[s]) = n(s)
      <3> DEFINE S == 1 .. (size - 1)
      <3> HIDE DEF S
      <3>1. \A i \in 1 .. n(s) : trChild(fanout, s, i) \in S
        BY <2>1 DEF S
      <3>2. chi[s] \in Seq(S) /\ Len(chi[s]) = n(s)
        BY <2>1, <2>2, <3>1
      <3> QED
        BY <3>2 DEF S
    <2> QED
      BY <2>1, <2>2, <2>3
  <1>2. ASSUME NEW s \in 1 .. (size - 1)
        PROVE  par[s] \in 0 .. (s - 1) /\ par[s] = trParent(fanout, s)
    BY TrParent
  <1>3. ASSUME NEW p \in 0 .. (size - 1), NEW s \in 1 .. (size - 1)
        PROVE  (\E i \in 1 .. Len(chi[p]) : chi[p][i] = s) <=> par[s] = p
    <2> HIDE DEF chi, par, n, view
    <2>1. \A u \in 0 .. (size - 1) :
             (\E i \in trChildren(fanout, size, u) : trChild(fanout, u, i) = s)
                 <=> trParent(fanout, s) = u
      BY TrParent
    <2>2. (\E i \in 1 .. n(p) : trChild(fanout, p, i) = s) <=> trParent(fanout, s) = p
      BY <1>1, <2>1
    <2>3. Len(chi[p]) = n(p) /\ \A i \in 1 .. n(p) : chi[p][i] = trChild(fanout, p, i)
      BY <1>1
    <2>4. par[s] = trParent(fanout, s)
      BY <1>2
    <2> QED
      BY ONLY <2>2, <2>3, <2>4
  <1>4. ASSUME NEW r \in 0 .. (size - 1)
        PROVE  LET s == Shifted(size, root, r)
               IN  /\ view[r].next = [i \in 1 .. Len(chi[s]) |-> (chi[s][i] + root) % size]
                   /\ r # root => view[r].prev = (par[s] + root) % size
    <2> DEFINE s == Shifted(size, root, r)
    <2>1. s \in 0 .. (size - 1) /\ (r # root => s \in 1 .. (size - 1))
      BY Shifting
    <2>2. view[r] = build_tree(fanout, size, root, r)
      BY DEF Tree
    <2>3. /\ view[r].next = [i \in 1 .. n(s) |-> (trChild(fanout, s, i) + root) % size]
          /\ r # root => view[r].prev = (trParent(fanout, s) + root) % size
      <3>1. build_tree(fanout, size, root, r)
              = [prev |-> (trParent(fanout, s) + root) % size,
                 next |-> [i \in 1 .. n(s) |-> (trChild(fanout, s, i) + root) % size]]
        BY DEF build_tree, trChild, trParent, trChildren, UpBy
      <3> HIDE DEF n, s, view
      <3> QED
        BY <2>2, <3>1
    <2> HIDE DEF s, view, chi, par, n
    <2>4. /\ view[r].next = [i \in 1 .. Len(chi[s]) |-> (chi[s][i] + root) % size]
          /\ r # root => view[r].prev = (par[s] + root) % size
      BY <1>1, <1>2, <2>1, <2>3
    <2> QED
      BY <2>4 DEF s
  <1>5. OneTree(view, size, root)
    <2> HIDE DEF n, par, chi, view
    <2>1. PlacesFit(size, par, chi)
      BY <1>1, <1>2, <1>3 DEF PlacesFit
    <2>2. Follows(view, size, root, par, chi)
      BY <1>4 DEF Follows
    <2> QED
      BY <2>1, <2>2, ShiftedTree
  <1> QED
    BY <1>5 DEF Spans, RootOf

-----------------------------------------------------------------------------
(* The binomial tree of gather and scatter, on shifted ranks.              *)

(* The bits of v are 0 up to the j-th one.                                 *)
ZeroUpTo(v, j) == \E x \in Nat : v = pown(2, j) * (2 * x)

(* Flipping a bit that is not set, and one that is.                        *)
LEMMA FlipBit ==
    ASSUME NEW v \in Nat, NEW j \in Nat
    PROVE  /\ ZeroUpTo(v, j) => Flip(v, pown(2, j)) = v + pown(2, j)
           /\ \A u \in Nat : v = pown(2, j) * (2 * u + 1)
                                => Flip(v, pown(2, j)) = v - pown(2, j)
  <1> DEFINE m == pown(2, j)
  <1>1. m \in Nat \ {0}
    BY PowersOrdered
  <1> HIDE DEF m
  <1>2. \A y \in Nat : (m * y) \div m = y
    <2> TAKE y \in Nat
    <2> DEFINE z == 0
    <2>1. z \in 0 .. (m - 1)
      BY <1>1
    <2> HIDE DEF z
    <2>2. (m * y + z) \div m = y
      BY <1>1, <2>1, Quotient
    <2>3. m * y + z = m * y
      BY <1>1 DEF z
    <2> QED
      BY <2>2, <2>3
  <1>3. \A x \in Nat : /\ 2 * x \in Nat /\ (2 * x) % 2 = 0
                       /\ 2 * x + 1 \in Nat /\ (2 * x + 1) % 2 = 1
    OBVIOUS
  <1>4. ASSUME NEW x \in Nat, v = m * (2 * x)
        PROVE  Flip(v, m) = v + m
    <2>1. v \div m = 2 * x
      BY <1>2, <1>3, <1>4
    <2> QED
      BY <1>3, <2>1 DEF Flip
  <1>5. ASSUME NEW x \in Nat, v = m * (2 * x + 1)
        PROVE  Flip(v, m) = v - m
    <2>1. v \div m = 2 * x + 1
      BY <1>2, <1>3, <1>5
    <2> QED
      BY <1>3, <2>1 DEF Flip
  <1> QED
    BY <1>4, <1>5 DEF ZeroUpTo, m

(* Zeros up to a bit are zeros up to a lower one.                          *)
LEMMA ZeroLower ==
    ASSUME NEW v \in Nat, NEW j \in Nat, NEW k \in Nat, k <= j, ZeroUpTo(v, j)
    PROVE  ZeroUpTo(v, k)
  <1>1. PICK x \in Nat : v = pown(2, j) * (2 * x)
    BY DEF ZeroUpTo
  <1> DEFINE a == pown(2, k)
             b == pown(2, j - k)
  <1>2. a \in Nat /\ b \in Nat /\ pown(2, j) = a * b
    <2>1. j - k \in Nat /\ k + (j - k) = j
      OBVIOUS
    <2>2. pown(2, k) * pown(2, j - k) = pown(2, k + (j - k))
      BY <2>1, PowersAdd
    <2> QED
      BY <2>1, <2>2, PowersOrdered
  <1> HIDE DEF a, b
  <1>3. (a * b) * (2 * x) = a * (2 * (b * x)) /\ b * x \in Nat
    BY <1>2
  <1> QED
    BY <1>1, <1>2, <1>3 DEF ZeroUpTo, a

(* The lowest bit that is set.                                             *)
LEMMA LowestBit ==
    \A v \in Nat \ {0} : \E t \in Nat, u \in Nat : v = pown(2, t) * (2 * u + 1)
  <1> DEFINE Has(v) == \E t \in Nat, u \in Nat : v = pown(2, t) * (2 * u + 1)
             Bad == {v \in Nat \ {0} : ~Has(v)}
  <1> SUFFICES ASSUME Bad # {}
               PROVE  FALSE
    OBVIOUS
  <1>0. Bad \subseteq Nat
    OBVIOUS
  <1>1. PICK v \in Bad : \A i \in Bad : v <= i
    <2> HIDE DEF Bad
    <2> QED
      BY <1>0, LeastNatural
  <1>2. v \in Nat \ {0} /\ ~Has(v)
    BY <1>1
  <1>3. CASE v % 2 = 1
    <2>1. v \div 2 \in Nat /\ v = 1 * (2 * (v \div 2) + 1)
      BY <1>2, <1>3
    <2>2. v = pown(2, 0) * (2 * (v \div 2) + 1)
      BY <2>1, PowersOfTwo
    <2> QED
      BY <1>2, <2>1, <2>2
  <1>4. CASE v % 2 = 0
    <2> DEFINE w == v \div 2
    <2>1. w \in Nat \ {0} /\ v = 2 * w /\ ~(v <= w)
      BY <1>2, <1>4
    <2> HIDE DEF w
    <2>2. Has(w)
      BY <1>1, <2>1
    <2>3. PICK t \in Nat, u \in Nat : w = pown(2, t) * (2 * u + 1)
      BY <2>2
    <2>4. pown(2, t) \in Nat /\ pown(2, t + 1) = pown(2, t) * 2 /\ t + 1 \in Nat
      <3>1. t \in Nat
        OBVIOUS
      <3> QED
        BY ONLY <3>1, PowersOfTwo
    <2>5. \A x, y \in Nat : 2 * (x * y) = (x * 2) * y
      OBVIOUS
    <2>6. v = pown(2, t + 1) * (2 * u + 1)
      BY <2>1, <2>3, <2>4, <2>5
    <2> QED
      BY <1>2, <2>4, <2>6
  <1> QED
    BY <1>2, <1>3, <1>4

(* Below it there are only zeros, above it not.                            *)
LEMMA BelowLowest ==
    ASSUME NEW v \in Nat, NEW t \in Nat, NEW u \in Nat, v = pown(2, t) * (2 * u + 1),
           NEW j \in Nat
    PROVE  ZeroUpTo(v, j) <=> j < t
  <1>1. ASSUME j < t
        PROVE  ZeroUpTo(v, j)
    <2> DEFINE a == pown(2, j)
               b == pown(2, t - (j + 1))
               y == 2 * u + 1
    <2>1. a \in Nat /\ b \in Nat /\ pown(2, t) = (a * 2) * b /\ y \in Nat
      <3>1. t - (j + 1) \in Nat /\ (j + 1) + (t - (j + 1)) = t /\ j + 1 \in Nat
        BY <1>1
      <3>2. pown(2, j + 1) * pown(2, t - (j + 1)) = pown(2, (j + 1) + (t - (j + 1)))
        BY <3>1, PowersAdd
      <3>3. pown(2, j + 1) = a * 2
        BY PowersOfTwo
      <3>4. y \in Nat
        OBVIOUS
      <3> QED
        BY <3>1, <3>2, <3>3, <3>4, PowersOrdered
    <2> HIDE DEF a, b, y
    <2>2. ((a * 2) * b) * y = a * (2 * (b * y)) /\ b * y \in Nat
      BY <2>1
    <2>3. v = a * (2 * (b * y))
      BY <2>1, <2>2 DEF y
    <2> QED
      BY <2>2, <2>3 DEF ZeroUpTo, a
  <1>2. ASSUME ZeroUpTo(v, j), ~(j < t)
        PROVE  FALSE
    <2>1. ZeroUpTo(v, t)
      BY <1>2, ZeroLower
    <2>2. /\ Flip(v, pown(2, t)) = v + pown(2, t)
          /\ Flip(v, pown(2, t)) = v - pown(2, t)
      BY <2>1, FlipBit
    <2>3. pown(2, t) \in Nat /\ pown(2, t) > t
      BY PowersOrdered
    <2> QED
      BY <2>2, <2>3
  <1> QED
    BY <1>1, <1>2

(* The masks are the powers of two that are small enough.                  *)
LEMMA Masks ==
    ASSUME NEW size \in Nat
    PROVE  /\ Len(MasksBelow(size)) \in 0 .. size
           /\ \A i \in Nat \ {0} : i \in 1 .. Len(MasksBelow(size))
                                      <=> pown(2, i - 1) < size
           /\ \A i \in 1 .. Len(MasksBelow(size)) : MasksBelow(size)[i] = pown(2, i - 1)
  <1> DEFINE p(k) == pown(2, k)
             A == {k \in 1 .. size : p(k - 1) < size}
             M == Cardinality(A)
  <1>1. /\ \A k \in Nat : p(k) \in Nat /\ p(k) > k
        /\ \A j, k \in Nat : j <= k => p(j) <= p(k)
    BY PowersOrdered
  <1>2. MasksBelow(size) = [i \in 1 .. M |-> p(i - 1)]
    BY DEF MasksBelow
  <1> HIDE DEF p
  <1>3. \A i \in A : \A j \in 1 .. i : j \in A
    <2> TAKE i \in A
    <2> TAKE j \in 1 .. i
    <2>1. i - 1 \in Nat /\ j - 1 \in Nat /\ j - 1 <= i - 1
      OBVIOUS
    <2>2. p(i - 1) \in Nat /\ p(j - 1) \in Nat /\ p(j - 1) <= p(i - 1)
      BY <1>1, <2>1
    <2> QED
      BY <2>2
  <1>4. M \in 0 .. size /\ A = 1 .. M
    <2>1. A \subseteq 1 .. size
      OBVIOUS
    <2> HIDE DEF A
    <2> QED
      BY <1>3, <2>1, PrefixSet
  <1>5. \A i \in Nat \ {0} : i \in A <=> p(i - 1) < size
    <2> TAKE i \in Nat \ {0}
    <2>1. i - 1 \in Nat
      OBVIOUS
    <2>2. p(i - 1) \in Nat /\ p(i - 1) > i - 1
      BY <1>1, <2>1
    <2> QED
      BY <2>2
  <1> HIDE DEF A, M
  <1>6. MasksBelow(size) \in Seq(Nat) /\ Len(MasksBelow(size)) = M
    <2>1. \A i \in 1 .. M : p(i - 1) \in Nat
      BY <1>1, <1>4
    <2> QED
      BY <1>2, <1>4, <2>1
  <1>7. \A i \in 1 .. M : MasksBelow(size)[i] = p(i - 1)
    BY <1>2
  <1> QED
    BY <1>4, <1>5, <1>6, <1>7 DEF p

(* The masks that lead down, those that are tried, the children there are, *)
(* where the i-th child is, and the parent.                                *)
ioLower(size, v) ==
    {i \in 1 .. Len(MasksBelow(size)) : Flip(v, MasksBelow(size)[i]) < v}
ioTried(size, v) ==
    IF ioLower(size, v) = {} THEN 1 .. Len(MasksBelow(size))
    ELSE 1 .. Min(ioLower(size, v)) - 1
ioChild(size, v, i) == Flip(v, MasksBelow(size)[i])
ioChildren(size, v) == {i \in ioTried(size, v) : ioChild(size, v, i) < size}
ioParent(size, v) == Flip(v, MasksBelow(size)[Min(ioLower(size, v))])

(* The first mask that leads down is the lowest bit that is set.           *)
LEMMA IoLowest ==
    ASSUME NEW size \in Nat \ {0}, NEW v \in 0 .. (size - 1),
           NEW t \in Nat, NEW u \in Nat, v = pown(2, t) * (2 * u + 1)
    PROVE  /\ ioLower(size, v) # {}
           /\ Min(ioLower(size, v)) = t + 1
           /\ ioParent(size, v) = v - pown(2, t)
           /\ t + 1 \in 1 .. Len(MasksBelow(size))
  <1> DEFINE A == ioLower(size, v)
             M == Len(MasksBelow(size))
             p(k) == pown(2, k)
  <1>1. /\ M \in 0 .. size
        /\ \A i \in Nat \ {0} : i \in 1 .. M <=> p(i - 1) < size
        /\ \A i \in 1 .. M : MasksBelow(size)[i] = p(i - 1)
    <2>1. size \in Nat
      OBVIOUS
    <2> QED
      BY ONLY <2>1, Masks
  <1>2. p(t) \in Nat \ {0} /\ p(t) <= v
    <2>1. p(t) \in Nat \ {0}
      BY PowersOrdered
    <2>2. \A x, y \in Nat : x <= x * (2 * y + 1)
      OBVIOUS
    <2> HIDE DEF p
    <2> QED
      BY <2>1, <2>2 DEF p
  <1>3. t + 1 \in 1 .. M /\ (t + 1) - 1 = t /\ MasksBelow(size)[t + 1] = p(t)
    <2>1. t + 1 \in Nat \ {0} /\ (t + 1) - 1 = t /\ p(t) < size
      BY <1>2
    <2> HIDE DEF M, p
    <2> QED
      BY <1>1, <2>1
  <1>4. Flip(v, p(t)) = v - p(t)
    BY FlipBit
  <1>5. ASSUME NEW i \in A
        PROVE  t + 1 <= i
    <2> SUFFICES ASSUME ~(t + 1 <= i)
                 PROVE  FALSE
      OBVIOUS
    <2>1. i \in 1 .. M /\ Flip(v, MasksBelow(size)[i]) < v
      BY DEF ioLower
    <2>2. i - 1 \in Nat /\ i - 1 < t /\ MasksBelow(size)[i] = p(i - 1)
      BY <1>1, <2>1
    <2>3. ZeroUpTo(v, i - 1)
      BY <2>2, BelowLowest
    <2>4. Flip(v, p(i - 1)) = v + p(i - 1) /\ p(i - 1) \in Nat
      BY <2>2, <2>3, FlipBit, PowersOrdered
    <2> QED
      BY <2>1, <2>2, <2>4
  <1>6. t + 1 \in A
    BY <1>2, <1>3, <1>4 DEF ioLower
  <1>7. A \subseteq Int
    BY <1>1 DEF ioLower
  <1> HIDE DEF A
  <1>8. Min(A) = t + 1
    <2>1. Min(A) \in A /\ \A i \in A : Min(A) <= i
      BY <1>5, <1>6 DEF Min
    <2>2. Min(A) \in Int /\ Min(A) <= t + 1 /\ t + 1 <= Min(A)
      BY <1>5, <1>6, <1>7, <2>1
    <2> QED
      BY <2>2
  <1>9. ioParent(size, v) = v - p(t)
    BY <1>3, <1>4, <1>8 DEF ioParent, A
  <1> QED
    BY <1>3, <1>6, <1>8, <1>9 DEF A

(* The children of a rank set a bit below all of its own.                  *)
LEMMA IoChild ==
    ASSUME NEW size \in Nat \ {0}, NEW v \in 0 .. (size - 1)
    PROVE  /\ ioChildren(size, v) \subseteq 1 .. size
           /\ \A i \in Nat \ {0} :
                 i \in ioChildren(size, v)
                     <=> ZeroUpTo(v, i - 1) /\ v + pown(2, i - 1) < size
           /\ \A i \in ioChildren(size, v) : ioChild(size, v, i) = v + pown(2, i - 1)
  <1> DEFINE M == Len(MasksBelow(size))
             p(k) == pown(2, k)
             T == ioTried(size, v)
  <1>1. /\ M \in 0 .. size
        /\ \A i \in Nat \ {0} : i \in 1 .. M <=> p(i - 1) < size
        /\ \A i \in 1 .. M : MasksBelow(size)[i] = p(i - 1)
    <2>1. size \in Nat
      OBVIOUS
    <2> QED
      BY <2>1, Masks
  <1>2. \A k \in Nat : p(k) \in Nat
    BY PowersOrdered
  <1>3. \A k \in Nat : ZeroUpTo(v, k) => Flip(v, p(k)) = v + p(k)
    BY FlipBit
  <1>4. /\ T \subseteq 1 .. M
        /\ \A i \in Nat \ {0} : i \in T <=> ZeroUpTo(v, i - 1) /\ i \in 1 .. M
    <2>1. CASE v = 0
      <3>1. \A k \in Nat : ZeroUpTo(v, k)
        <4> TAKE k \in Nat
        <4>1. p(k) * (2 * 0) = 0 /\ 0 \in Nat
          BY <1>2
        <4> QED
          BY <2>1, <4>1 DEF ZeroUpTo
      <3>2. ioLower(size, v) = {}
        <4> SUFFICES ASSUME NEW i \in ioLower(size, v)
                     PROVE  FALSE
          OBVIOUS
        <4>1. i \in 1 .. M /\ Flip(v, MasksBelow(size)[i]) < v
          BY DEF ioLower
        <4>2. i - 1 \in Nat /\ MasksBelow(size)[i] = p(i - 1)
          BY <1>1, <4>1
        <4>3. Flip(v, p(i - 1)) = v + p(i - 1) /\ p(i - 1) \in Nat
          BY <1>2, <1>3, <3>1, <4>2
        <4> QED
          BY <4>1, <4>2, <4>3
      <3>3. T = 1 .. M
        BY <3>2 DEF ioTried
      <3>4. \A i \in Nat \ {0} : i - 1 \in Nat
        OBVIOUS
      <3> QED
        BY <3>1, <3>3, <3>4
    <2>2. CASE v # 0
      <3>1. v \in Nat \ {0}
        BY <2>2
      <3>2. PICK t \in Nat, u \in Nat : v = pown(2, t) * (2 * u + 1)
        BY <3>1, LowestBit
      <3>3. /\ ioLower(size, v) # {} /\ Min(ioLower(size, v)) = t + 1
            /\ t + 1 \in 1 .. M
        BY <3>2, IoLowest
      <3>4. T = 1 .. t
        BY <3>3 DEF ioTried
      <3>5. \A k \in Nat : ZeroUpTo(v, k) <=> k < t
        BY <3>1, <3>2, BelowLowest
      <3> QED
        BY <1>1, <3>3, <3>4, <3>5
    <2> QED
      BY <2>1, <2>2
  <1> HIDE DEF T, M, p
  <1>6. \A i \in T : /\ i \in Nat \ {0} /\ i \in 1 .. M
                     /\ ioChild(size, v, i) = v + p(i - 1)
    <2> TAKE i \in T
    <2>1. i \in 1 .. M /\ i \in Nat \ {0} /\ i - 1 \in Nat
      BY <1>1, <1>4
    <2>2. ZeroUpTo(v, i - 1) /\ MasksBelow(size)[i] = p(i - 1)
      BY <1>1, <1>4, <2>1
    <2> QED
      BY <1>3, <2>1, <2>2 DEF ioChild
  <1>7. ioChildren(size, v) = {i \in T : v + p(i - 1) < size}
    BY <1>6 DEF ioChildren, T
  <1>8. ASSUME NEW i \in Nat \ {0}
        PROVE  i \in ioChildren(size, v) <=> ZeroUpTo(v, i - 1) /\ v + p(i - 1) < size
    <2>1. i - 1 \in Nat /\ p(i - 1) \in Nat
      BY <1>2
    <2>2. v + p(i - 1) < size => p(i - 1) < size
      BY <2>1
    <2> QED
      BY <1>1, <1>4, <1>7, <2>2
  <1> QED
    BY <1>1, <1>6, <1>7, <1>8 DEF p

(* The children of a rank are ranks behind it, and different ones.         *)
LEMMA IoChildren ==
    ASSUME NEW size \in Nat \ {0}, NEW v \in 0 .. (size - 1)
    PROVE  /\ Cardinality(ioChildren(size, v)) \in Nat
           /\ ioChildren(size, v) = 1 .. Cardinality(ioChildren(size, v))
           /\ \A i \in ioChildren(size, v) : ioChild(size, v, i) \in 1 .. (size - 1)
           /\ \A i, j \in ioChildren(size, v) :
                 ioChild(size, v, i) = ioChild(size, v, j) => i = j
  <1> DEFINE A == ioChildren(size, v)
             q(i) == pown(2, i - 1)
  <1>1. /\ A \subseteq 1 .. size
        /\ \A i \in Nat \ {0} : i \in A <=> ZeroUpTo(v, i - 1) /\ v + q(i) < size
        /\ \A i \in A : ioChild(size, v, i) = v + q(i)
    BY IoChild
  <1>2. \A i, j \in Nat \ {0} : /\ q(i) \in Nat \ {0}
                                /\ i <= j => q(i) <= q(j)
                                /\ q(i) = q(j) => i = j
    <2> TAKE i, j \in Nat \ {0}
    <2>1. i - 1 \in Nat /\ j - 1 \in Nat
      OBVIOUS
    <2>2. /\ q(i) \in Nat /\ q(i) > i - 1
          /\ i - 1 <= j - 1 => q(i) <= q(j)
          /\ q(i) = q(j) => i - 1 = j - 1
      BY <2>1, PowersOrdered
    <2> QED
      BY <2>1, <2>2
  <1> HIDE DEF A, q
  <1>3. \A i \in A : i \in Nat \ {0}
    BY <1>1
  <1>4. \A i \in A : \A j \in 1 .. i : j \in A
    <2> TAKE i \in A
    <2> TAKE j \in 1 .. i
    <2>1. /\ i \in Nat \ {0} /\ j \in Nat \ {0} /\ j <= i
          /\ i - 1 \in Nat /\ j - 1 \in Nat /\ j - 1 <= i - 1 /\ v \in Nat
      BY <1>3
    <2>2. ZeroUpTo(v, i - 1) /\ v + q(i) < size
      BY <1>1, <2>1
    <2>3. ZeroUpTo(v, j - 1)
      BY <2>1, <2>2, ZeroLower
    <2>4. q(i) \in Nat /\ q(j) \in Nat /\ q(j) <= q(i)
      BY <1>2, <2>1
    <2>5. v + q(j) < size
      BY <2>2, <2>4
    <2> QED
      BY <1>1, <2>1, <2>3, <2>5
  <1>5. Cardinality(A) \in 0 .. size /\ A = 1 .. Cardinality(A)
    <2>1. size \in Nat
      OBVIOUS
    <2> QED
      BY <1>1, <1>4, <2>1, PrefixSet
  <1>6. \A i \in A : ioChild(size, v, i) \in 1 .. (size - 1)
    <2> TAKE i \in A
    <2>1. ioChild(size, v, i) = v + q(i) /\ v + q(i) < size /\ q(i) \in Nat \ {0}
      BY <1>1, <1>2, <1>3
    <2> QED
      BY <2>1
  <1>7. \A i, j \in A : ioChild(size, v, i) = ioChild(size, v, j) => i = j
    <2> TAKE i, j \in A
    <2>1. /\ ioChild(size, v, i) = v + q(i) /\ ioChild(size, v, j) = v + q(j)
          /\ q(i) \in Nat /\ q(j) \in Nat /\ (q(i) = q(j) => i = j)
      BY <1>1, <1>2, <1>3
    <2>2. v + q(i) = v + q(j) => q(i) = q(j)
      BY <2>1
    <2> QED
      BY <2>1, <2>2
  <1> QED
    BY <1>5, <1>6, <1>7 DEF A

(* The parent of a rank is the one whose child it is.                      *)
LEMMA IoParent ==
    ASSUME NEW size \in Nat \ {0}, NEW s \in 1 .. (size - 1)
    PROVE  /\ ioLower(size, s) # {}
           /\ ioParent(size, s) \in 0 .. (s - 1)
           /\ \A p \in 0 .. (size - 1) :
                 (\E i \in ioChildren(size, p) : ioChild(size, p, i) = s)
                     <=> ioParent(size, s) = p
  <1>0. s \in Nat \ {0} /\ s \in 0 .. (size - 1)
    OBVIOUS
  <1>1. PICK t \in Nat, u \in Nat : s = pown(2, t) * (2 * u + 1)
    BY <1>0, LowestBit
  <1> DEFINE m == pown(2, t)
  <1>2. /\ m \in Nat \ {0} /\ ioLower(size, s) # {} /\ ioParent(size, s) = s - m
    <2>1. ioLower(size, s) # {} /\ ioParent(size, s) = s - pown(2, t)
      BY <1>0, <1>1, IoLowest
    <2>2. t \in Nat
      OBVIOUS
    <2>3. m \in Nat \ {0}
      BY ONLY <2>2, PowersOrdered
    <2> QED
      BY <2>1, <2>3
  <1>3. m <= s /\ s - m = m * (2 * u)
    <2>1. s = m * (2 * u + 1)
      BY <1>1
    <2>2. \A x, y \in Nat : /\ x * (2 * y + 1) = x * (2 * y) + x
                            /\ x * (2 * y) \in Nat
      OBVIOUS
    <2> HIDE DEF m
    <2>3. m * (2 * u + 1) = m * (2 * u) + m /\ m * (2 * u) \in Nat
      BY <1>2, <2>2
    <2> QED
      BY <1>2, <2>1, <2>3
  <1>4. s - m \in 0 .. (s - 1)
    <2> HIDE DEF m
    <2> QED
      BY <1>0, <1>2, <1>3
  <1>5. ASSUME NEW p \in 0 .. (size - 1), NEW i \in ioChildren(size, p),
               ioChild(size, p, i) = s
        PROVE  s - m = p
    <2>1. /\ i \in Nat \ {0} /\ ZeroUpTo(p, i - 1) /\ s = p + pown(2, i - 1)
      <3>1. i \in Nat \ {0}
        BY IoChild
      <3> QED
        BY <1>5, <3>1, IoChild
    <2> DEFINE k == i - 1
    <2>2. k \in Nat
      BY <2>1
    <2> HIDE DEF k
    <2>3. PICK x \in Nat : p = pown(2, k) * (2 * x)
      BY <2>1 DEF ZeroUpTo, k
    <2>4. s = pown(2, k) * (2 * x + 1)
      <3>1. pown(2, k) \in Nat
        BY <2>2, PowersOrdered
      <3>2. \A y, z \in Nat : y * (2 * z) + y = y * (2 * z + 1)
        OBVIOUS
      <3> QED
        BY <2>1, <2>3, <3>1, <3>2 DEF k
    <2>5. ioParent(size, s) = s - pown(2, k)
      BY <1>0, <2>2, <2>4, IoLowest
    <2>6. pown(2, k) \in Nat
      BY <2>2, PowersOrdered
    <2> QED
      BY <1>2, <2>1, <2>5, <2>6 DEF k
  <1>6. ASSUME NEW p \in 0 .. (size - 1), s - m = p
        PROVE  \E i \in ioChildren(size, p) : ioChild(size, p, i) = s
    <2>1. ZeroUpTo(p, t)
      BY <1>3, <1>6 DEF ZeroUpTo
    <2>2. p + m = s /\ s < size
      <3> HIDE DEF m
      <3> QED
        BY <1>0, <1>2, <1>6
    <2> DEFINE i == t + 1
    <2>3. i \in Nat \ {0} /\ i - 1 = t
      OBVIOUS
    <2> HIDE DEF i
    <2>4. i \in ioChildren(size, p)
      BY <2>1, <2>2, <2>3, IoChild
    <2>5. ioChild(size, p, i) = p + m
      BY <2>3, <2>4, IoChild
    <2> QED
      BY <2>2, <2>4, <2>5
  <1> HIDE DEF m
  <1> QED
    BY <1>2, <1>4, <1>5, <1>6

(* build_in_order_bmtree spans the communicator, whatever its size and the *)
(* root.                                                                   *)
THEOREM InOrderBmtreeSpans ==
    ASSUME NEW size \in Nat \ {0}, NEW root \in 0 .. (size - 1), NEW fanout
    PROVE  Spans("in_order_bmtree", fanout, size, root)
  <1> DEFINE n(s) == Cardinality(ioChildren(size, s))
             par == [s \in 1 .. (size - 1) |-> ioParent(size, s)]
             chi == [s \in 0 .. (size - 1) |->
                        [i \in 1 .. n(s) |-> ioChild(size, s, i)]]
             view == [r \in 0 .. (size - 1) |-> Tree("in_order_bmtree", fanout, size, root, r)]
  <1>1. ASSUME NEW s \in 0 .. (size - 1)
        PROVE  /\ chi[s] \in Seq(1 .. (size - 1)) /\ Len(chi[s]) = n(s)
               /\ ioChildren(size, s) = 1 .. n(s)
               /\ \A i \in 1 .. n(s) : chi[s][i] = ioChild(size, s, i)
               /\ \A i, j \in 1 .. n(s) : chi[s][i] = chi[s][j] => i = j
    <2>1. /\ n(s) \in Nat /\ ioChildren(size, s) = 1 .. n(s)
          /\ \A i \in 1 .. n(s) : ioChild(size, s, i) \in 1 .. (size - 1)
          /\ \A i, j \in 1 .. n(s) : ioChild(size, s, i) = ioChild(size, s, j) => i = j
      <3> DEFINE A == ioChildren(size, s)
      <3>1. /\ Cardinality(A) \in Nat /\ A = 1 .. Cardinality(A)
            /\ \A i \in A : ioChild(size, s, i) \in 1 .. (size - 1)
            /\ \A i, j \in A : ioChild(size, s, i) = ioChild(size, s, j) => i = j
        BY IoChildren
      <3> HIDE DEF A
      <3> QED
        BY <3>1 DEF A
    <2>2. chi[s] = [i \in 1 .. n(s) |-> ioChild(size, s, i)]
      OBVIOUS
    <2> HIDE DEF n, chi
    <2>3. chi[s] \in Seq(1 .. (size - 1)) /\ Len(chi[s]) = n(s)
      <3> DEFINE S == 1 .. (size - 1)
      <3> HIDE DEF S
      <3>1. \A i \in 1 .. n(s) : ioChild(size, s, i) \in S
        BY <2>1 DEF S
      <3>2. chi[s] \in Seq(S) /\ Len(chi[s]) = n(s)
        BY <2>1, <2>2, <3>1
      <3> QED
        BY <3>2 DEF S
    <2> QED
      BY <2>1, <2>2, <2>3
  <1>2. ASSUME NEW s \in 1 .. (size - 1)
        PROVE  par[s] \in 0 .. (s - 1) /\ par[s] = ioParent(size, s)
    BY IoParent
  <1>3. ASSUME NEW p \in 0 .. (size - 1), NEW s \in 1 .. (size - 1)
        PROVE  (\E i \in 1 .. Len(chi[p]) : chi[p][i] = s) <=> par[s] = p
    <2> HIDE DEF chi, par, n, view
    <2>1. \A u \in 0 .. (size - 1) :
             (\E i \in ioChildren(size, u) : ioChild(size, u, i) = s)
                 <=> ioParent(size, s) = u
      BY IoParent
    <2>2. (\E i \in 1 .. n(p) : ioChild(size, p, i) = s) <=> ioParent(size, s) = p
      BY <1>1, <2>1
    <2>3. Len(chi[p]) = n(p) /\ \A i \in 1 .. n(p) : chi[p][i] = ioChild(size, p, i)
      BY <1>1
    <2>4. par[s] = ioParent(size, s)
      BY <1>2
    <2> QED
      BY ONLY <2>2, <2>3, <2>4
  <1>4. ASSUME NEW r \in 0 .. (size - 1)
        PROVE  LET s == Shifted(size, root, r)
               IN  /\ view[r].next = [i \in 1 .. Len(chi[s]) |-> (chi[s][i] + root) % size]
                   /\ r # root => view[r].prev = (par[s] + root) % size
    <2> DEFINE s == Shifted(size, root, r)
    <2>1. s \in 0 .. (size - 1) /\ (r # root => s \in 1 .. (size - 1))
      BY Shifting
    <2>2. view[r] = build_in_order_bmtree(size, root, r)
      BY DEF Tree
    <2>3. /\ view[r].next = [i \in 1 .. n(s) |-> (ioChild(size, s, i) + root) % size]
          /\ r # root => view[r].prev = (ioParent(size, s) + root) % size
      <3>1. build_in_order_bmtree(size, root, r)
              = [prev |-> IF ioLower(size, s) = {} THEN root
                          ELSE (ioParent(size, s) + root) % size,
                 next |-> [i \in 1 .. n(s) |-> (ioChild(size, s, i) + root) % size]]
        BY DEF build_in_order_bmtree, ioChild, ioParent, ioChildren, ioTried, ioLower
      <3> HIDE DEF n, s, view
      <3>2. r # root => ioLower(size, s) # {}
        BY <2>1, IoParent
      <3> QED
        BY <2>2, <3>1, <3>2
    <2> HIDE DEF s, view, chi, par, n
    <2>4. /\ view[r].next = [i \in 1 .. Len(chi[s]) |-> (chi[s][i] + root) % size]
          /\ r # root => view[r].prev = (par[s] + root) % size
      BY <1>1, <1>2, <2>1, <2>3
    <2> QED
      BY <2>4 DEF s
  <1>5. OneTree(view, size, root)
    <2> HIDE DEF n, par, chi, view
    <2>1. PlacesFit(size, par, chi)
      BY <1>1, <1>2, <1>3 DEF PlacesFit
    <2>2. Follows(view, size, root, par, chi)
      BY <1>4 DEF Follows
    <2> QED
      BY <2>1, <2>2, ShiftedTree
  <1> QED
    BY <1>5 DEF Spans, RootOf

-----------------------------------------------------------------------------
(* The chains, on shifted ranks.                                           *)

(* Where column c starts, of columns of q ranks, the first e of which have *)
(* one more.                                                               *)
StartOf(q, e, c) == 1 + c * q + (IF c < e THEN c ELSE e)

(* The columns follow each other.                                          *)
LEMMA Columns ==
    ASSUME NEW q \in Nat \ {0}, NEW e \in Nat
    PROVE  /\ StartOf(q, e, 0) = 1
           /\ \A c \in Nat :
                 /\ StartOf(q, e, c) \in Nat \ {0}
                 /\ StartOf(q, e, c + 1) = StartOf(q, e, c) + q + (IF c < e THEN 1 ELSE 0)
           /\ \A c, d \in Nat : c <= d => StartOf(q, e, c) <= StartOf(q, e, d)
  <1> DEFINE m(c) == c * q
  <1>1. \A c \in Nat : m(c) \in Nat /\ m(c + 1) = m(c) + q
    OBVIOUS
  <1>2. m(0) = 0
    OBVIOUS
  <1>3. \A c, d \in Nat : c <= d => m(c) <= m(d)
    <2>1. \A c, d \in Nat : c <= d => q * c <= q * d
      BY MulMonotone
    <2>2. \A c \in Nat : c * q = q * c
      OBVIOUS
    <2> QED
      BY <2>1, <2>2
  <1>4. \A c : StartOf(q, e, c) = 1 + m(c) + (IF c < e THEN c ELSE e)
    BY DEF StartOf
  <1> HIDE DEF m
  <1>5. StartOf(q, e, 0) = 1
    BY <1>2, <1>4
  <1>6. ASSUME NEW c \in Nat
        PROVE  /\ StartOf(q, e, c) \in Nat \ {0}
               /\ StartOf(q, e, c + 1) = StartOf(q, e, c) + q + (IF c < e THEN 1 ELSE 0)
    <2>1. m(c) \in Nat /\ m(c + 1) = m(c) + q
      BY <1>1
    <2> QED
      BY <1>4, <2>1
  <1>7. ASSUME NEW c \in Nat, NEW d \in Nat, c <= d
        PROVE  StartOf(q, e, c) <= StartOf(q, e, d)
    <2>1. m(c) \in Nat /\ m(d) \in Nat /\ m(c) <= m(d)
      BY <1>1, <1>3, <1>7
    <2> QED
      BY <1>4, <1>7, <2>1
  <1> QED
    BY <1>5, <1>6, <1>7

(* A rank is in one column only.                                           *)
LEMMA OneColumn ==
    ASSUME NEW q \in Nat \ {0}, NEW e \in Nat, NEW s \in Nat,
           NEW c \in Nat, StartOf(q, e, c) <= s, s < StartOf(q, e, c + 1),
           NEW d \in Nat, StartOf(q, e, d) <= s, s < StartOf(q, e, d + 1)
    PROVE  c = d
  <1> DEFINE S(n) == StartOf(q, e, n)
  <1>1. /\ \A n \in Nat : S(n) \in Nat
        /\ \A m, n \in Nat : m <= n => S(m) <= S(n)
    BY Columns
  <1>2. S(c) <= s /\ s < S(c + 1) /\ S(d) <= s /\ s < S(d + 1)
    OBVIOUS
  <1> HIDE DEF S
  <1>3. S(c) \in Nat /\ S(d) \in Nat /\ S(c + 1) \in Nat /\ S(d + 1) \in Nat
    BY <1>1
  <1>4. (c + 1 <= d => S(c + 1) <= S(d)) /\ (d + 1 <= c => S(d + 1) <= S(c))
    BY <1>1
  <1> QED
    BY <1>2, <1>3, <1>4

(* What build_chain computes from the size and the fanout it has settled   *)
(* on, f: the length of the first columns, how many there are of those,    *)
(* and the head and the length of the column of rank s.                    *)
chMax(size, f) ==
    (size - 1) \div f + (IF (size - 1) % f = 0 THEN 0 ELSE 1)
chMark(size, f) ==
    IF (size - 1) % f = 0 THEN f + 1 ELSE (size - 1) % f
chLong(size, f, s) == s - 1 < chMark(size, f) * chMax(size, f)
chColumn(size, f, s) ==
    IF chLong(size, f, s) THEN (s - 1) \div chMax(size, f)
    ELSE chMark(size, f) + (s - 1 - chMark(size, f) * chMax(size, f))
                               \div (chMax(size, f) - 1)
chHead(size, f, s) ==
    IF chLong(size, f, s) THEN 1 + chColumn(size, f, s) * chMax(size, f)
    ELSE chMark(size, f) * chMax(size, f) + 1
             + (chColumn(size, f, s) - chMark(size, f)) * (chMax(size, f) - 1)
chLen(size, f, s) == IF chLong(size, f, s) THEN chMax(size, f) ELSE chMax(size, f) - 1
chStart(size, f, c) == StartOf((size - 1) \div f, (size - 1) % f, c)

(* The ranks but the root, divided among the columns.                      *)
LEMMA ChainDivides ==
    ASSUME NEW size \in Nat, NEW f \in Nat \ {0}, f <= size - 1
    PROVE  /\ (size - 1) \div f \in Nat \ {0}
           /\ (size - 1) % f \in 0 .. (f - 1)
           /\ chStart(size, f, f) = size
  <1> DEFINE n == size - 1
             q == n \div f
             e == n % f
  <1>1. n \in Nat /\ f <= n
    OBVIOUS
  <1> HIDE DEF n
  <1>2. q \in Nat /\ e \in 0 .. (f - 1) /\ n = f * q + e
    BY <1>1, DivMod
  <1> HIDE DEF q, e
  <1>3. q # 0
    <2> SUFFICES ASSUME q = 0
                 PROVE  FALSE
      OBVIOUS
    <2>1. f * 0 = 0
      OBVIOUS
    <2> QED
      BY <1>1, <1>2, <2>1
  <1>4. StartOf(q, e, f) = size
    <2>1. f * q \in Nat
      BY <1>2
    <2>2. ~(f < e)
      BY <1>2
    <2>3. StartOf(q, e, f) = 1 + f * q + e
      BY <2>2 DEF StartOf
    <2>4. n = size - 1
      BY DEF n
    <2> QED
      BY <1>2, <2>1, <2>3, <2>4
  <1> QED
    BY <1>2, <1>3, <1>4 DEF n, q, e, chStart

(* When they divide evenly, all columns are long.                          *)
LEMMA ChainPlaceEven ==
    ASSUME NEW size \in Nat, NEW f \in Nat \ {0}, f <= size - 1,
           NEW s \in 1 .. (size - 1), (size - 1) % f = 0
    PROVE  \E c \in 0 .. (f - 1) :
              /\ chStart(size, f, c) <= s /\ s < chStart(size, f, c + 1)
              /\ chHead(size, f, s) = chStart(size, f, c)
              /\ chLen(size, f, s) = chStart(size, f, c + 1) - chStart(size, f, c)
  <1> DEFINE q == (size - 1) \div f
             x == s - 1
             c == x \div q
  <1>1. q \in Nat \ {0} /\ size - 1 = f * q
    <2> DEFINE n == size - 1
    <2>1. n \in Nat
      OBVIOUS
    <2>2. n % f = 0
      OBVIOUS
    <2> HIDE DEF n
    <2>3. n = f * (n \div f) + (n % f) /\ n \div f \in Nat
      BY <2>1, DivMod
    <2>4. f * (n \div f) \in Nat
      BY <2>3
    <2>5. n = f * (n \div f)
      BY <2>2, <2>3, <2>4
    <2>6. q \in Nat \ {0}
      BY ChainDivides
    <2> QED
      BY <2>5, <2>6 DEF n
  <1>2. chMax(size, f) = q /\ chMark(size, f) = f + 1
    <2>1. q + 0 = q
      BY <1>1
    <2> QED
      BY <2>1 DEF chMax, chMark
  <1>3. \A d : chStart(size, f, d) = StartOf(q, 0, d)
    BY DEF chStart
  <1> HIDE DEF q
  <1>4. x \in Nat /\ x < f * q /\ s = x + 1
    BY <1>1
  <1> HIDE DEF x
  <1>5. /\ c \in Nat /\ x % q \in 0 .. (q - 1) /\ x = q * c + (x % q)
    BY <1>1, <1>4, DivMod
  <1> DEFINE r == x % q
  <1> HIDE DEF c, r
  <1>6. r \in 0 .. (q - 1) /\ x = q * c + r
    BY <1>5 DEF r
  <1>7. \A a, b \in Nat : a * b \in Nat /\ a * b = b * a
    OBVIOUS
  <1>8. c < f
    <2>1. q * c \in Nat /\ q * f = f * q /\ q * c < q * f
      BY <1>1, <1>4, <1>5, <1>6, <1>7
    <2> QED
      BY <1>1, <1>5, <2>1, MulCancel
  <1>9. chLong(size, f, s)
    <2>1. (f + 1) * q = f * q + q /\ f * q \in Nat
      BY <1>1
    <2> QED
      BY <1>1, <1>2, <1>4, <2>1 DEF chLong
  <1>10. s - 1 = x
    BY <1>4
  <1>11. /\ chColumn(size, f, s) = c /\ chHead(size, f, s) = 1 + c * q
         /\ chLen(size, f, s) = q
    BY <1>2, <1>9, <1>10 DEF chColumn, chHead, chLen, c
  <1>12. StartOf(q, 0, c) = 1 + c * q /\ StartOf(q, 0, c + 1) = (1 + c * q) + q
    <2>1. c * q \in Nat /\ (c + 1) * q = c * q + q
      BY <1>1, <1>5
    <2>2. ~(c < 0) /\ ~(c + 1 < 0)
      BY <1>5
    <2> QED
      BY <1>1, <2>1, <2>2 DEF StartOf
  <1>13. c * q = q * c /\ c * q \in Nat
    BY <1>1, <1>5, <1>7
  <1>14. 1 + c * q <= s /\ s < (1 + c * q) + q /\ ((1 + c * q) + q) - (1 + c * q) = q
    <2> DEFINE y == c * q
    <2>1. y = q * c /\ y \in Nat
      BY <1>13
    <2>2. x = y + r
      BY <1>6, <2>1
    <2> HIDE DEF y
    <2>3. 1 + y <= s /\ s < (1 + y) + q /\ ((1 + y) + q) - (1 + y) = q
      BY <1>1, <1>4, <1>6, <2>1, <2>2
    <2> QED
      BY <2>3 DEF y
  <1>15. c \in 0 .. (f - 1)
    BY <1>5, <1>8
  <1> QED
    BY <1>3, <1>11, <1>12, <1>14, <1>15

(* When they do not, the first ones are.                                   *)
LEMMA ChainPlaceOdd ==
    ASSUME NEW size \in Nat, NEW f \in Nat \ {0}, f <= size - 1,
           NEW s \in 1 .. (size - 1), (size - 1) % f # 0
    PROVE  \E c \in 0 .. (f - 1) :
              /\ chStart(size, f, c) <= s /\ s < chStart(size, f, c + 1)
              /\ chHead(size, f, s) = chStart(size, f, c)
              /\ chLen(size, f, s) = chStart(size, f, c + 1) - chStart(size, f, c)
  <1> DEFINE q == (size - 1) \div f
             e == (size - 1) % f
             x == s - 1
             m == q + 1
  <1>1. q \in Nat \ {0} /\ e \in 1 .. (f - 1) /\ size - 1 = f * q + e
    <2> DEFINE n == size - 1
    <2>1. n \in Nat
      OBVIOUS
    <2>2. n % f # 0
      OBVIOUS
    <2>3. n \div f \in Nat \ {0} /\ n % f \in 0 .. (f - 1)
      BY ChainDivides
    <2> HIDE DEF n
    <2>4. n = f * (n \div f) + (n % f)
      BY <2>1, DivMod
    <2>5. n % f \in 1 .. (f - 1)
      BY <2>2, <2>3
    <2> QED
      BY <2>3, <2>4, <2>5 DEF n
  <1>2. chMax(size, f) = m /\ chMark(size, f) = e
    BY DEF chMax, chMark
  <1>3. \A d : chStart(size, f, d) = StartOf(q, e, d)
    BY DEF chStart
  <1> HIDE DEF q, e
  <1>4. x \in Nat /\ x < f * q + e /\ s = x + 1 /\ s - 1 = x
    BY <1>1
  <1> HIDE DEF x
  <1>5. m \in Nat \ {0} /\ m = q + 1 /\ m - 1 = q
    BY <1>1
  <1> HIDE DEF m
  <1>6. \A a, b \in Nat : a * b \in Nat /\ a * b = b * a
    OBVIOUS
  <1>7. \A a \in Nat : a * m = a * q + a
    BY <1>1, <1>5
  <1>8. CASE x < e * m
    <2> DEFINE c == x \div m
               r == x % m
    <2>1. c \in Nat /\ r \in 0 .. (m - 1) /\ x = m * c + r
      BY <1>4, <1>5, DivMod
    <2>2. /\ chLong(size, f, s) /\ chColumn(size, f, s) = c
          /\ chHead(size, f, s) = 1 + c * m /\ chLen(size, f, s) = m
      BY <1>2, <1>4, <1>8 DEF chLong, chColumn, chHead, chLen
    <2> HIDE DEF c, r
    <2>3. c < e
      <3>1. m * c \in Nat /\ m * e = e * m /\ e \in Nat
        BY <1>1, <1>5, <1>6, <2>1
      <3>2. m * c < m * e
        <4> DEFINE a == m * c
                   b == e * m
        <4>1. a \in Nat /\ x = a + r /\ r \in Nat /\ b \in Nat /\ x < b /\ m * e = b
          BY <1>1, <1>5, <1>6, <1>8, <2>1, <3>1
        <4> HIDE DEF a, b
        <4>2. a < b
          BY <4>1
        <4> QED
          BY <4>1, <4>2 DEF a
      <3> QED
        BY <1>5, <2>1, <3>1, <3>2, MulCancel
    <2> DEFINE y == c * q
    <2>4. y \in Nat /\ c * m = y + c /\ m * c = y + c /\ (c + 1) * q = y + q
      <3>1. \A a, b \in Nat : (a + 1) * b = a * b + b
        OBVIOUS
      <3> QED
        BY <1>1, <1>5, <1>6, <1>7, <2>1, <3>1
    <2>5. StartOf(q, e, c) = 1 + y + c
      BY <2>3 DEF StartOf
    <2>6. StartOf(q, e, c + 1) = 1 + (y + q) + (c + 1)
      <3>1. (IF c + 1 < e THEN c + 1 ELSE e) = c + 1
        BY <1>1, <2>1, <2>3
      <3> QED
        BY <2>4, <3>1 DEF StartOf
    <2> HIDE DEF y
    <2>7. /\ 1 + y + c <= s /\ s < 1 + (y + q) + (c + 1)
          /\ 1 + c * m = 1 + y + c /\ m = (1 + (y + q) + (c + 1)) - (1 + y + c)
      BY <1>1, <1>4, <1>5, <2>1, <2>4
    <2>8. c \in 0 .. (f - 1)
      BY <1>1, <2>1, <2>3
    <2> QED
      BY <1>3, <2>2, <2>5, <2>6, <2>7, <2>8
  <1>9. CASE ~(x < e * m)
    <2> DEFINE z == x - e * m
               k == z \div q
               r == z % q
               c == e + k
    <2>1. e * m \in Nat /\ z \in Nat
      <3>1. e * m \in Nat
        BY <1>1, <1>5, <1>6
      <3> QED
        BY <1>4, <1>9, <3>1
    <2>2. /\ ~chLong(size, f, s) /\ chColumn(size, f, s) = c
          /\ chHead(size, f, s) = e * m + 1 + (c - e) * q /\ chLen(size, f, s) = q
      BY <1>2, <1>4, <1>5, <1>9 DEF chLong, chColumn, chHead, chLen
    <2>3. x = z + e * m
      BY <1>4, <2>1
    <2> HIDE DEF z
    <2>4. k \in Nat /\ r \in 0 .. (q - 1) /\ z = q * k + r
      BY <1>1, <2>1, DivMod
    <2> HIDE DEF k, r
    <2> DEFINE y == e * q
               w == k * q
    <2>5. /\ y \in Nat /\ w \in Nat /\ e * m = y + e /\ q * k = w
          /\ c * q = y + w /\ (c + 1) * q = y + w + q /\ c - e = k
      <3>1. \A a, b, d \in Nat : (a + b) * d = a * d + b * d
        OBVIOUS
      <3>2. \A a, d \in Nat : (a + 1) * d = a * d + d
        OBVIOUS
      <3>3. e \in Nat /\ c \in Nat /\ c - e = k
        BY <1>1, <2>4
      <3>4. y \in Nat /\ w \in Nat /\ e * m = y + e /\ q * k = w
        BY <1>1, <1>6, <1>7, <2>4, <3>3
      <3>5. c * q = y + w
        BY <1>1, <2>4, <3>1, <3>3
      <3>6. (c + 1) * q = c * q + q
        BY <1>1, <3>2, <3>3
      <3> QED
        BY <3>3, <3>4, <3>5, <3>6
    <2>6. c \in Nat /\ ~(c < e) /\ ~(c + 1 < e)
      BY <1>1, <2>4
    <2>7. c < f
      <3>1. f - e \in Nat /\ f = e + (f - e) /\ e \in Nat
        BY <1>1
      <3> DEFINE g == f - e
                 h == q * g
      <3>2. f * q = y + h /\ h \in Nat
        <4>1. \A a, b, d \in Nat : (a + b) * d = a * d + d * b
          OBVIOUS
        <4>2. f * q = e * q + q * g
          BY <1>1, <3>1, <4>1
        <4> QED
          BY <1>1, <1>6, <3>1, <4>2
      <3> HIDE DEF h, y, w
      <3>3. w < h
        BY <1>1, <1>4, <2>3, <2>4, <2>5, <3>2
      <3>4. q * k < q * g
        BY <2>5, <3>3 DEF h
      <3>5. k < g
        <4> HIDE DEF g
        <4>1. g \in Nat
          BY <3>1 DEF g
        <4> QED
          BY <1>1, <2>4, <3>4, <4>1, MulCancel
      <3> QED
        BY <1>1, <2>4, <3>5
    <2>8. StartOf(q, e, c) = 1 + (y + w) + e /\ StartOf(q, e, c + 1) = 1 + (y + w + q) + e
      BY <2>5, <2>6 DEF StartOf
    <2>9. (c - e) * q = w
      BY <2>5
    <2> HIDE DEF y, w
    <2>10. /\ 1 + (y + w) + e <= s /\ s < 1 + (y + w + q) + e
           /\ (y + e) + 1 + w = 1 + (y + w) + e
           /\ q = (1 + (y + w + q) + e) - (1 + (y + w) + e)
      BY <1>1, <1>4, <2>3, <2>4, <2>5
    <2>11. chHead(size, f, s) = (y + e) + 1 + w
      BY <2>2, <2>5, <2>9
    <2>12. c \in 0 .. (f - 1)
      BY <2>6, <2>7
    <2> HIDE DEF c
    <2> QED
      BY <1>3, <2>2, <2>8, <2>10, <2>11, <2>12
  <1> QED
    BY <1>8, <1>9

(* The place of a rank in its column.                                      *)
LEMMA ChainPlace ==
    ASSUME NEW size \in Nat, NEW f \in Nat \ {0}, f <= size - 1,
           NEW s \in 1 .. (size - 1)
    PROVE  \E c \in 0 .. (f - 1) :
              /\ chStart(size, f, c) <= s /\ s < chStart(size, f, c + 1)
              /\ chHead(size, f, s) = chStart(size, f, c)
              /\ chLen(size, f, s) = chStart(size, f, c + 1) - chStart(size, f, c)
  <1>1. CASE (size - 1) % f = 0
    BY <1>1, ChainPlaceEven
  <1>2. CASE (size - 1) % f # 0
    BY <1>2, ChainPlaceOdd
  <1> QED
    BY <1>1, <1>2

(* Adding to a remainder.                                                  *)
LEMMA ModAdd ==
    ASSUME NEW n \in Nat \ {0}, NEW a \in Nat, NEW b \in Nat
    PROVE  ((a % n) + b) % n = (a + b) % n
  <1> DEFINE q == a \div n
             r == a % n
             t == r + b
             q2 == t \div n
             r2 == t % n
  <1>1. q \in Nat /\ r \in 0 .. (n - 1) /\ a = n * q + r
    BY DivMod
  <1> HIDE DEF q, r
  <1>2. t \in Nat /\ t = r + b
    BY <1>1
  <1> HIDE DEF t
  <1>3. q2 \in Nat /\ r2 \in 0 .. (n - 1) /\ t = n * q2 + r2
    BY <1>2, DivMod
  <1> HIDE DEF q2, r2
  <1>4. n * (q + q2) = n * q + n * q2 /\ n * q \in Nat /\ n * q2 \in Nat /\ q + q2 \in Nat
    BY <1>1, <1>3
  <1>5. a + b = n * (q + q2) + r2
    <2> DEFINE x == n * q
               y == n * q2
    <2>1. /\ x \in Nat /\ y \in Nat /\ n * (q + q2) = x + y
          /\ a = x + r /\ t = y + r2
      BY <1>1, <1>3, <1>4
    <2> HIDE DEF x, y
    <2>2. a + b = (x + y) + r2
      BY <1>1, <1>2, <1>3, <2>1
    <2> QED
      BY <2>1, <2>2
  <1>6. (n * (q + q2) + r2) % n = r2
    BY <1>3, <1>4, Quotient
  <1>7. t % n = r2
    BY DEF r2
  <1> QED
    BY <1>2, <1>5, <1>6, <1>7 DEF t, r

(* The heads of the columns, as the root computes them one from the other. *)
HeadsEq(g, size, root, f) ==
    g = [i \in 0 .. f - 1 |->
            IF i = 0 THEN (root + 1) % size
            ELSE (g[i - 1] + chMax(size, f) - (IF i > chMark(size, f) THEN 1 ELSE 0))
                     % size]

(* They are where the columns start.                                       *)
LEMMA ChainHeads ==
    ASSUME NEW size \in Nat, NEW f \in Nat \ {0}, f <= size - 1,
           NEW root \in 0 .. (size - 1)
    PROVE  /\ \E g : HeadsEq(g, size, root, f)
           /\ \A g : HeadsEq(g, size, root, f) =>
                \A i \in 0 .. (f - 1) : g[i] = (chStart(size, f, i) + root) % size
  <1> DEFINE S(i) == chStart(size, f, i)
             T(i) == (S(i) + root) % size
             d(i) == IF i > chMark(size, f) THEN 1 ELSE 0
             M == chMax(size, f)
             q == (size - 1) \div f
             e == (size - 1) % f
  <1>1. q \in Nat \ {0} /\ e \in 0 .. (f - 1)
    BY ChainDivides
  <1>2. /\ S(0) = 1
        /\ \A c \in Nat : S(c) \in Nat /\ S(c + 1) = S(c) + q + (IF c < e THEN 1 ELSE 0)
    <2>1. \A c : S(c) = StartOf(q, e, c)
      BY DEF chStart
    <2>2. e \in Nat
      BY <1>1
    <2> HIDE DEF q, e, S
    <2> QED
      BY <1>1, <2>1, <2>2, Columns
  <1>3. /\ M \in Nat \ {0}
        /\ \A i \in 1 .. (f - 1) : /\ d(i) \in 0 .. 1
                                   /\ M - d(i) = q + (IF i - 1 < e THEN 1 ELSE 0)
    <2>1. CASE e = 0
      <3>1. M = q /\ chMark(size, f) = f + 1
        <4>1. q + 0 = q
          BY <1>1
        <4> QED
          BY <2>1, <4>1 DEF chMax, chMark
      <3> HIDE DEF M, q, e
      <3> QED
        BY <1>1, <2>1, <3>1
    <2>2. CASE e # 0
      <3>1. M = q + 1 /\ chMark(size, f) = e
        BY <2>2 DEF chMax, chMark
      <3> HIDE DEF M, q, e
      <3> QED
        BY <1>1, <2>2, <3>1
    <2> QED
      BY <2>1, <2>2
  <1> HIDE DEF M, q, e, d
  <1>4. ASSUME NEW i \in 1 .. (f - 1)
        PROVE  T(i) = (T(i - 1) + M - d(i)) % size
    <2>1. i - 1 \in Nat /\ (i - 1) + 1 = i
      OBVIOUS
    <2> DEFINE b == M - d(i)
               a == S(i - 1) + root
    <2>2. b \in Nat /\ b = q + (IF i - 1 < e THEN 1 ELSE 0)
      BY <1>3
    <2>3. S(i) = S(i - 1) + b /\ S(i - 1) \in Nat
      BY <1>1, <1>2, <2>1, <2>2
    <2>4. a \in Nat /\ S(i) + root = a + b
      BY <2>2, <2>3
    <2>5. size \in Nat \ {0}
      OBVIOUS
    <2>6. a % size \in Nat
      <3> HIDE DEF a
      <3>1. a % size \in 0 .. (size - 1)
        BY <2>4, <2>5, DivMod
      <3> QED
        BY <2>5, <3>1
    <2>7. (a % size) + M - d(i) = (a % size) + b
      BY <1>3, <2>6
    <2>8. T(i - 1) = a % size /\ T(i) = (a + b) % size
      BY <2>4
    <2> HIDE DEF a, b, T, S
    <2>9. ((a % size) + b) % size = (a + b) % size
      BY <2>2, <2>4, <2>5, ModAdd
    <2> QED
      BY <2>7, <2>8, <2>9
  <1>5. T(0) = (root + 1) % size
    <2>1. S(0) + root = root + 1
      BY <1>2
    <2> QED
      BY <2>1
  <1> HIDE DEF S, T
  <1> DEFINE h == [i \in 0 .. f - 1 |-> T(i)]
  <1>6. HeadsEq(h, size, root, f)
    <2>1. ASSUME NEW i \in 0 .. (f - 1)
          PROVE  T(i) = IF i = 0 THEN (root + 1) % size
                        ELSE (h[i - 1] + M - d(i)) % size
      <3>1. CASE i = 0
        BY <1>5, <3>1
      <3>2. CASE i # 0
        <4>1. i \in 1 .. (f - 1) /\ i - 1 \in 0 .. f - 1
          BY <3>2
        <4>2. h[i - 1] = T(i - 1)
          BY <4>1
        <4> HIDE DEF h
        <4> QED
          BY <1>4, <3>2, <4>1, <4>2
      <3> QED
        BY <3>1, <3>2
    <2>2. h = [i \in 0 .. f - 1 |-> IF i = 0 THEN (root + 1) % size
                                    ELSE (h[i - 1] + M - d(i)) % size]
      <3>1. h = [i \in 0 .. f - 1 |-> T(i)]
        OBVIOUS
      <3> HIDE DEF h
      <3> QED
        BY <2>1, <3>1
    <2> HIDE DEF h
    <2> QED
      BY <2>2 DEF HeadsEq, M, d
  <1>7. ASSUME NEW g, HeadsEq(g, size, root, f), NEW i0 \in 0 .. (f - 1)
        PROVE  g[i0] = T(i0)
    <2>0. \A i \in 0 .. f - 1 : g[i] = IF i = 0 THEN (root + 1) % size
                                       ELSE (g[i - 1] + M - d(i)) % size
      BY <1>7 DEF HeadsEq, M, d
    <2> DEFINE Bad == {i \in 0 .. (f - 1) : g[i] # T(i)}
    <2> SUFFICES ASSUME Bad # {}
                 PROVE  FALSE
      OBVIOUS
    <2>1. Bad \subseteq Nat
      OBVIOUS
    <2>2. PICK i \in Bad : \A j \in Bad : i <= j
      <3> HIDE DEF Bad
      <3> QED
        BY <2>1, LeastNatural
    <2>3. i \in 0 .. (f - 1) /\ g[i] # T(i)
      BY <2>2
    <2>4. i # 0
      BY <1>5, <2>0, <2>3
    <2>5. i \in 1 .. (f - 1) /\ i - 1 \in 0 .. (f - 1) /\ ~(i <= i - 1)
      BY <2>3, <2>4
    <2>6. g[i - 1] = T(i - 1)
      BY <2>2, <2>5
    <2> QED
      BY <1>4, <2>0, <2>3, <2>4, <2>5, <2>6
  <1> HIDE DEF h
  <1> QED
    BY <1>6, <1>7 DEF S, T

(* The parent of a rank in the chains, and its children.                   *)
chParent(size, f, s) == IF s = chHead(size, f, s) THEN 0 ELSE s - 1
chNext(size, f, s) ==
    IF s = 0 THEN [i \in 1 .. f |-> chStart(size, f, i - 1)]
    ELSE IF s = chHead(size, f, s) + chLen(size, f, s) - 1 \/ s + 1 >= size THEN <<>>
    ELSE <<s + 1>>

(* The chains fit together.                                                *)
LEMMA ChainFits ==
    ASSUME NEW size \in Nat, NEW f \in Nat \ {0}, f <= size - 1
    PROVE  PlacesFit(size, [s \in 1 .. (size - 1) |-> chParent(size, f, s)],
                     [s \in 0 .. (size - 1) |-> chNext(size, f, s)])
  <1> DEFINE S(c) == chStart(size, f, c)
             H(s) == chHead(size, f, s)
             R == 1 .. (size - 1)
             par == [s \in 1 .. (size - 1) |-> chParent(size, f, s)]
             chi == [s \in 0 .. (size - 1) |-> chNext(size, f, s)]
             In(c, s) == S(c) <= s /\ s < S(c + 1)
  <1>1. /\ S(0) = 1 /\ S(f) = size
        /\ \A c \in Nat : S(c) \in Nat \ {0} /\ S(c) < S(c + 1)
        /\ \A c, d \in Nat : c <= d => S(c) <= S(d)
        /\ \A c, d, s \in Nat : (In(c, s) /\ In(d, s)) => c = d
    <2> DEFINE q == (size - 1) \div f
               e == (size - 1) % f
    <2>1. q \in Nat \ {0} /\ e \in Nat /\ S(f) = size
      <3>1. /\ (size - 1) \div f \in Nat \ {0} /\ (size - 1) % f \in 0 .. (f - 1)
            /\ chStart(size, f, f) = size
        BY ChainDivides
      <3> DEFINE x == (size - 1) % f
      <3> HIDE DEF x
      <3>2. x \in Nat
        BY <3>1 DEF x
      <3> QED
        BY <3>1, <3>2 DEF x
    <2>2. \A c : S(c) = StartOf(q, e, c)
      BY DEF chStart
    <2> HIDE DEF q, e, S
    <2>3. /\ S(0) = 1
          /\ \A c \in Nat : /\ S(c) \in Nat \ {0}
                            /\ S(c + 1) = S(c) + q + (IF c < e THEN 1 ELSE 0)
          /\ \A c, d \in Nat : c <= d => S(c) <= S(d)
      BY <2>1, <2>2, Columns
    <2>4. \A c \in Nat : S(c) < S(c + 1)
      <3> TAKE c \in Nat
      <3>1. S(c) \in Nat /\ S(c + 1) = S(c) + q + (IF c < e THEN 1 ELSE 0)
        BY <2>3
      <3> QED
        BY <2>1, <3>1
    <2>5. \A c, d, s \in Nat : (In(c, s) /\ In(d, s)) => c = d
      BY <2>1, <2>2, OneColumn
    <2> QED
      BY <2>1, <2>3, <2>4, <2>5
  <1>2. ASSUME NEW s \in R
        PROVE  \E c \in 0 .. (f - 1) :
                  In(c, s) /\ H(s) = S(c) /\ chLen(size, f, s) = S(c + 1) - S(c)
    BY ChainPlace
  <1> HIDE DEF S, H
  <1>3. \A s \in R : par[s] = IF s = H(s) THEN 0 ELSE s - 1
    BY DEF chParent, H
  <1>4. chi[0] = [i \in 1 .. f |-> S(i - 1)]
    BY DEF chNext, S
  <1>5. ASSUME NEW s \in R, NEW c \in Nat, In(c, s)
        PROVE  /\ H(s) = S(c) /\ c \in 0 .. (f - 1)
               /\ chi[s] = IF s + 1 < S(c + 1) THEN <<s + 1>> ELSE <<>>
    <2>1. PICK d \in 0 .. (f - 1) :
              In(d, s) /\ H(s) = S(d) /\ chLen(size, f, s) = S(d + 1) - S(d)
      BY <1>2
    <2>2. c = d
      <3>1. c \in Nat /\ d \in Nat /\ s \in Nat
        OBVIOUS
      <3> HIDE DEF In
      <3> QED
        BY <1>1, <1>5, <2>1, <3>1
    <2>3. /\ S(c) \in Nat /\ S(c + 1) \in Nat /\ S(c + 1) <= size
      <3>1. c + 1 \in Nat /\ c + 1 <= f /\ f \in Nat
        BY <2>2
      <3> QED
        BY <1>1, <3>1
    <2>4. chi[s] = IF s = H(s) + chLen(size, f, s) - 1 \/ s + 1 >= size THEN <<>>
                   ELSE <<s + 1>>
      BY DEF chNext, H
    <2>5. H(s) + chLen(size, f, s) - 1 = S(c + 1) - 1
      BY <2>1, <2>2, <2>3
    <2>6. (s = S(c + 1) - 1 \/ s + 1 >= size) <=> ~(s + 1 < S(c + 1))
      BY <1>5, <2>3
    <2> HIDE DEF chi
    <2> QED
      BY <2>1, <2>2, <2>4, <2>5, <2>6
  <1> HIDE DEF par, chi
  <1>6. /\ chi[0] \in Seq(R) /\ Len(chi[0]) = f
        /\ \A i \in 1 .. f : chi[0][i] = S(i - 1)
        /\ \A i, j \in 1 .. f : chi[0][i] = chi[0][j] => i = j
    <2>1. \A i \in 1 .. f : S(i - 1) \in R
      <3> TAKE i \in 1 .. f
      <3>1. i - 1 \in Nat /\ i \in Nat /\ (i - 1) + 1 = i /\ i <= f
        OBVIOUS
      <3>2. S(i - 1) \in Nat \ {0} /\ S(i - 1) < S(i) /\ S(i) <= S(f) /\ S(i) \in Nat
        BY <1>1, <3>1
      <3> QED
        BY <1>1, <3>2
    <2>2. chi[0] \in Seq(R) /\ Len(chi[0]) = f
      <3> HIDE DEF R
      <3> QED
        BY <1>4, <2>1
    <2>3. \A i \in 1 .. f : chi[0][i] = S(i - 1)
      BY <1>4
    <2>4. ASSUME NEW i \in 1 .. f, NEW j \in 1 .. f, S(i - 1) = S(j - 1)
          PROVE  i = j
      <3> DEFINE s == S(i - 1)
      <3>1. i - 1 \in Nat /\ j - 1 \in Nat
        OBVIOUS
      <3>2. s \in Nat /\ In(i - 1, s) /\ In(j - 1, s)
        <4>1. /\ S(i - 1) \in Nat /\ S(j - 1) \in Nat
              /\ S(i - 1) < S((i - 1) + 1) /\ S(j - 1) < S((j - 1) + 1)
          BY <1>1, <3>1
        <4> QED
          BY <2>4, <4>1
      <3> HIDE DEF s, In
      <3>3. i - 1 = j - 1
        BY <1>1, <3>1, <3>2
      <3> QED
        BY <3>3
    <2> QED
      BY <2>2, <2>3, <2>4
  <1>7. ASSUME NEW s \in R
        PROVE  /\ chi[s] \in Seq(R)
               /\ \A i, j \in 1 .. Len(chi[s]) : chi[s][i] = chi[s][j] => i = j
               /\ \A t \in R : (\E i \in 1 .. Len(chi[s]) : chi[s][i] = t)
                                  <=> \E c \in Nat : In(c, s) /\ t = s + 1 /\ t < S(c + 1)
    <2>1. PICK c \in 0 .. (f - 1) : In(c, s)
      BY <1>2
    <2>2. chi[s] = IF s + 1 < S(c + 1) THEN <<s + 1>> ELSE <<>>
      BY <1>5, <2>1
    <2>3. S(c + 1) \in Nat /\ S(c + 1) <= size
      <3>1. c + 1 \in Nat /\ c + 1 <= f /\ f \in Nat
        OBVIOUS
      <3> QED
        BY <1>1, <3>1
    <2>4. \A d \in Nat : In(d, s) => d = c
      <3>1. c \in Nat /\ s \in Nat
        OBVIOUS
      <3> HIDE DEF In
      <3> QED
        BY <1>1, <2>1, <3>1
    <2>5. CASE s + 1 < S(c + 1)
      <3>1. s + 1 \in R
        BY <2>3, <2>5
      <3>2. chi[s] = <<s + 1>>
        BY <2>2, <2>5
      <3> DEFINE u == s + 1
      <3> HIDE DEF u
      <3>3. <<u>> \in Seq(R) /\ Len(<<u>>) = 1 /\ <<u>>[1] = u
        <4>1. u \in R
          BY <3>1 DEF u
        <4> HIDE DEF R
        <4> QED
          BY <4>1
      <3>4. /\ chi[s] \in Seq(R) /\ Len(chi[s]) = 1 /\ chi[s][1] = s + 1
        BY <3>2, <3>3 DEF u
      <3>5. c \in Nat
        OBVIOUS
      <3>6. \A t \in R : (\E i \in 1 .. Len(chi[s]) : chi[s][i] = t) <=> t = s + 1
        BY <3>4
      <3>7. \A t \in R : (\E d \in Nat : In(d, s) /\ t = s + 1 /\ t < S(d + 1)) <=> t = s + 1
        <4> HIDE DEF In, R
        <4> QED
          BY <2>1, <2>5, <3>5
      <3>8. \A i, j \in 1 .. Len(chi[s]) : chi[s][i] = chi[s][j] => i = j
        BY <3>4
      <3> HIDE DEF In, R
      <3> QED
        BY <3>4, <3>6, <3>7, <3>8
    <2>6. CASE ~(s + 1 < S(c + 1))
      <3>1. chi[s] = <<>>
        BY <2>2, <2>6
      <3>2. \A t \in R : ~\E d \in Nat : In(d, s) /\ t = s + 1 /\ t < S(d + 1)
        <4> HIDE DEF In, R
        <4> QED
          BY <2>4, <2>6
      <3>3. <<>> \in Seq(R) /\ Len(<<>>) = 0
        <4> HIDE DEF R
        <4> QED
          OBVIOUS
      <3>4. 1 .. Len(chi[s]) = {}
        BY <3>1, <3>3
      <3> HIDE DEF In
      <3> QED
        BY <3>1, <3>2, <3>3, <3>4
    <2> QED
      BY <2>5, <2>6
  <1>8. ASSUME NEW s \in R
        PROVE  par[s] \in 0 .. (s - 1)
    BY <1>3
  <1>9. ASSUME NEW p \in 0 .. (size - 1), NEW s \in R
        PROVE  (\E i \in 1 .. Len(chi[p]) : chi[p][i] = s) <=> par[s] = p
    <2>1. PICK c \in 0 .. (f - 1) : In(c, s) /\ H(s) = S(c)
      BY <1>2
    <2>2. c \in Nat /\ s \in Nat /\ S(c) \in Nat \ {0} /\ S(0) = 1
      <3>1. c \in Nat /\ s \in Nat
        OBVIOUS
      <3> HIDE DEF In
      <3> QED
        BY <1>1, <3>1
    <2>3. CASE p = 0
      <3>1. (\E i \in 1 .. Len(chi[p]) : chi[p][i] = s) <=> \E i \in 1 .. f : S(i - 1) = s
        BY <1>6, <2>3
      <3>2. ASSUME NEW i \in 1 .. f, S(i - 1) = s
            PROVE  s = H(s)
        <4>1. i - 1 \in Nat
          OBVIOUS
        <4>2. In(i - 1, s)
          <5>1. S(i - 1) < S((i - 1) + 1) /\ S(i - 1) \in Nat
            BY <1>1, <4>1
          <5> QED
            BY <3>2, <5>1
        <4>3. i - 1 = c
          <5> HIDE DEF In
          <5> QED
            BY <1>1, <2>1, <2>2, <4>1, <4>2
        <4> QED
          BY <2>1, <3>2, <4>3
      <3>3. ASSUME s = H(s)
            PROVE  \E i \in 1 .. f : S(i - 1) = s
        <4>1. c + 1 \in 1 .. f /\ (c + 1) - 1 = c
          OBVIOUS
        <4> QED
          BY <2>1, <3>3, <4>1
      <3>4. par[s] = 0 <=> s = H(s)
        <4>1. s = 1 => H(s) = 1
          BY <2>1, <2>2
        <4> QED
          BY <1>3, <2>2, <4>1
      <3> HIDE DEF In, R
      <3> QED
        BY <2>3, <3>1, <3>2, <3>3, <3>4
    <2>4. CASE p # 0
      <3>1. p \in R
        BY <2>4
      <3>2. (\E i \in 1 .. Len(chi[p]) : chi[p][i] = s)
               <=> \E d \in Nat : In(d, p) /\ s = p + 1 /\ s < S(d + 1)
        BY <1>7, <3>1
      <3>3. ASSUME NEW d \in Nat, In(d, p), s = p + 1, s < S(d + 1)
            PROVE  par[s] = p
        <4>1. S(d) \in Nat
          BY <1>1
        <4>2. In(d, s) /\ S(d) <= p
          BY <3>1, <3>3, <4>1
        <4>3. d = c
          <5> HIDE DEF In
          <5> QED
            BY <1>1, <2>1, <2>2, <4>2
        <4>4. s # H(s)
          BY <2>1, <3>1, <3>3, <4>1, <4>2, <4>3
        <4> QED
          BY <1>3, <3>1, <3>3, <4>4
      <3>4. ASSUME par[s] = p
            PROVE  \E d \in Nat : In(d, p) /\ s = p + 1 /\ s < S(d + 1)
        <4>1. s # H(s) /\ p = s - 1
          BY <1>3, <2>4, <3>4
        <4>2. S(c + 1) \in Nat
          BY <1>1, <2>2
        <4>3. In(c, p) /\ s = p + 1 /\ s < S(c + 1)
          BY <2>1, <2>2, <4>1, <4>2
        <4> HIDE DEF In
        <4> QED
          BY <2>2, <4>3
      <3> HIDE DEF In, R
      <3> QED
        BY <3>2, <3>3, <3>4
    <2> QED
      BY <2>3, <2>4
  <1>10. ASSUME NEW s \in 0 .. (size - 1)
         PROVE  /\ chi[s] \in Seq(R)
                /\ \A i, j \in 1 .. Len(chi[s]) : chi[s][i] = chi[s][j] => i = j
    <2>1. CASE s = 0
      BY <1>6, <2>1
    <2>2. CASE s # 0
      <3>1. s \in R
        BY <2>2
      <3> HIDE DEF In
      <3> QED
        BY <1>7, <3>1
    <2> QED
      BY <2>1, <2>2
  <1>11. PlacesFit(size, par, chi)
    BY <1>8, <1>9, <1>10 DEF PlacesFit
  <1> QED
    BY <1>11 DEF par, chi

(* A single chain, which runs through all ranks.                           *)
LEMMA PipelineFits ==
    ASSUME NEW size \in Nat \ {0}
    PROVE  PlacesFit(size, [s \in 1 .. (size - 1) |-> s - 1],
                     [s \in 0 .. (size - 1) |->
                         IF s + 1 >= size THEN <<>> ELSE <<s + 1>>])
  <1> DEFINE R == 1 .. (size - 1)
             par == [s \in 1 .. (size - 1) |-> s - 1]
             chi == [s \in 0 .. (size - 1) |-> IF s + 1 >= size THEN <<>> ELSE <<s + 1>>]
  <1>1. ASSUME NEW s \in 0 .. (size - 1)
        PROVE  /\ chi[s] \in Seq(R)
               /\ \A i, j \in 1 .. Len(chi[s]) : chi[s][i] = chi[s][j] => i = j
               /\ \A t \in R : (\E i \in 1 .. Len(chi[s]) : chi[s][i] = t) <=> t = s + 1
    <2>1. CASE s + 1 >= size
      <3>1. chi[s] = <<>>
        BY <2>1
      <3>2. <<>> \in Seq(R) /\ Len(<<>>) = 0
        <4> HIDE DEF R
        <4> QED
          OBVIOUS
      <3>3. 1 .. Len(chi[s]) = {}
        BY <3>1, <3>2
      <3>4. \A t \in R : t # s + 1
        BY <2>1
      <3> HIDE DEF chi
      <3> QED
        BY <3>1, <3>2, <3>3, <3>4
    <2>2. CASE ~(s + 1 >= size)
      <3> DEFINE u == s + 1
      <3>1. u \in R /\ chi[s] = <<u>>
        BY <2>2
      <3> HIDE DEF u, R, chi
      <3>2. chi[s] \in Seq(R) /\ Len(chi[s]) = 1 /\ chi[s][1] = u
        BY <3>1
      <3>3. /\ \A i, j \in 1 .. Len(chi[s]) : chi[s][i] = chi[s][j] => i = j
            /\ \A t \in R : (\E i \in 1 .. Len(chi[s]) : chi[s][i] = t) <=> t = u
        BY <3>2
      <3> QED
        BY <3>2, <3>3 DEF u
    <2> QED
      BY <2>1, <2>2
  <1>2. ASSUME NEW s \in R
        PROVE  par[s] = s - 1 /\ par[s] \in 0 .. (s - 1)
    OBVIOUS
  <1>3. ASSUME NEW p \in 0 .. (size - 1), NEW s \in R
        PROVE  (\E i \in 1 .. Len(chi[p]) : chi[p][i] = s) <=> par[s] = p
    <2>1. s = p + 1 <=> s - 1 = p
      OBVIOUS
    <2> HIDE DEF par, chi
    <2> QED
      BY <1>1, <1>2, <2>1
  <1>4. PlacesFit(size, par, chi)
    <2> HIDE DEF par, chi
    <2> QED
      BY <1>1, <1>2, <1>3 DEF PlacesFit
  <1> QED
    BY <1>4

(* The fanout that build_chain settles on.                                 *)
chFanout(fanout0, size) ==
    LET bounded == IF fanout0 < 1 THEN 1
                   ELSE IF fanout0 > MAXTREEFANOUT THEN MAXTREEFANOUT ELSE fanout0
    IN  IF size - 1 < bounded THEN size - 1 ELSE bounded

(* What build_chain computes: one rank, one chain, the root of several,    *)
(* and a rank in one of several.                                           *)
LEMMA ChainView ==
    ASSUME NEW size \in Nat \ {0}, NEW root \in 0 .. (size - 1),
           NEW fanout \in Int, NEW r \in 0 .. (size - 1)
    PROVE  LET f    == chFanout(fanout, size)
               s    == Shifted(size, root, r)
               view == build_chain(fanout, size, root, r)
           IN  /\ size = 1 => view.next = <<>>
               /\ (size # 1 /\ f = 1) =>
                     /\ r # root => view.prev = (s - 1 + root) % size
                     /\ view.next = IF s + 1 >= size THEN <<>>
                                    ELSE <<(s + 1 + root) % size>>
               /\ (size # 1 /\ f # 1) =>
                     /\ f \in Nat \ {0} /\ f <= size - 1
                     /\ r # root => view.prev = (chParent(size, f, s) + root) % size
                     /\ s = 0 => view.next = [i \in 1 .. f |->
                                                 (chStart(size, f, i - 1) + root) % size]
                     /\ s # 0 => view.next =
                           IF s = chHead(size, f, s) + chLen(size, f, s) - 1
                                 \/ s + 1 >= size
                           THEN <<>> ELSE <<(s + 1 + root) % size>>
  <1> DEFINE f    == chFanout(fanout, size)
             s    == Shifted(size, root, r)
             view == build_chain(fanout, size, root, r)
             heads == CHOOSE g : HeadsEq(g, size, root, f)
             pipeline == [prev |-> IF s = 0 THEN -1 ELSE (s - 1 + root) % size,
                          next |-> IF s + 1 >= size THEN <<>>
                                   ELSE <<(s + 1 + root) % size>>]
             top == [prev |-> -1, next |-> [i \in 1 .. f |-> heads[i - 1]]]
             inner == [prev |-> (chParent(size, f, s) + root) % size,
                       next |-> IF s = chHead(size, f, s) + chLen(size, f, s) - 1
                                      \/ s + 1 >= size THEN <<>>
                                ELSE <<(s + 1 + root) % size>>]
  <1>1. view = IF size = 1 THEN [prev |-> -1, next |-> <<>>]
               ELSE IF f = 1 THEN pipeline
               ELSE IF s = 0 THEN top
               ELSE inner
    BY DEF build_chain, chFanout, HeadsEq, chParent, chHead, chLen, chLong, chColumn,
           chMax, chMark
  <1>2. s = 0 <=> r = root
    BY Shifting
  <1>3. size # 1 => f \in Nat \ {0} /\ f <= size - 1
    BY DEF chFanout, MAXTREEFANOUT
  <1>4. ASSUME size # 1
        PROVE  \A i \in 0 .. (f - 1) : heads[i] = (chStart(size, f, i) + root) % size
    <2>1. f \in Nat \ {0} /\ f <= size - 1 /\ size \in Nat
      BY <1>3, <1>4
    <2> HIDE DEF f
    <2>2. HeadsEq(heads, size, root, f)
      BY <2>1, ChainHeads
    <2> HIDE DEF heads
    <2> QED
      BY <2>1, <2>2, ChainHeads
  <1> HIDE DEF f, s, view, heads
  <1>5. size = 1 => view.next = <<>>
    BY <1>1
  <1>6. (size # 1 /\ f = 1) =>
           /\ r # root => view.prev = (s - 1 + root) % size
           /\ view.next = IF s + 1 >= size THEN <<>> ELSE <<(s + 1 + root) % size>>
    BY <1>1, <1>2
  <1>7. ASSUME size # 1, f # 1, s = 0
        PROVE  view.next = [i \in 1 .. f |-> (chStart(size, f, i - 1) + root) % size]
    <2>1. view.next = [i \in 1 .. f |-> heads[i - 1]]
      BY <1>1, <1>7
    <2>2. \A i \in 1 .. f : heads[i - 1] = (chStart(size, f, i - 1) + root) % size
      <3> TAKE i \in 1 .. f
      <3>1. i - 1 \in 0 .. (f - 1)
        BY <1>3, <1>7
      <3> QED
        BY <1>4, <1>7, <3>1
    <2> QED
      BY <2>1, <2>2
  <1>8. (size # 1 /\ f # 1 /\ s # 0) =>
           /\ view.prev = (chParent(size, f, s) + root) % size
           /\ view.next = IF s = chHead(size, f, s) + chLen(size, f, s) - 1
                                \/ s + 1 >= size
                          THEN <<>> ELSE <<(s + 1 + root) % size>>
    BY <1>1
  <1> QED
    BY <1>2, <1>3, <1>5, <1>6, <1>7, <1>8 DEF f, s, view

(* One child, or none, shifted.                                            *)
LEMMA ShiftOne ==
    ASSUME NEW x, NEW root, NEW size
    PROVE  /\ <<(x + root) % size>>
                 = [i \in 1 .. Len(<<x>>) |-> (<<x>>[i] + root) % size]
           /\ <<>> = [i \in 1 .. Len(<<>>) |-> (<<>>[i] + root) % size]
  <1>1. <<(x + root) % size>> = [i \in 1 .. 1 |-> (<<x>>[i] + root) % size]
    OBVIOUS
  <1>2. Len(<<x>>) = 1 /\ Len(<<>>) = 0
    OBVIOUS
  <1>3. <<>> = [i \in 1 .. 0 |-> (<<>>[i] + root) % size]
    OBVIOUS
  <1> QED
    BY <1>1, <1>2, <1>3

(* build_chain spans the communicator, whatever its size, the root and the *)
(* fanout asked for.                                                       *)
THEOREM ChainSpans ==
    ASSUME NEW size \in Nat \ {0}, NEW root \in 0 .. (size - 1), NEW fanout \in Int
    PROVE  Spans("chain", fanout, size, root)
  <1> DEFINE f == chFanout(fanout, size)
             sh(r) == Shifted(size, root, r)
             V(r) == build_chain(fanout, size, root, r)
             view == [r \in 0 .. (size - 1) |-> Tree("chain", fanout, size, root, r)]
             pipePar == [s \in 1 .. (size - 1) |-> s - 1]
             pipeChi == [s \in 0 .. (size - 1) |->
                            IF s + 1 >= size THEN <<>> ELSE <<s + 1>>]
             par == [s \in 1 .. (size - 1) |-> chParent(size, f, s)]
             chi == [s \in 0 .. (size - 1) |-> chNext(size, f, s)]
             Row(c) == [i \in 1 .. Len(c) |-> (c[i] + root) % size]
  <1> SUFFICES OneTree(view, size, root)
    BY DEF Spans, RootOf
  <1>1. \A r \in 0 .. (size - 1) :
           /\ view[r] = V(r) /\ sh(r) \in 0 .. (size - 1)
           /\ sh(r) = 0 <=> r = root
           /\ r # root => sh(r) \in 1 .. (size - 1)
    <2> TAKE r \in 0 .. (size - 1)
    <2>1. sh(r) \in 0 .. (size - 1) /\ (sh(r) = 0 <=> r = root)
      BY Shifting
    <2>2. view[r] = V(r)
      BY DEF Tree
    <2> HIDE DEF sh, V, view
    <2> QED
      BY <2>1, <2>2
  <1>2. ASSUME NEW r \in 0 .. (size - 1)
        PROVE  /\ size = 1 => V(r).next = <<>>
               /\ (size # 1 /\ f = 1) =>
                     /\ r # root => V(r).prev = (sh(r) - 1 + root) % size
                     /\ V(r).next = IF sh(r) + 1 >= size THEN <<>>
                                    ELSE <<(sh(r) + 1 + root) % size>>
               /\ (size # 1 /\ f # 1) =>
                     /\ f \in Nat \ {0} /\ f <= size - 1
                     /\ r # root => V(r).prev = (chParent(size, f, sh(r)) + root) % size
                     /\ sh(r) = 0 => V(r).next = [i \in 1 .. f |->
                                                 (chStart(size, f, i - 1) + root) % size]
                     /\ sh(r) # 0 => V(r).next =
                           IF sh(r) = chHead(size, f, sh(r)) + chLen(size, f, sh(r)) - 1
                                 \/ sh(r) + 1 >= size
                           THEN <<>> ELSE <<(sh(r) + 1 + root) % size>>
    BY ChainView
  <1>3. \A x : <<(x + root) % size>> = Row(<<x>>) /\ <<>> = Row(<<>>)
    BY ShiftOne
  <1> HIDE DEF sh, V, view, f, Row
  <1>4. CASE size = 1 \/ f = 1
    <2>1. Follows(view, size, root, pipePar, pipeChi)
      <3> SUFFICES ASSUME NEW r \in 0 .. (size - 1)
                   PROVE  /\ view[r].next = Row(pipeChi[sh(r)])
                          /\ r # root => view[r].prev = (pipePar[sh(r)] + root) % size
        BY DEF Follows, Row, sh
      <3>1. pipeChi[sh(r)] = IF sh(r) + 1 >= size THEN <<>> ELSE <<sh(r) + 1>>
        BY <1>1
      <3>2. r # root => pipePar[sh(r)] = sh(r) - 1
        BY <1>1
      <3>3. size = 1 => sh(r) + 1 >= size /\ r = root
        BY <1>1
      <3> HIDE DEF pipePar, pipeChi
      <3> QED
        BY <1>1, <1>2, <1>3, <1>4, <3>1, <3>2, <3>3
    <2>2. PlacesFit(size, pipePar, pipeChi)
      BY PipelineFits
    <2> HIDE DEF pipePar, pipeChi
    <2> QED
      BY <2>1, <2>2, ShiftedTree
  <1>5. CASE size # 1 /\ f # 1
    <2>1. f \in Nat \ {0} /\ f <= size - 1 /\ size \in Nat
      BY <1>2, <1>5
    <2>2. Follows(view, size, root, par, chi)
      <3> SUFFICES ASSUME NEW r \in 0 .. (size - 1)
                   PROVE  /\ view[r].next = Row(chi[sh(r)])
                          /\ r # root => view[r].prev = (par[sh(r)] + root) % size
        BY DEF Follows, Row, sh
      <3> DEFINE s == sh(r)
      <3>1. chi[s] = chNext(size, f, s) /\ (r # root => par[s] = chParent(size, f, s))
        BY <1>1
      <3> HIDE DEF s, par, chi
      <3>2. CASE s = 0
        <4> DEFINE c == [i \in 1 .. f |-> chStart(size, f, i - 1)]
        <4>1. chi[s] = c
          BY <3>1, <3>2 DEF chNext
        <4>2. Row(c) = [i \in 1 .. f |-> (chStart(size, f, i - 1) + root) % size]
          <5> DEFINE g(i) == chStart(size, f, i - 1)
          <5>1. c = [i \in 1 .. f |-> g(i)]
            OBVIOUS
          <5> HIDE DEF g, c
          <5>2. Len(c) = f /\ \A i \in 1 .. f : c[i] = g(i)
            <6> DEFINE W == {g(i) : i \in 1 .. f}
            <6>1. \A i \in 1 .. f : g(i) \in W
              OBVIOUS
            <6> HIDE DEF W
            <6>2. c \in Seq(W) /\ Len(c) = f
              BY <2>1, <5>1, <6>1
            <6> QED
              BY <5>1, <6>2
          <5>3. Row(c) = [i \in 1 .. f |-> (g(i) + root) % size]
            BY <5>2 DEF Row
          <5> QED
            BY <5>3 DEF g
        <4>3. V(r).next = [i \in 1 .. f |-> (chStart(size, f, i - 1) + root) % size]
          BY <1>2, <1>5, <3>2 DEF s
        <4>4. r = root
          BY <1>1, <3>2 DEF s
        <4> HIDE DEF c
        <4> QED
          BY <1>1, <4>1, <4>2, <4>3, <4>4 DEF s
      <3>3. CASE s # 0
        <4>1. /\ V(r).next = IF s = chHead(size, f, s) + chLen(size, f, s) - 1
                                   \/ s + 1 >= size
                             THEN <<>> ELSE <<(s + 1 + root) % size>>
              /\ r # root => V(r).prev = (chParent(size, f, s) + root) % size
          BY <1>2, <1>5, <3>3 DEF s
        <4>2. chi[s] = IF s = chHead(size, f, s) + chLen(size, f, s) - 1
                             \/ s + 1 >= size
                       THEN <<>> ELSE <<s + 1>>
          BY <3>1, <3>3 DEF chNext
        <4>3. V(r).next = Row(chi[s])
          BY <1>3, <4>1, <4>2
        <4> QED
          BY <1>1, <3>1, <4>1, <4>3 DEF s
      <3> QED
        BY <3>2, <3>3
    <2>3. PlacesFit(size, par, chi)
      BY <2>1, ChainFits
    <2> HIDE DEF par, chi
    <2> QED
      BY <2>2, <2>3, ShiftedTree
  <1> QED
    BY <1>4, <1>5

-----------------------------------------------------------------------------
(* The in-order binary tree.                                               *)

(* Definition by recursion on smaller arguments: a step that looks only at *)
(* those ...                                                               *)
LooksBelow(N, Y, step) ==
    /\ Y # {} /\ step \in [0 .. N -> [[0 .. N -> Y] -> Y]]
    /\ \A n \in 0 .. N : \A g, h \in [0 .. N -> Y] :
          (\A k \in 0 .. (n - 1) : g[k] = h[k]) => step[n][g] = step[n][h]

(* ... has a fixed point.                                                  *)
LEMMA StrongRecursion ==
    ASSUME NEW N \in Nat, NEW Y, NEW step, LooksBelow(N, Y, step)
    PROVE  \E w \in [0 .. N -> Y] : \A n \in 0 .. N : w[n] = step[n][w]
  <1> DEFINE D == 0 .. N
             Up(m, w) == \A n \in D : n < m => w[n] = step[n][w]
             Bad == {m \in Nat : ~\E w \in [D -> Y] : Up(m, w)}
  <1> PICK y0 \in Y : TRUE
    BY DEF LooksBelow
  <1> step \in [D -> [[D -> Y] -> Y]]
    BY DEF LooksBelow
  <1>0. \A n \in D : \A g, h \in [D -> Y] :
           (\A k \in 0 .. (n - 1) : g[k] = h[k]) => step[n][g] = step[n][h]
    BY DEF LooksBelow
  <1>1. Bad = {}
    <2> SUFFICES ASSUME Bad # {}
                 PROVE  FALSE
      OBVIOUS
    <2>0. Bad \subseteq Nat
      OBVIOUS
    <2>1. PICK m \in Bad : \A j \in Bad : m <= j
      <3> HIDE DEF Bad
      <3> QED
        BY <2>0, LeastNatural
    <2>2. m \in Nat /\ ~\E w \in [D -> Y] : Up(m, w)
      BY <2>1
    <2>3. m # 0
      <3> SUFFICES ASSUME m = 0
                   PROVE  FALSE
        OBVIOUS
      <3>1. [n \in D |-> y0] \in [D -> Y]
        OBVIOUS
      <3>2. Up(0, [n \in D |-> y0])
        OBVIOUS
      <3> HIDE DEF Up
      <3> QED
        BY <2>2, <3>1, <3>2
    <2>4. m - 1 \in Nat /\ ~(m <= m - 1)
      BY <2>2, <2>3
    <2>5. PICK w \in [D -> Y] : Up(m - 1, w)
      BY <2>1, <2>4
    <2> DEFINE v == [n \in D |-> IF n = m - 1 THEN step[n][w] ELSE w[n]]
    <2>6. v \in [D -> Y]
      OBVIOUS
    <2>7. ASSUME NEW n \in D, n < m
          PROVE  v[n] = step[n][v]
      <3>1. \A k \in 0 .. (n - 1) : v[k] = w[k]
        <4> TAKE k \in 0 .. (n - 1)
        <4>1. k \in D /\ k # m - 1
          BY <2>2, <2>7
        <4> QED
          BY <4>1
      <3>2. step[n][v] = step[n][w]
        <4> HIDE DEF v
        <4> QED
          BY <1>0, <2>6, <3>1
      <3>3. CASE n = m - 1
        BY <3>2, <3>3
      <3>4. CASE n # m - 1
        <4>1. n < m - 1
          BY <2>2, <2>7, <3>4
        <4>2. w[n] = step[n][w] /\ v[n] = w[n]
          BY <2>5, <3>4, <4>1
        <4> QED
          BY <3>2, <4>2
      <3> QED
        BY <3>3, <3>4
    <2>8. Up(m, v)
      <3> HIDE DEF v
      <3> QED
        BY <2>7
    <2> HIDE DEF Up, v
    <2> QED
      BY <2>2, <2>6, <2>8
  <1>2. N + 1 \in Nat /\ \A n \in D : n < N + 1
    OBVIOUS
  <1>3. \E w \in [D -> Y] : Up(N + 1, w)
    <2> HIDE DEF Up
    <2> QED
      BY <1>1, <1>2
  <1> QED
    BY <1>2, <1>3

(* A part of the tree, on the ranks from a to b, rooted at b: the children *)
(* of each rank, and the parents of those below the root.                  *)
SubTree(a, b, nx, pr) ==
    /\ \A r \in a .. b :
          /\ nx[r] \in Seq(a .. (b - 1))
          /\ \A i, j \in 1 .. Len(nx[r]) : nx[r][i] = nx[r][j] => i = j
    /\ \A r \in a .. (b - 1) : pr[r] \in (r + 1) .. b
    /\ \A p \in a .. b, r \in a .. (b - 1) :
          (\E i \in 1 .. Len(nx[p]) : nx[p][i] = r) <=> pr[r] = p

(* A root above two of them ...                                            *)
Joined(a, b, c, nx1, pr1, nx2, pr2, nx, pr) ==
    /\ nx[b] = <<b - 1, c - 1>>
    /\ \A r \in a .. (b - 1) : nx[r] = IF r < c THEN nx1[r] ELSE nx2[r]
    /\ \A r \in a .. (b - 1) : pr[r] = IF r = b - 1 \/ r = c - 1 THEN b
                                       ELSE IF r < c THEN pr1[r] ELSE pr2[r]

(* ... makes a larger one.                                                 *)
LEMMA JoinTrees ==
    ASSUME NEW a \in Nat, NEW b \in Nat, NEW c \in Nat, a < c, c < b,
           NEW nx1, NEW pr1, SubTree(a, c - 1, nx1, pr1),
           NEW nx2, NEW pr2, SubTree(c, b - 1, nx2, pr2),
           NEW nx, NEW pr, Joined(a, b, c, nx1, pr1, nx2, pr2, nx, pr)
    PROVE  SubTree(a, b, nx, pr)
  <1> USE DEF Joined
  <1> DEFINE R == a .. (b - 1)
             Kids(p, r) == \E i \in 1 .. Len(nx[p]) : nx[p][i] = r
             Typed(r) == /\ nx[r] \in Seq(R)
                         /\ \A i, j \in 1 .. Len(nx[r]) : nx[r][i] = nx[r][j] => i = j
  <1>1. Typed(b) /\ \A r \in R : Kids(b, r) <=> r = b - 1 \/ r = c - 1
    <2> DEFINE x == b - 1
               y == c - 1
    <2>1. x \in R /\ y \in R /\ x # y /\ nx[b] = <<x, y>>
      OBVIOUS
    <2> HIDE DEF x, y, R
    <2>2. nx[b] \in Seq(R) /\ Len(nx[b]) = 2 /\ nx[b][1] = x /\ nx[b][2] = y
      BY <2>1
    <2>3. 1 .. 2 = {1, 2}
      OBVIOUS
    <2>4. \A i, j \in 1 .. Len(nx[b]) : nx[b][i] = nx[b][j] => i = j
      BY <2>1, <2>2, <2>3
    <2>5. \A r \in R : Kids(b, r) <=> r = x \/ r = y
      BY <2>2, <2>3
    <2> QED
      BY <2>2, <2>4, <2>5 DEF x, y
  <1>2. ASSUME NEW p \in a .. (c - 1)
        PROVE  /\ Typed(p)
               /\ \A r \in R : Kids(p, r) <=> (r < c - 1 /\ pr1[r] = p)
    <2> DEFINE Q == a .. ((c - 1) - 1)
    <2>1. nx[p] = nx1[p]
      OBVIOUS
    <2>2. /\ nx1[p] \in Seq(Q)
          /\ \A i, j \in 1 .. Len(nx1[p]) : nx1[p][i] = nx1[p][j] => i = j
          /\ \A r \in Q : (\E i \in 1 .. Len(nx1[p]) : nx1[p][i] = r) <=> pr1[r] = p
      BY DEF SubTree
    <2>3. Q \subseteq R /\ \A r \in R : r < c - 1 => r \in Q
      OBVIOUS
    <2>4. \A r \in Q : r < c - 1
      OBVIOUS
    <2> HIDE DEF Q, R
    <2>5. nx1[p] \in Seq(R) /\ \A i \in 1 .. Len(nx1[p]) : nx1[p][i] \in Q
      BY <2>2, <2>3
    <2>6. Typed(p)
      BY <2>1, <2>2, <2>5
    <2>7. ASSUME NEW r \in R
          PROVE  Kids(p, r) <=> (r < c - 1 /\ pr1[r] = p)
      <3>1. CASE r \in Q
        BY <2>1, <2>2, <2>4, <3>1
      <3>2. CASE r \notin Q
        <4>1. ~Kids(p, r)
          BY <2>1, <2>5, <3>2
        <4> QED
          BY <2>3, <3>2, <4>1
      <3> QED
        BY <3>1, <3>2
    <2> HIDE DEF Typed, Kids
    <2> QED
      BY <2>6, <2>7
  <1>3. ASSUME NEW p \in c .. (b - 1)
        PROVE  /\ Typed(p)
               /\ \A r \in R : Kids(p, r) <=> (c <= r /\ r < b - 1 /\ pr2[r] = p)
    <2> DEFINE Q == c .. ((b - 1) - 1)
    <2>1. nx[p] = nx2[p]
      OBVIOUS
    <2>2. /\ nx2[p] \in Seq(Q)
          /\ \A i, j \in 1 .. Len(nx2[p]) : nx2[p][i] = nx2[p][j] => i = j
          /\ \A r \in Q : (\E i \in 1 .. Len(nx2[p]) : nx2[p][i] = r) <=> pr2[r] = p
      BY DEF SubTree
    <2>3. Q \subseteq R /\ \A r \in R : (c <= r /\ r < b - 1) => r \in Q
      OBVIOUS
    <2>4. \A r \in Q : c <= r /\ r < b - 1
      OBVIOUS
    <2> HIDE DEF Q, R
    <2>5. nx2[p] \in Seq(R) /\ \A i \in 1 .. Len(nx2[p]) : nx2[p][i] \in Q
      BY <2>2, <2>3
    <2>6. Typed(p)
      BY <2>1, <2>2, <2>5
    <2>7. ASSUME NEW r \in R
          PROVE  Kids(p, r) <=> (c <= r /\ r < b - 1 /\ pr2[r] = p)
      <3>1. CASE r \in Q
        BY <2>1, <2>2, <2>4, <3>1
      <3>2. CASE r \notin Q
        <4>1. ~Kids(p, r)
          BY <2>1, <2>5, <3>2
        <4> QED
          BY <2>3, <3>2, <4>1
      <3> QED
        BY <3>1, <3>2
    <2> HIDE DEF Typed, Kids
    <2> QED
      BY <2>6, <2>7
  <1>4. /\ \A r \in a .. ((c - 1) - 1) : pr1[r] \in (r + 1) .. (c - 1)
        /\ \A r \in c .. ((b - 1) - 1) : pr2[r] \in (r + 1) .. (b - 1)
    BY DEF SubTree
  <1>5. ASSUME NEW r \in R
        PROVE  /\ pr[r] \in (r + 1) .. b
               /\ pr[r] = b <=> (r = b - 1 \/ r = c - 1)
               /\ \A p \in a .. (c - 1) : pr[r] = p <=> (r < c - 1 /\ pr1[r] = p)
               /\ \A p \in c .. (b - 1) : pr[r] = p <=> (c <= r /\ r < b - 1 /\ pr2[r] = p)
    <2>1. CASE r = b - 1 \/ r = c - 1
      BY <2>1
    <2>2. CASE ~(r = b - 1 \/ r = c - 1) /\ r < c
      <3>1. pr[r] = pr1[r] /\ pr1[r] \in (r + 1) .. (c - 1)
        BY <1>4, <2>2
      <3> QED
        BY <2>2, <3>1
    <2>3. CASE ~(r = b - 1 \/ r = c - 1) /\ ~(r < c)
      <3>1. pr[r] = pr2[r] /\ pr2[r] \in (r + 1) .. (b - 1)
        BY <1>4, <2>3
      <3> QED
        BY <2>3, <3>1
    <2> QED
      BY <2>1, <2>2, <2>3
  <1>6. \A p \in a .. b : p = b \/ p \in a .. (c - 1) \/ p \in c .. (b - 1)
    OBVIOUS
  <1>7. \A p \in a .. b : Typed(p)
    <2> HIDE DEF Typed, Kids
    <2> QED
      BY <1>1, <1>2, <1>3, <1>6
  <1>8. \A p \in a .. b, r \in R : Kids(p, r) <=> pr[r] = p
    <2> HIDE DEF Typed, Kids, Joined
    <2> TAKE p \in a .. b, r \in R
    <2>1. CASE p = b
      BY <1>1, <1>5, <2>1
    <2>2. CASE p \in a .. (c - 1)
      BY <1>2, <1>5, <2>2
    <2>3. CASE p \in c .. (b - 1)
      BY <1>3, <1>5, <2>3
    <2> QED
      BY <1>6, <2>1, <2>2, <2>3
  <1> QED
    BY <1>5, <1>7, <1>8 DEF SubTree

(* One step of the walk, and the equation of its recursion.                *)
walkBody(walk, n, me, delta, prev) ==
    LET rightsize == n \div 2
        parent    == n - 1
        lchild    == IF n > 1 THEN parent - 1 ELSE -1
        rchild    == IF lchild > 0 THEN rightsize - 1 ELSE -1
        prev1     == IF me \in {lchild, rchild} THEN parent + delta ELSE prev
    IN  IF me = parent \/ n = 0
        THEN [prev |-> prev,
              next |-> IF lchild < 0 THEN <<>>
                       ELSE IF rchild < 0 THEN <<lchild + delta>>
                       ELSE <<lchild + delta, rchild + delta>>]
        ELSE IF me > rchild
        THEN walk[n - rightsize - 1][me - rightsize][delta + rightsize][prev1]
        ELSE walk[rightsize][me][delta][prev1]

WalkEq(w, size) ==
    w = [n \in 0 .. size |-> [me \in Int |-> [delta \in Int |-> [prev \in Int |->
            walkBody(w, n, me, delta, prev)]]]]

(* A step ends the walk ...                                                *)
WalkEnds(n, me, delta, prev) ==
    \E res \in [prev : Int, next : Seq(Int)] :
        \A w : walkBody(w, n, me, delta, prev) = res

(* ... or goes on with a smaller part of the tree.                         *)
WalkGoesOn(n, me, delta, prev) ==
    \E m \in 0 .. (n - 1), me1 \in Int, delta1 \in Int, prev1 \in Int :
        \A w : walkBody(w, n, me, delta, prev) = w[m][me1][delta1][prev1]

(* There is nothing else that a step of the walk does.                     *)
LEMMA WalkStep ==
    ASSUME NEW n \in Nat, NEW me \in Int, NEW delta \in Int, NEW prev \in Int
    PROVE  WalkEnds(n, me, delta, prev) \/ WalkGoesOn(n, me, delta, prev)
  <1> DEFINE k == n \div 2
             parent == n - 1
             lchild == IF n > 1 THEN parent - 1 ELSE -1
             rchild == IF lchild > 0 THEN k - 1 ELSE -1
             prev1 == IF me \in {lchild, rchild} THEN parent + delta ELSE prev
             nxt == IF lchild < 0 THEN <<>>
                    ELSE IF rchild < 0 THEN <<lchild + delta>>
                    ELSE <<lchild + delta, rchild + delta>>
             res == [prev |-> prev, next |-> nxt]
  <1>1. ASSUME NEW w
        PROVE  walkBody(w, n, me, delta, prev)
                 = IF me = parent \/ n = 0 THEN res
                   ELSE IF me > rchild THEN w[n - k - 1][me - k][delta + k][prev1]
                   ELSE w[k][me][delta][prev1]
    BY DEF walkBody
  <1>2. k \in Nat /\ (n # 0 => k \in 0 .. (n - 1) /\ n - k - 1 \in 0 .. (n - 1))
    OBVIOUS
  <1> HIDE DEF k
  <1>3. parent \in Int /\ lchild \in Int /\ rchild \in Int
    BY <1>2
  <1> HIDE DEF parent, lchild, rchild
  <1>4. prev1 \in Int
    BY <1>3
  <1>5. nxt \in Seq(Int)
    <2>1. lchild + delta \in Int /\ rchild + delta \in Int
      BY <1>3
    <2> DEFINE x == lchild + delta
               y == rchild + delta
               I == Int
    <2> HIDE DEF I, x, y
    <2>2. <<>> \in Seq(I) /\ <<x>> \in Seq(I) /\ <<x, y>> \in Seq(I)
      <3>1. x \in I /\ y \in I
        BY <2>1 DEF x, y, I
      <3> QED
        BY <3>1
    <2> QED
      BY <2>2 DEF x, y, I
  <1> HIDE DEF nxt, prev1
  <1>6. res \in [prev : Int, next : Seq(Int)]
    BY <1>5
  <1> HIDE DEF res
  <1>7. CASE me = parent \/ n = 0
    BY <1>1, <1>6, <1>7 DEF WalkEnds
  <1>8. CASE ~(me = parent \/ n = 0) /\ me > rchild
    <2>1. \A w : walkBody(w, n, me, delta, prev) = w[n - k - 1][me - k][delta + k][prev1]
      BY <1>1, <1>8
    <2>2. /\ n - k - 1 \in 0 .. (n - 1) /\ me - k \in Int /\ delta + k \in Int
      BY <1>2, <1>8
    <2> QED
      BY <1>4, <2>1, <2>2 DEF WalkGoesOn
  <1>9. CASE ~(me = parent \/ n = 0) /\ ~(me > rchild)
    <2>1. \A w : walkBody(w, n, me, delta, prev) = w[k][me][delta][prev1]
      BY <1>1, <1>9
    <2>2. k \in 0 .. (n - 1)
      BY <1>2, <1>9
    <2> QED
      BY <1>4, <2>1, <2>2 DEF WalkGoesOn
  <1> QED
    BY <1>7, <1>8, <1>9

(* So the walk is defined.                                                 *)
LEMMA WalkExists ==
    ASSUME NEW size \in Nat
    PROVE  \E w : WalkEq(w, size)
  <1> DEFINE D == 0 .. size
             Z == [prev : Int, next : Seq(Int)]
             Y == [Int -> [Int -> [Int -> Z]]]
             B(g, n) == [me \in Int |-> [delta \in Int |-> [prev \in Int |->
                            walkBody(g, n, me, delta, prev)]]]
             step == [n \in D |-> [g \in [D -> Y] |-> B(g, n)]]
  <1>1. ASSUME NEW n \in D, NEW g \in [D -> Y], NEW me \in Int, NEW delta \in Int,
               NEW prev \in Int
        PROVE  walkBody(g, n, me, delta, prev) \in Z
    <2>0. n \in Nat
      OBVIOUS
    <2>1. CASE WalkEnds(n, me, delta, prev)
      <3>1. PICK res \in Z : \A w : walkBody(w, n, me, delta, prev) = res
        BY ONLY <2>1 DEF WalkEnds
      <3> HIDE DEF Z
      <3> QED
        BY ONLY <3>1
    <2>2. CASE WalkGoesOn(n, me, delta, prev)
      <3>1. PICK m \in 0 .. (n - 1), me1 \in Int, delta1 \in Int, prev1 \in Int :
                  \A w : walkBody(w, n, me, delta, prev) = w[m][me1][delta1][prev1]
        BY ONLY <2>2 DEF WalkGoesOn
      <3>2. m \in D
        OBVIOUS
      <3> HIDE DEF Z, D
      <3>3. g[m] \in Y
        BY <3>2
      <3>4. g[m][me1][delta1][prev1] \in Z
        BY <3>3
      <3> QED
        BY <3>1, <3>4
    <2> HIDE DEF Z, Y, D
    <2> QED
      BY <2>0, <2>1, <2>2, WalkStep
  <1>2. ASSUME NEW n \in D, NEW g \in [D -> Y], NEW h \in [D -> Y],
               \A k \in 0 .. (n - 1) : g[k] = h[k],
               NEW me \in Int, NEW delta \in Int, NEW prev \in Int
        PROVE  walkBody(g, n, me, delta, prev) = walkBody(h, n, me, delta, prev)
    <2>0. n \in Nat
      OBVIOUS
    <2>1. CASE WalkEnds(n, me, delta, prev)
      <3>1. PICK res \in Z : \A w : walkBody(w, n, me, delta, prev) = res
        BY ONLY <2>1 DEF WalkEnds
      <3> HIDE DEF Z
      <3> QED
        BY ONLY <3>1
    <2>2. CASE WalkGoesOn(n, me, delta, prev)
      <3>1. PICK m \in 0 .. (n - 1), me1 \in Int, delta1 \in Int, prev1 \in Int :
                  \A w : walkBody(w, n, me, delta, prev) = w[m][me1][delta1][prev1]
        BY ONLY <2>2 DEF WalkGoesOn
      <3>2. g[m] = h[m]
        BY <1>2
      <3> QED
        BY <3>1, <3>2
    <2> HIDE DEF Z, Y, D
    <2> QED
      BY <2>0, <2>1, <2>2, WalkStep
  <1> HIDE DEF Z
  <1>3. \A n \in D : \A g \in [D -> Y] : B(g, n) \in Y
    BY <1>1
  <1>4. \A n \in D : \A g, h \in [D -> Y] :
           (\A k \in 0 .. (n - 1) : g[k] = h[k]) => B(g, n) = B(h, n)
    <2> SUFFICES ASSUME NEW n \in D, NEW g \in [D -> Y], NEW h \in [D -> Y],
                        \A k \in 0 .. (n - 1) : g[k] = h[k]
                 PROVE  B(g, n) = B(h, n)
      OBVIOUS
    <2> HIDE DEF D, Y
    <2>1. \A me, delta, prev \in Int :
             walkBody(g, n, me, delta, prev) = walkBody(h, n, me, delta, prev)
      BY <1>2
    <2> QED
      BY ONLY <2>1
  <1>5. [prev |-> 0, next |-> <<>>] \in Z
    BY DEF Z
  <1> DEFINE y0 == [me \in Int |-> [delta \in Int |-> [prev \in Int |->
                        [prev |-> 0, next |-> <<>>]]]]
  <1>6. y0 \in Y
    BY <1>5
  <1> HIDE DEF Y, B, y0
  <1>7. step \in [D -> [[D -> Y] -> Y]]
    BY <1>3
  <1>8. \A n \in D : \A g \in [D -> Y] : step[n][g] = B(g, n)
    OBVIOUS
  <1> HIDE DEF step
  <1>9. LooksBelow(size, Y, step)
    <2>1. \A n \in D : \A g, h \in [D -> Y] :
             (\A k \in 0 .. (n - 1) : g[k] = h[k]) => step[n][g] = step[n][h]
      <3> HIDE DEF D
      <3> QED
        BY <1>4, <1>8
    <2>2. Y # {}
      BY <1>6
    <2> QED
      BY <1>7, <2>1, <2>2 DEF LooksBelow
  <1>10. PICK w \in [D -> Y] : \A n \in D : w[n] = step[n][w]
    BY <1>9, StrongRecursion
  <1>11. \A n \in D : w[n] = B(w, n)
    BY <1>8, <1>10
  <1>12. w = [n \in D |-> B(w, n)]
    <2> HIDE DEF D
    <2> QED
      BY <1>11
  <1> QED
    BY <1>12 DEF WalkEq, B

(* The walk finds a tree: nx and pr are what it finds for the n ranks from *)
(* a on, whatever the parent of their root.                                *)
Walks(w, n, a, nx, pr) ==
    \A r \in a .. (a + n - 1), prev \in Int :
        w[n][r - a][a][prev] = [prev |-> IF r = a + n - 1 THEN prev ELSE pr[r],
                                next |-> nx[r]]

(* The walk takes a step wherever it is.                                   *)
LEMMA WalkAt ==
    ASSUME NEW size, NEW w, WalkEq(w, size), NEW m \in 0 .. size,
           NEW me \in Int, NEW delta \in Int, NEW prev \in Int
    PROVE  w[m][me][delta][prev] = walkBody(w, m, me, delta, prev)
  <1> DEFINE B(n, x, y, z) == walkBody(w, n, x, y, z)
  <1>1. w = [n \in 0 .. size |-> [x \in Int |-> [y \in Int |-> [z \in Int |->
                B(n, x, y, z)]]]]
    BY DEF WalkEq
  <1> HIDE DEF B
  <1>2. w[m] = [x \in Int |-> [y \in Int |-> [z \in Int |-> B(m, x, y, z)]]]
    BY <1>1
  <1>3. w[m][me] = [y \in Int |-> [z \in Int |-> B(m, me, y, z)]]
    BY <1>2
  <1>4. w[m][me][delta] = [z \in Int |-> B(m, me, delta, z)]
    BY <1>3
  <1>5. w[m][me][delta][prev] = B(m, me, delta, prev)
    BY <1>4
  <1> QED
    BY <1>5 DEF B

(* The walk at a rank: at the root of its part, in a part of two, in the   *)
(* left part and in the right part.                                        *)
WalkAtRank(w, n, a, r, prev) ==
    LET k == n \div 2
        b == a + n - 1
    IN  /\ r = b => w[n][r - a][a][prev]
              = [prev |-> prev,
                 next |-> IF n = 1 THEN <<>> ELSE IF n = 2 THEN <<b - 1>>
                          ELSE <<b - 1, a + k - 1>>]
        /\ (n = 2 /\ r # b) => w[n][r - a][a][prev] = [prev |-> b, next |-> <<>>]
        /\ (n > 2 /\ r # b /\ r >= a + k) =>
              w[n][r - a][a][prev]
                 = w[n - k - 1][r - (a + k)][a + k][IF r = b - 1 THEN b ELSE prev]
        /\ (n > 2 /\ r < a + k) =>
              w[n][r - a][a][prev] = w[k][r - a][a][IF r = a + k - 1 THEN b ELSE prev]

(* See WalkAtRank.                                                         *)
LEMMA WalkCases ==
    ASSUME NEW size \in Nat, NEW w, WalkEq(w, size), NEW n \in 1 .. size,
           NEW a \in Nat, NEW r \in a .. (a + n - 1), NEW prev \in Int
    PROVE  WalkAtRank(w, n, a, r, prev)
  <1> DEFINE k == n \div 2
             b == a + n - 1
             me == r - a
  <1>2. n \in Nat /\ n >= 1 /\ me \in 0 .. (n - 1) /\ (r = b <=> me = n - 1)
    OBVIOUS
  <1>3. w[n][me][a][prev] = walkBody(w, n, me, a, prev)
    <2>1. n \in 0 .. size /\ me \in Int /\ a \in Int
      BY <1>2
    <2> HIDE DEF me
    <2> QED
      BY <2>1, WalkAt
  <1>4. k \in Nat /\ (n > 2 => k >= 1 /\ k < n - 1) /\ (n = 2 => k = 1)
    OBVIOUS
  <1>5. ASSUME r = b
        PROVE  w[n][me][a][prev]
                 = [prev |-> prev,
                    next |-> IF n = 1 THEN <<>> ELSE IF n = 2 THEN <<b - 1>>
                             ELSE <<b - 1, a + k - 1>>]
    <2>1. me = n - 1
      BY <1>2, <1>5
    <2>2. /\ n - 1 - 1 + a = b - 1 /\ k - 1 + a = a + k - 1
          /\ n # 0 /\ (n = 1 \/ n = 2 \/ n > 2)
      BY <1>2, <1>4
    <2> HIDE DEF k, b, me
    <2>3. CASE n = 1
      BY <1>3, <2>1, <2>3 DEF walkBody
    <2>4. CASE n = 2
      BY <1>3, <2>1, <2>2, <2>4 DEF walkBody
    <2>5. CASE n > 2
      <3>1. n > 1 /\ n - 1 - 1 > 0 /\ ~(n - 1 - 1 < 0) /\ ~(k - 1 < 0) /\ n # 1 /\ n # 2
        BY <1>4, <2>5
      <3>2. walkBody(w, n, me, a, prev)
              = [prev |-> prev, next |-> <<n - 1 - 1 + a, k - 1 + a>>]
        BY <2>1, <3>1 DEF walkBody, k
      <3> QED
        BY <1>3, <2>2, <3>1, <3>2
    <2> QED
      BY <2>2, <2>3, <2>4, <2>5
  <1>6. ASSUME n = 2, r # b
        PROVE  w[n][me][a][prev] = [prev |-> b, next |-> <<>>]
    <2>1. me = 0 /\ b = n - 1 + a /\ n - 1 # 0
      BY <1>2, <1>6
    <2>2. w[n][me][a][prev] = w[0][-1][a + 1][b]
      <3>1. walkBody(w, 2, 0, a, prev) = w[0][-1][a + 1][1 + a]
        BY DEF walkBody
      <3>2. 1 + a = b
        BY <1>6
      <3> QED
        BY <1>3, <1>6, <2>1, <3>1, <3>2
    <2>3. w[0][-1][a + 1][b] = walkBody(w, 0, -1, a + 1, b)
      <3> DEFINE m == 0
                 x == -1
                 y == a + 1
      <3>1. m \in 0 .. size /\ x \in Int /\ y \in Int /\ b \in Int
        OBVIOUS
      <3> HIDE DEF m, x, y, b
      <3>2. w[m][x][y][b] = walkBody(w, m, x, y, b)
        BY <3>1, WalkAt
      <3> QED
        BY <3>2 DEF m, x, y
    <2>4. walkBody(w, 0, -1, a + 1, b) = [prev |-> b, next |-> <<>>]
      BY DEF walkBody
    <2> QED
      BY <2>2, <2>3, <2>4
  <1>7. ASSUME n > 2, r # b, r >= a + k
        PROVE  w[n][me][a][prev]
                 = w[n - k - 1][r - (a + k)][a + k][IF r = b - 1 THEN b ELSE prev]
    <2>1. /\ n > 1 /\ n - 1 - 1 > 0 /\ ~(me = n - 1 \/ n = 0) /\ me > k - 1
          /\ me - k = r - (a + k) /\ n - 1 + a = b
          /\ (me = n - 1 - 1 \/ me = k - 1) <=> r = b - 1
      BY <1>2, <1>4, <1>7
    <2>2. walkBody(w, n, me, a, prev)
            = w[n - k - 1][me - k][a + k]
                  [IF me = n - 1 - 1 \/ me = k - 1 THEN n - 1 + a ELSE prev]
      <3> HIDE DEF me, b
      <3> QED
        BY <2>1 DEF walkBody
    <2> HIDE DEF k, b, me
    <2> QED
      BY <1>3, <2>1, <2>2
  <1>8. ASSUME n > 2, r < a + k
        PROVE  w[n][me][a][prev] = w[k][me][a][IF r = a + k - 1 THEN b ELSE prev]
    <2>1. /\ n > 1 /\ n - 1 - 1 > 0 /\ ~(me = n - 1 \/ n = 0) /\ ~(me > k - 1)
          /\ n - 1 + a = b
          /\ (me = n - 1 - 1 \/ me = k - 1) <=> r = a + k - 1
      BY <1>2, <1>4, <1>8
    <2>2. walkBody(w, n, me, a, prev)
            = w[k][me][a][IF me = n - 1 - 1 \/ me = k - 1 THEN n - 1 + a ELSE prev]
      <3> HIDE DEF me, b
      <3> QED
        BY <2>1 DEF walkBody
    <2> HIDE DEF k, b, me
    <2> QED
      BY <1>3, <2>1, <2>2
  <1> HIDE DEF k
  <1> QED
    BY <1>5, <1>6, <1>7, <1>8 DEF k, WalkAtRank

(* A part of one rank, and of two.                                         *)
LEMMA SmallTrees ==
    ASSUME NEW a \in Nat, NEW nx, NEW pr
    PROVE  /\ nx[a] = <<>> => SubTree(a, a, nx, pr)
           /\ (nx[a] = <<>> /\ nx[a + 1] = <<a>> /\ pr[a] = a + 1)
                 => SubTree(a, a + 1, nx, pr)
  <1>1. ASSUME nx[a] = <<>>
        PROVE  SubTree(a, a, nx, pr)
    <2>1. a .. a = {a} /\ a .. (a - 1) = {}
      OBVIOUS
    <2>2. <<>> \in Seq(a .. (a - 1)) /\ Len(<<>>) = 0 /\ 1 .. 0 = {}
      OBVIOUS
    <2> QED
      BY <1>1, <2>1, <2>2 DEF SubTree
  <1>2. ASSUME nx[a] = <<>>, nx[a + 1] = <<a>>, pr[a] = a + 1
        PROVE  SubTree(a, a + 1, nx, pr)
    <2> DEFINE b == a + 1
               R == a .. (b - 1)
    <2>1. a .. b = {a, b} /\ R = {a} /\ a # b /\ b \in (a + 1) .. b
      OBVIOUS
    <2>2. <<>> \in Seq(R) /\ Len(<<>>) = 0 /\ 1 .. 0 = {}
      OBVIOUS
    <2>3. <<a>> \in Seq(R) /\ Len(<<a>>) = 1 /\ <<a>>[1] = a
      <3>1. a \in R
        OBVIOUS
      <3> HIDE DEF R
      <3> QED
        BY <3>1
    <2>4. 1 .. 1 = {1}
      OBVIOUS
    <2>5. nx[b] = <<a>> /\ pr[a] = b
      BY <1>2
    <2> HIDE DEF R, b
    <2>6. ASSUME NEW p \in a .. b
          PROVE  /\ nx[p] \in Seq(R)
                 /\ \A i, j \in 1 .. Len(nx[p]) : nx[p][i] = nx[p][j] => i = j
                 /\ \A r \in R : (\E i \in 1 .. Len(nx[p]) : nx[p][i] = r) <=> pr[r] = p
      <3>1. CASE p = a
        <4>1. nx[p] = <<>> /\ pr[a] # p
          BY <1>2, <2>1, <2>5, <3>1
        <4>2. nx[p] \in Seq(R) /\ 1 .. Len(nx[p]) = {}
          BY <2>2, <4>1
        <4> QED
          BY <2>1, <4>1, <4>2
      <3>2. CASE p = b
        <4>1. nx[p] \in Seq(R) /\ 1 .. Len(nx[p]) = {1} /\ nx[p][1] = a /\ pr[a] = p
          BY <2>3, <2>4, <2>5, <3>2
        <4> QED
          BY <2>1, <4>1
      <3> QED
        BY <2>1, <3>1, <3>2
    <2>7. \A r \in R : pr[r] \in (r + 1) .. b
      BY <2>1, <2>5
    <2>8. SubTree(a, b, nx, pr)
      BY <2>6, <2>7 DEF SubTree, R
    <2> QED
      BY <2>8 DEF b
  <1> QED
    BY <1>1, <1>2

(* The walk finds a tree in every part.                                    *)
LEMMA WalkFindsTree ==
    ASSUME NEW size \in Nat, NEW w, WalkEq(w, size)
    PROVE  \A n \in 1 .. size : \A a \in Nat : \E nx, pr :
              SubTree(a, a + n - 1, nx, pr) /\ Walks(w, n, a, nx, pr)
  <1> DEFINE Found(n, a) == \E nx, pr :
                                SubTree(a, a + n - 1, nx, pr) /\ Walks(w, n, a, nx, pr)
             Bad == {n \in 1 .. size : ~\A a \in Nat : Found(n, a)}
  <1> SUFFICES ASSUME Bad # {}
               PROVE  FALSE
    OBVIOUS
  <1>0. Bad \subseteq Nat
    OBVIOUS
  <1>1. PICK n \in Bad : \A j \in Bad : n <= j
    <2> HIDE DEF Bad
    <2> QED
      BY <1>0, LeastNatural
  <1>2. n \in 1 .. size
    BY <1>1
  <1>3. PICK a \in Nat : ~Found(n, a)
    BY <1>1
  <1>4. \A m \in 1 .. (n - 1) : \A a1 \in Nat : Found(m, a1)
    <2> TAKE m \in 1 .. (n - 1)
    <2>1. m \in 1 .. size /\ ~(n <= m)
      BY <1>2
    <2> HIDE DEF Found
    <2> QED
      BY <1>1, <2>1
  <1> DEFINE k == n \div 2
             b == a + n - 1
             c == a + k
  <1>5. /\ b \in Nat /\ k \in Nat /\ c \in Nat
        /\ n > 2 => a < c /\ c < b /\ k \in 1 .. (n - 1) /\ n - k - 1 \in 1 .. (n - 1)
    BY <1>2
  <1>6. \A r \in a .. b, prev \in Int :
           /\ r = b => w[n][r - a][a][prev]
                 = [prev |-> prev,
                    next |-> IF n = 1 THEN <<>> ELSE IF n = 2 THEN <<b - 1>>
                             ELSE <<b - 1, c - 1>>]
           /\ (n = 2 /\ r # b) => w[n][r - a][a][prev] = [prev |-> b, next |-> <<>>]
           /\ (n > 2 /\ r # b /\ r >= c) =>
                 w[n][r - a][a][prev]
                    = w[n - k - 1][r - c][c][IF r = b - 1 THEN b ELSE prev]
           /\ (n > 2 /\ r < c) =>
                 w[n][r - a][a][prev]
                    = w[k][r - a][a][IF r = c - 1 THEN b ELSE prev]
    <2>1. \A r \in a .. (a + n - 1), prev \in Int : WalkAtRank(w, n, a, r, prev)
      <3> HIDE DEF k, b, c
      <3> QED
        BY <1>2, WalkCases
    <2> QED
      BY <2>1 DEF WalkAtRank
  <1> HIDE DEF Found, k
  <1>7. CASE n = 1
    <2> DEFINE nx == [r \in a .. b |-> <<>>]
               pr == [r \in a .. b |-> b]
    <2>1. b = a /\ nx[a] = <<>>
      BY <1>7
    <2>2. SubTree(a, b, nx, pr)
      <3> HIDE DEF nx, pr, b
      <3>1. SubTree(a, a, nx, pr)
        BY <2>1, SmallTrees
      <3> QED
        BY <2>1, <3>1
    <2>3. Walks(w, n, a, nx, pr)
      <3> SUFFICES ASSUME NEW r \in a .. b, NEW prev \in Int
                   PROVE  w[n][r - a][a][prev]
                            = [prev |-> IF r = b THEN prev ELSE pr[r], next |-> nx[r]]
        BY DEF Walks
      <3>1. r = b
        BY <2>1
      <3> HIDE DEF b
      <3> QED
        BY <1>6, <1>7, <3>1
    <2> HIDE DEF nx, pr
    <2> QED
      BY <1>3, <2>2, <2>3 DEF Found
  <1>8. CASE n = 2
    <2> DEFINE nx == [r \in a .. b |-> IF r = b THEN <<b - 1>> ELSE <<>>]
               pr == [r \in a .. b |-> b]
    <2>1. b = a + 1 /\ b - 1 = a /\ a # b
      BY <1>8
    <2>2. nx[a] = <<>> /\ nx[b] = <<a>> /\ pr[a] = b
      BY <2>1
    <2>3. SubTree(a, b, nx, pr)
      <3> HIDE DEF nx, pr, b
      <3>1. SubTree(a, a + 1, nx, pr)
        BY <2>1, <2>2, SmallTrees
      <3> QED
        BY <2>1, <3>1
    <2>4. Walks(w, n, a, nx, pr)
      <3> SUFFICES ASSUME NEW r \in a .. b, NEW prev \in Int
                   PROVE  w[n][r - a][a][prev]
                            = [prev |-> IF r = b THEN prev ELSE pr[r], next |-> nx[r]]
        BY DEF Walks
      <3> HIDE DEF b
      <3>1. CASE r = b
        BY <1>6, <1>8, <3>1
      <3>2. CASE r # b
        BY <1>6, <1>8, <3>2
      <3> QED
        BY <3>1, <3>2
    <2> HIDE DEF nx, pr
    <2> QED
      BY <1>3, <2>3, <2>4 DEF Found
  <1>9. CASE n > 2
    <2>1. a < c /\ c < b /\ k \in 1 .. (n - 1) /\ n - k - 1 \in 1 .. (n - 1)
      BY <1>5, <1>9
    <2>2. a + k - 1 = c - 1 /\ c + (n - k - 1) - 1 = b - 1
      BY <1>2, <2>1
    <2>3. PICK nx1, pr1 : SubTree(a, c - 1, nx1, pr1) /\ Walks(w, k, a, nx1, pr1)
      <3>1. Found(k, a)
        BY <1>4, <2>1
      <3> QED
        BY <2>2, <3>1 DEF Found
    <2>4. PICK nx2, pr2 : /\ SubTree(c, b - 1, nx2, pr2)
                          /\ Walks(w, n - k - 1, c, nx2, pr2)
      <3>1. Found(n - k - 1, c)
        BY <1>4, <1>5, <2>1
      <3> QED
        BY <2>2, <3>1 DEF Found
    <2> DEFINE nx == [r \in a .. b |-> IF r = b THEN <<b - 1, c - 1>>
                                       ELSE IF r < c THEN nx1[r] ELSE nx2[r]]
               pr == [r \in a .. b |-> IF r = b - 1 \/ r = c - 1 THEN b
                                       ELSE IF r < c THEN pr1[r] ELSE pr2[r]]
    <2>5. /\ nx[b] = <<b - 1, c - 1>>
          /\ \A r \in a .. (b - 1) : nx[r] = IF r < c THEN nx1[r] ELSE nx2[r]
          /\ \A r \in a .. (b - 1) : pr[r] = IF r = b - 1 \/ r = c - 1 THEN b
                                             ELSE IF r < c THEN pr1[r] ELSE pr2[r]
      <3>1. b \in a .. b /\ \A r \in a .. (b - 1) : r \in a .. b /\ r # b
        BY <1>5, <2>1
      <3> HIDE DEF b, c
      <3> QED
        BY <3>1
    <2>6. SubTree(a, b, nx, pr)
      <3> HIDE DEF nx, pr, b, c
      <3>1. Joined(a, b, c, nx1, pr1, nx2, pr2, nx, pr)
        BY <2>5 DEF Joined
      <3> QED
        BY <1>5, <2>1, <2>3, <2>4, <3>1, JoinTrees
    <2>7. \A r \in a .. (c - 1), prev \in Int :
             w[k][r - a][a][prev] = [prev |-> IF r = c - 1 THEN prev ELSE pr1[r],
                                     next |-> nx1[r]]
      <3> HIDE DEF b, c
      <3> QED
        BY <2>2, <2>3 DEF Walks
    <2>8. \A r \in c .. (b - 1), prev \in Int :
             w[n - k - 1][r - c][c][prev]
                 = [prev |-> IF r = b - 1 THEN prev ELSE pr2[r], next |-> nx2[r]]
      <3> HIDE DEF b, c
      <3> QED
        BY <2>2, <2>4 DEF Walks
    <2>9. Walks(w, n, a, nx, pr)
      <3> SUFFICES ASSUME NEW r \in a .. b, NEW prev \in Int
                   PROVE  w[n][r - a][a][prev]
                            = [prev |-> IF r = b THEN prev ELSE pr[r], next |-> nx[r]]
        BY DEF Walks
      <3>0. b \in Int /\ n # 1 /\ n # 2
        BY <1>5, <1>9
      <3> HIDE DEF b, c
      <3>1. CASE r = b
        <4>1. w[n][r - a][a][prev] = [prev |-> prev, next |-> <<b - 1, c - 1>>]
          BY <1>6, <3>0, <3>1
        <4>2. nx[r] = <<b - 1, c - 1>>
          BY <2>5, <3>1
        <4> HIDE DEF nx, pr
        <4> QED
          BY <3>1, <4>1, <4>2
      <3>2. CASE r # b /\ r >= c
        <4>1. r \in c .. (b - 1) /\ ~(r < c) /\ r # c - 1
          BY <1>5, <3>2
        <4> DEFINE p1 == IF r = b - 1 THEN b ELSE prev
        <4>2. p1 \in Int
          BY <3>0
        <4>3. w[n][r - a][a][prev] = w[n - k - 1][r - c][c][p1]
          BY <1>6, <1>9, <3>2
        <4>4. nx[r] = nx2[r] /\ pr[r] = IF r = b - 1 THEN b ELSE pr2[r]
          <5>1. r \in a .. (b - 1)
            BY <1>5, <2>1, <3>2
          <5> HIDE DEF nx, pr
          <5> QED
            BY <2>5, <4>1, <5>1
        <4> HIDE DEF nx, pr, p1
        <4>5. w[n][r - a][a][prev]
                = [prev |-> IF r = b - 1 THEN p1 ELSE pr2[r], next |-> nx2[r]]
          BY <2>8, <4>1, <4>2, <4>3
        <4> QED
          BY <3>2, <4>4, <4>5 DEF p1
      <3>3. CASE r < c
        <4>1. r \in a .. (c - 1) /\ r # b /\ r # b - 1
          BY <1>5, <2>1, <3>3
        <4> DEFINE p1 == IF r = c - 1 THEN b ELSE prev
        <4>2. p1 \in Int
          BY <3>0
        <4>3. w[n][r - a][a][prev] = w[k][r - a][a][p1]
          BY <1>6, <1>9, <3>3
        <4>4. nx[r] = nx1[r] /\ pr[r] = IF r = c - 1 THEN b ELSE pr1[r]
          <5>1. r \in a .. (b - 1)
            BY <1>5, <2>1, <3>3
          <5> HIDE DEF nx, pr
          <5> QED
            BY <2>5, <3>3, <4>1, <5>1
        <4> HIDE DEF nx, pr, p1
        <4>5. w[n][r - a][a][prev]
                = [prev |-> IF r = c - 1 THEN p1 ELSE pr1[r], next |-> nx1[r]]
          BY <2>7, <4>1, <4>2, <4>3
        <4> QED
          BY <4>1, <4>4, <4>5 DEF p1
      <3>4. r < c \/ r >= c
        BY <1>5
      <3> QED
        BY <3>1, <3>2, <3>3, <3>4
    <2> HIDE DEF nx, pr
    <2> QED
      BY <1>3, <2>6, <2>9 DEF Found
  <1> QED
    BY <1>2, <1>7, <1>8, <1>9

(* build_in_order_bintree spans the communicator, whatever its size.       *)
THEOREM InOrderBintreeSpans ==
    ASSUME NEW size \in Nat \ {0}, NEW fanout, NEW root
    PROVE  Spans("in_order_bintree", fanout, size, root)
  <1> DEFINE w == CHOOSE g : WalkEq(g, size)
             top == size - 1
             view == [r \in 0 .. (size - 1) |->
                         Tree("in_order_bintree", fanout, size, root, r)]
             far == [r \in 0 .. (size - 1) |-> top - r]
  <1>1. WalkEq(w, size)
    <2>1. \E g : WalkEq(g, size)
      BY WalkExists
    <2> QED
      BY <2>1
  <1>2. \A r \in 0 .. (size - 1) : view[r] = w[size][r][0][-1]
    BY DEF Tree, build_in_order_bintree, WalkEq, walkBody
  <1> HIDE DEF w
  <1>3. PICK nx, pr : SubTree(0, top, nx, pr) /\ Walks(w, size, 0, nx, pr)
    <2> DEFINE z == 0
               n == size
    <2>1. z \in Nat /\ n \in 1 .. size /\ size \in Nat /\ z + n - 1 = top
      OBVIOUS
    <2> HIDE DEF z, n, top
    <2>2. \E nx, pr : SubTree(z, z + n - 1, nx, pr) /\ Walks(w, n, z, nx, pr)
      BY <1>1, <2>1, WalkFindsTree
    <2> QED
      BY <2>1, <2>2 DEF z, n
  <1>4. \A r \in 0 .. (size - 1) :
           /\ view[r].next = nx[r]
           /\ r # top => view[r].prev = pr[r]
    <2> TAKE r \in 0 .. (size - 1)
    <2>1. r \in 0 .. (0 + size - 1) /\ -1 \in Int /\ r - 0 = r /\ 0 + size - 1 = top
      OBVIOUS
    <2>2. w[size][r - 0][0][-1]
            = [prev |-> IF r = 0 + size - 1 THEN -1 ELSE pr[r], next |-> nx[r]]
      BY <1>3, <2>1 DEF Walks
    <2> HIDE DEF view, top
    <2> QED
      BY <1>2, <2>1, <2>2
  <1> HIDE DEF view
  <1>5. top \in 0 .. (size - 1) /\ (0 .. (size - 1)) \ {top} = 0 .. (top - 1)
    OBVIOUS
  <1>6. far \in [0 .. (size - 1) -> 0 .. size]
    OBVIOUS
  <1>7. ASSUME NEW p \in 0 .. (size - 1)
        PROVE  /\ view[p].next \in Seq((0 .. (size - 1)) \ {top})
               /\ \A i, j \in 1 .. Len(view[p].next) :
                     view[p].next[i] = view[p].next[j] => i = j
    <2>1. /\ nx[p] \in Seq(0 .. (top - 1))
          /\ \A i, j \in 1 .. Len(nx[p]) : nx[p][i] = nx[p][j] => i = j
      BY <1>3 DEF SubTree
    <2>2. view[p].next = nx[p]
      BY <1>4
    <2> HIDE DEF top
    <2> QED
      BY <1>5, <2>1, <2>2
  <1>8. ASSUME NEW r \in (0 .. (size - 1)) \ {top}
        PROVE  /\ view[r].prev \in 0 .. (size - 1)
               /\ far[view[r].prev] < far[r]
    <2>1. view[r].prev = pr[r] /\ pr[r] \in (r + 1) .. top
      <3>1. r \in 0 .. (top - 1)
        OBVIOUS
      <3>2. pr[r] \in (r + 1) .. top
        BY <1>3, <3>1 DEF SubTree
      <3> QED
        BY <1>4, <3>2
    <2> QED
      BY <2>1
  <1>9. ASSUME NEW p \in 0 .. (size - 1), NEW r \in (0 .. (size - 1)) \ {top}
        PROVE  (\E i \in 1 .. Len(view[p].next) : view[p].next[i] = r)
                   <=> view[r].prev = p
    <2>1. r \in 0 .. (top - 1) /\ p \in 0 .. top
      OBVIOUS
    <2>2. (\E i \in 1 .. Len(nx[p]) : nx[p][i] = r) <=> pr[r] = p
      BY <1>3, <2>1 DEF SubTree
    <2>3. view[p].next = nx[p] /\ view[r].prev = pr[r]
      BY <1>4
    <2> QED
      BY <2>2, <2>3
  <1>10. OneTree(view, size, top)
    <2> HIDE DEF far, top
    <2> QED
      BY <1>5, <1>6, <1>7, <1>8, <1>9, ParentsMakeTree
  <1> QED
    BY <1>10 DEF Spans, RootOf, view

-----------------------------------------------------------------------------
(* Sequences.                                                              *)

(* What FlattenSeq computes, given a function that satisfies the equation  *)
(* of its recursion.                                                       *)
LEMMA FlattenIs ==
    ASSUME NEW seqs, Len(seqs) \in Nat \ {0}, NEW F,
           F = [i \in 1 .. Len(seqs) |->
                   IF i = 1 THEN seqs[i] ELSE F[i - 1] \o seqs[i]]
    PROVE  FlattenSeq(seqs) = F[Len(seqs)]
  <1> DEFINE n == Len(seqs)
             Step(g) == [i \in 1 .. n |->
                            IF i = 1 THEN seqs[i] ELSE g[i - 1] \o seqs[i]]
             f == CHOOSE g : g = Step(g)
  <1>1. f = Step(f)
    <2>1. F = Step(F)
      OBVIOUS
    <2> HIDE DEF Step
    <2> QED
      BY <2>1
  <1>2. FlattenSeq(seqs) = f[n]
    BY DEF FlattenSeq
  <1> HIDE DEF f
  <1> DEFINE X == {i \in 1 .. n : f[i] # F[i]}
  <1>3. X = {}
    <2> SUFFICES ASSUME X # {}
                 PROVE  FALSE
      OBVIOUS
    <2>0. X \subseteq Nat
      OBVIOUS
    <2>1. PICK i \in X : \A j \in X : i <= j
      <3> HIDE DEF X
      <3> QED
        BY <2>0, LeastNatural
    <2>2. i \in 1 .. n /\ f[i] # F[i]
      BY <2>1
    <2>3. CASE i = 1
      BY <1>1, <2>2, <2>3
    <2>4. CASE i # 1
      <3>1. i - 1 \in 1 .. n /\ ~(i <= i - 1)
        BY <2>2, <2>4
      <3>2. f[i - 1] = F[i - 1]
        BY <2>1, <3>1
      <3>3. f[i] = f[i - 1] \o seqs[i]
        BY <1>1, <2>2, <2>4
      <3>4. F[i] = F[i - 1] \o seqs[i]
        BY <2>2, <2>4
      <3> QED
        BY <2>2, <3>2, <3>3, <3>4
    <2> QED
      BY <2>3, <2>4
  <1>4. n \in 1 .. n
    OBVIOUS
  <1> QED
    BY <1>2, <1>3, <1>4

(* Flattening sequences over T gives one.                                  *)
LEMMA FlattenType ==
    ASSUME NEW T, NEW n \in Nat, NEW seqs \in [1 .. n -> Seq(T)]
    PROVE  FlattenSeq(seqs) \in Seq(T)
  <1> DEFINE X == Seq(T)
  <1>0. Len(seqs) = n
    OBVIOUS
  <1>1. CASE n = 0
    <2>1. FlattenSeq(seqs) = seqs
      BY <1>0, <1>1 DEF FlattenSeq
    <2>2. seqs \in Seq(T)
      BY <1>1
    <2> QED
      BY <2>1, <2>2
  <1>2. CASE n # 0
    <2> DEFINE step == [k \in Nat |-> [x \in X |->
                           IF k < n THEN x \o seqs[k + 1] ELSE x]]
    <2>1. step \in [Nat -> [X -> X]]
      <3> SUFFICES ASSUME NEW k \in Nat, NEW x \in X
                   PROVE  (IF k < n THEN x \o seqs[k + 1] ELSE x) \in X
        OBVIOUS
      <3>1. CASE k < n
        <4>1. k + 1 \in 1 .. n
          BY <3>1
        <4>2. seqs[k + 1] \in Seq(T)
          BY <4>1
        <4> QED
          BY <3>1, <4>2
      <3> QED
        BY <3>1
    <2>2. seqs[1] \in X /\ n - 1 \in Nat
      BY <1>2
    <2> DEFINE m == n - 1
               x0 == seqs[1]
    <2>3. x0 \in X /\ m \in Nat /\ step \in [Nat -> [X -> X]]
      BY <2>1, <2>2
    <2>4. PICK f \in [0 .. m -> X] :
             f[0] = x0 /\ \A k \in 1 .. m : f[k] = step[k][f[k - 1]]
      <3> HIDE DEF X, step, m, x0
      <3>1. \E f : IsIteration(f, X, x0, step, m)
        BY ONLY <2>3, IterationFound
      <3> QED
        BY ONLY <3>1 DEF IsIteration
    <2> DEFINE F == [i \in 1 .. n |-> f[i - 1]]
    <2>5. ASSUME NEW i \in 1 .. n
          PROVE  F[i] = IF i = 1 THEN seqs[i] ELSE F[i - 1] \o seqs[i]
      <3>1. CASE i = 1
        BY <2>4, <3>1
      <3>2. CASE i # 1
        <4>1. i - 1 \in 1 .. (n - 1) /\ (i - 1) + 1 = i /\ i - 1 < n /\ i - 1 \in Nat
              /\ (i - 1) - 1 \in 0 .. (n - 1) /\ i - 1 \in 1 .. n
          BY <3>2
        <4>2. f[i - 1] = step[i - 1][f[(i - 1) - 1]]
          BY <2>4, <4>1
        <4>3. f[(i - 1) - 1] \in X
          BY <4>1
        <4>4. step[i - 1][f[(i - 1) - 1]] = f[(i - 1) - 1] \o seqs[i]
          BY <4>1, <4>3
        <4>5. F[i - 1] = f[(i - 1) - 1] /\ F[i] = f[i - 1]
          BY <4>1
        <4> QED
          BY <3>2, <4>2, <4>4, <4>5
      <3> QED
        BY <3>1, <3>2
    <2>6. F = [i \in 1 .. n |-> IF i = 1 THEN seqs[i] ELSE F[i - 1] \o seqs[i]]
      <3>1. F = [i \in 1 .. n |-> F[i]]
        OBVIOUS
      <3> HIDE DEF F
      <3> QED
        BY <2>5, <3>1
    <2>7. F[n] \in X
      BY <1>2
    <2> HIDE DEF F, X
    <2>8. FlattenSeq(seqs) = F[n]
      <3>1. Len(seqs) \in Nat \ {0}
        BY <1>0, <1>2
      <3> QED
        BY <1>0, <2>6, <3>1, FlattenIs
    <2> QED
      BY <2>7, <2>8 DEF X
  <1> QED
    BY <1>1, <1>2
=============================================================================
