------------------------- MODULE RangeAssignProofs -------------------------
(***************************************************************************)
(* What assignReplicas returns for every set of nodes, hash, partition and *)
(* replication factor.                                                     *)
(***************************************************************************)
EXTENDS RangeAssign, FiniteSetTheorems, TLAPS

(* A sorted position is below the number of identifiers.                   *)
LEMMA RankType ==
    ASSUME NEW S \in SUBSET Nat, IsFiniteSet(S), NEW id \in S
    PROVE  Rank(S, id) \in 0 .. Cardinality(S) - 1
<1> DEFINE below == {j \in S : j < id}
<1>1. below \in SUBSET (S \ {id}) OBVIOUS
<1>2. IsFiniteSet(S \ {id}) /\ Cardinality(S \ {id}) = Cardinality(S) - 1
  BY FS_RemoveElement
<1>3. IsFiniteSet(below) /\ Cardinality(below) <= Cardinality(S) - 1
  BY <1>1, <1>2, FS_Subset
<1>4. Cardinality(below) \in Nat /\ Cardinality(S) \in Nat BY <1>3, FS_CardinalityType
<1> HIDE DEF below
<1>5. Cardinality(below) \in 0 .. Cardinality(S) - 1 BY <1>3, <1>4
<1> QED BY <1>5 DEF Rank, below

(* Two identifiers have different positions.                               *)
LEMMA RankInjective ==
    ASSUME NEW S \in SUBSET Nat, IsFiniteSet(S), NEW a \in S, NEW b \in S, a < b
    PROVE  Rank(S, a) < Rank(S, b)
<1> DEFINE A == {j \in S : j < a}
           B == {j \in S : j < b}
<1>1. A \in SUBSET B /\ A # B
  <2>1. \A j \in S : j < a => j < b OBVIOUS
  <2>s. A \subseteq B BY <2>1, Zenon
  <2>2. a \in B /\ ~(a < a) OBVIOUS
  <2>3. a \notin A BY <2>2
  <2> HIDE DEF A, B
  <2> QED BY <2>s, <2>2, <2>3
<1>2. IsFiniteSet(B) BY FS_Subset
<1>3. IsFiniteSet(A) /\ Cardinality(A) <= Cardinality(B) /\ Cardinality(A) # Cardinality(B)
  BY <1>1, <1>2, FS_Subset
<1>4. Cardinality(A) \in Nat /\ Cardinality(B) \in Nat BY <1>2, <1>3, FS_CardinalityType
<1> HIDE DEF A, B
<1>5. Cardinality(A) < Cardinality(B) BY <1>3, <1>4
<1> QED BY <1>5 DEF Rank, A, B

(* Every position is some identifier's: the code's sorted[i].              *)
LEMMA RankOnto ==
    ASSUME NEW S \in SUBSET Nat, IsFiniteSet(S), NEW i \in 0 .. Cardinality(S) - 1
    PROVE  \E id \in S : Rank(S, id) = i
<1> DEFINE T == 0 .. Cardinality(S) - 1
           f == [id \in S |-> Rank(S, id)]
<1>1. Cardinality(S) \in Nat BY FS_CardinalityType
<1>2. IsFiniteSet(T) /\ Cardinality(T) = Cardinality(S)
  <2>1. /\ IsFiniteSet(T)
        /\ Cardinality(T) = IF 0 > Cardinality(S) - 1 THEN 0
                            ELSE (Cardinality(S) - 1) - 0 + 1
    <3>1. Cardinality(S) - 1 \in Int BY <1>1
    <3> QED BY <3>1, FS_Interval
  <2> QED BY <1>1, <2>1
<1>3. f \in [S -> T] BY RankType
<1>4. \A a, b \in S : f[a] = f[b] => a = b
  <2> SUFFICES ASSUME NEW a \in S, NEW b \in S, a # b PROVE f[a] # f[b] OBVIOUS
  <2>1. a \in Nat /\ b \in Nat /\ Rank(S, a) \in Int /\ Rank(S, b) \in Int BY RankType
  <2>2. CASE a < b BY <2>1, <2>2, RankInjective
  <2>3. CASE b < a BY <2>1, <2>3, RankInjective
  <2> QED BY <2>1, <2>2, <2>3
<1>5. f \in Injection(S, T) BY <1>3, <1>4 DEF Injection, IsInjective
<1>6. f \in Surjection(S, T) BY <1>2, <1>5, FS_Injection
<1> QED BY <1>6, Zenon DEF Surjection

(* Division with remainder.                                                *)
LEMMA DivMod ==
    ASSUME NEW x \in Int, NEW k \in Nat \ {0}
    PROVE  /\ x = (x \div k) * k + (x % k)
           /\ x \div k \in Int
           /\ x % k \in 0 .. k - 1
  OBVIOUS

(* Numbers less than k apart have different remainders.                    *)
LEMMA ModInjective ==
    ASSUME NEW a \in Int, NEW b \in Int, NEW k \in Nat \ {0},
           a % k = b % k, a - b < k, b - a < k
    PROVE  a = b
<1> DEFINE x == a \div k
           y == b \div k
           m == a % k
<1>1. /\ a = x * k + m /\ b = y * k + m
      /\ x \in Int /\ y \in Int /\ m \in Int
  BY DivMod
<1> HIDE DEF x, y, m
<1>2. a - b = (x - y) * k BY <1>1
<1>3. CASE x = y BY <1>1, <1>3
<1>4. CASE x > y
  <2>1. (x - y) * k >= k BY <1>1, <1>4
  <2> QED BY <1>1, <1>2, <2>1
<1>5. CASE x < y
  <2>1. (y - x) * k >= k BY <1>1, <1>5
  <2>2. b - a = (y - x) * k BY <1>1
  <2> QED BY <1>1, <2>1, <2>2
<1> QED BY <1>1, <1>3, <1>4, <1>5

(* A slot of the ring is a position, and two replicas of a partition never *)
(* share one.                                                              *)
LEMMA RingSlotFacts ==
    ASSUME NEW hash \in Nat, NEW p \in Nat, NEW k \in Nat \ {0},
           NEW r \in 0 .. k - 1, NEW q \in 0 .. k - 1
    PROVE  /\ RingSlot(hash, p, r, k) \in 0 .. k - 1
           /\ RingSlot(hash, p, r, k) = RingSlot(hash, p, q, k) => r = q
<1> DEFINE a == hash + p + r
           b == hash + p + q
<1>1. /\ a \in Int /\ b \in Int /\ a - b = r - q
      /\ a - b < k /\ b - a < k
  OBVIOUS
<1>2. a = b => r = q OBVIOUS
<1> HIDE DEF a, b
<1>3. a % k \in 0 .. k - 1 BY <1>1, DivMod
<1>4. a % k = b % k => a = b BY <1>1, ModInjective, Zenon
<1>5. RingSlot(hash, p, r, k) = a % k /\ RingSlot(hash, p, q, k) = b % k
  BY DEF RingSlot, a, b
<1> QED BY <1>2, <1>3, <1>4, <1>5

(* assignReplicas, as the cluster coordinator calls it: as long as rf does *)
(* not exceed the nodes it returns rf different nodes, all of them given.  *)
THEOREM ReplicasDistinct ==
    ASSUME NEW S \in SUBSET Nat, IsFiniteSet(S), NEW hash \in Nat, NEW p \in Nat,
           NEW rf \in Nat, 1 <= rf, rf <= Cardinality(S)
    PROVE  /\ ReplicaNodes(S, hash, p, rf) \subseteq S
           /\ Cardinality(ReplicaNodes(S, hash, p, rf)) = rf
<1> DEFINE k == Cardinality(S)
           a == AssignReplicas(S, hash, p, rf)
           slot(r) == RingSlot(hash, p, r - 1, k)
           R == {a[r] : r \in 1 .. rf}
<1>0. ReplicaNodes(S, hash, p, rf) = R BY DEF ReplicaNodes
<1>1. k \in Nat \ {0}
  <2>1. k \in Nat BY FS_CardinalityType
  <2> QED BY <2>1
<1>2. \A r \in 1 .. rf : slot(r) \in 0 .. k - 1
  <2> HIDE DEF k
  <2> TAKE r \in 1 .. rf
  <2>1. r - 1 \in 0 .. k - 1 BY <1>1 DEF k
  <2> QED BY <1>1, <2>1, RingSlotFacts
<1>3. \A r \in 1 .. rf : a[r] \in S /\ Rank(S, a[r]) = slot(r)
  <2> TAKE r \in 1 .. rf
  <2>1. \E id \in S : Rank(S, id) = slot(r) BY <1>2, RankOnto
  <2>2. a[r] = CHOOSE id \in S : Rank(S, id) = slot(r) BY DEF AssignReplicas
  <2> HIDE DEF slot, a
  <2> QED BY <2>1, <2>2
<1>4. \A r, q \in 1 .. rf : a[r] = a[q] => r = q
  <2> TAKE r \in 1 .. rf, q \in 1 .. rf
  <2> HAVE a[r] = a[q]
  <2>1. slot(r) = slot(q)
    <3> HIDE DEF a, slot
    <3> QED BY <1>3
  <2>2. r - 1 \in 0 .. k - 1 /\ q - 1 \in 0 .. k - 1
    <3> HIDE DEF k
    <3> QED BY <1>1 DEF k
  <2>3. r - 1 = q - 1
    <3> HIDE DEF k
    <3> QED BY <1>1, <2>1, <2>2, RingSlotFacts
  <2> QED BY <2>3
<1>5. R \subseteq S
  <2> HIDE DEF a
  <2> QED BY <1>3
<1>6. IsFiniteSet(R) /\ Cardinality(R) = rf
  <2> DEFINE f == [r \in 1 .. rf |-> a[r]]
  <2>1. f \in Bijection(1 .. rf, R)
    <3> HIDE DEF a
    <3> QED BY <1>4 DEF Bijection, Injection, Surjection, IsInjective
  <2>2. IsFiniteSet(1 .. rf) /\ Cardinality(1 .. rf) = rf
    <3>1. /\ IsFiniteSet(1 .. rf)
          /\ Cardinality(1 .. rf) = IF 1 > rf THEN 0 ELSE rf - 1 + 1
      BY FS_Interval
    <3> QED BY <3>1
  <2>3. ExistsBijection(1 .. rf, R) BY <2>1 DEF ExistsBijection
  <2> HIDE DEF R
  <2> QED BY <2>2, <2>3, FS_Bijection
<1> QED BY <1>0, <1>5, <1>6

-----------------------------------------------------------------------------
(* A quotient is bounded by the products around the number divided.        *)
LEMMA DivBounds ==
    ASSUME NEW x \in Int, NEW q \in Int, NEW k \in Nat \ {0}
    PROVE  /\ x < (q + 1) * k => x \div k <= q
           /\ q * k <= x => q <= x \div k
<1> DEFINE d == x \div k
           m == x % k
<1>1. x = d * k + m /\ d \in Int /\ m \in 0 .. k - 1 BY DivMod
<1> HIDE DEF d, m
<1>2. ASSUME x < (q + 1) * k PROVE d <= q
  <2> SUFFICES ASSUME d > q PROVE FALSE BY <1>1
  <2>1. (d - (q + 1)) * k >= 0 BY <1>1
  <2>2. d * k >= (q + 1) * k BY <1>1, <2>1
  <2> QED BY <1>1, <1>2, <2>2
<1>3. ASSUME q * k <= x PROVE q <= d
  <2> SUFFICES ASSUME d < q PROVE FALSE BY <1>1
  <2>1. (q - (d + 1)) * k >= 0 BY <1>1
  <2>2. q * k >= (d + 1) * k BY <1>1, <2>1
  <2>3. (d + 1) * k = d * k + k BY <1>1
  <2> QED BY <1>1, <1>3, <2>2, <2>3
<1> QED BY <1>2, <1>3 DEF d

(* Where the slice of the i-th of k members begins, out of n partitions.   *)
Low(i, n, k) == (i * n) \div k

(* Slices are numbers, and later ones begin where earlier ones have ended. *)
LEMMA SlicesOrdered ==
    ASSUME NEW n \in Nat, NEW k \in Nat \ {0}, NEW i \in Nat, NEW j \in Nat
    PROVE  /\ Low(i, n, k) \in Nat
           /\ High(i, n, k) = Low(i + 1, n, k)
           /\ i <= j => Low(i, n, k) <= Low(j, n, k)
<1> DEFINE x == i * n
           y == j * n
           d == x \div k
<1>1. x \in Nat /\ y \in Nat OBVIOUS
<1>2. i <= j => x <= y
  <2>1. i <= j => (j - i) * n >= 0 OBVIOUS
  <2>2. (j - i) * n = y - x OBVIOUS
  <2> HIDE DEF x, y
  <2> QED BY <1>1, <2>1, <2>2
<1> HIDE DEF x, y
<1>3. x = d * k + (x % k) /\ d \in Int /\ x % k \in 0 .. k - 1 BY <1>1, DivMod
<1>4. d \in Nat
  <2>1. 0 * k <= x => 0 <= d BY <1>1, DivBounds
  <2>2. 0 * k <= x BY <1>1
  <2> HIDE DEF d
  <2> QED BY <1>3, <2>1, <2>2
<1>5. x <= y => d <= y \div k
  <2> SUFFICES ASSUME x <= y PROVE d <= y \div k OBVIOUS
  <2>1. d * k <= y
    <3> DEFINE m == x % k
    <3>1. x = d * k + m /\ m \in Nat /\ d * k \in Int BY <1>3
    <3> HIDE DEF m, d
    <3> QED BY <1>1, <3>1
  <2>2. d \in Int /\ y \in Int BY <1>1, <1>3
  <2> HIDE DEF d
  <2> QED BY <2>1, <2>2, DivBounds
<1> QED BY <1>2, <1>4, <1>5 DEF Low, High, x, y

(* The slice that holds partition p.                                       *)
LEMMA SliceOf ==
    ASSUME NEW n \in Nat, NEW k \in Nat \ {0}, NEW p \in 0 .. n - 1
    PROVE  \E i \in 0 .. k - 1 : p \in Low(i, n, k) .. High(i, n, k) - 1
<1> DEFINE x == (p + 1) * k - 1
           i == x \div n
<1>n. n \in Nat \ {0} OBVIOUS
<1>1. x \in Nat
  <2>1. p * k >= 0 OBVIOUS
  <2>2. (p + 1) * k = p * k + k OBVIOUS
  <2> QED BY <2>1, <2>2
<1>2. x = i * n + (x % n) /\ i \in Int /\ x % n \in 0 .. n - 1
  <2> HIDE DEF x
  <2> QED BY <1>n, <1>1, DivMod
<1>3. i \in 0 .. k - 1
  <2>1. x < ((k - 1) + 1) * n
    <3>1. (n - (p + 1)) * k >= 0 OBVIOUS
    <3>2. (n - (p + 1)) * k = n * k - (p + 1) * k OBVIOUS
    <3>3. ((k - 1) + 1) * n = n * k OBVIOUS
    <3> QED BY <3>1, <3>2, <3>3
  <2>2. 0 * n <= x BY <1>1
  <2> HIDE DEF x
  <2>3. i <= k - 1 /\ 0 <= i BY <1>n, <1>1, <2>1, <2>2, DivBounds
  <2> QED BY <1>2, <2>3
<1>4. Low(i, n, k) <= p
  <2> DEFINE y == i * n
  <2>1. y \in Int /\ y <= x
    <3> DEFINE m == x % n
    <3>1. x = y + m /\ m \in Nat BY <1>2
    <3>2. y \in Int BY <1>2
    <3> HIDE DEF x, y, m, i
    <3> QED BY <3>1, <3>2
  <2>2. y < (p + 1) * k BY <2>1
  <2> HIDE DEF y
  <2>3. y \div k <= p BY <2>1, <2>2, DivBounds
  <2> QED BY <2>3 DEF Low, y
<1>5. p + 1 <= High(i, n, k)
  <2> DEFINE y == (i + 1) * n
  <2>1. y \in Int /\ x < y
    <3> DEFINE m == x % n
    <3>1. x = i * n + m /\ m < n /\ m \in Int BY <1>2
    <3>2. y = i * n + n /\ y \in Int /\ i * n \in Int BY <1>2
    <3> HIDE DEF x, y, m, i
    <3> QED BY <3>1, <3>2
  <2>2. (p + 1) * k <= y BY <2>1
  <2> HIDE DEF y
  <2>3. p + 1 <= y \div k BY <2>1, <2>2, DivBounds
  <2> QED BY <2>3 DEF High, y
<1>6. Low(i, n, k) \in Nat /\ High(i, n, k) \in Nat
  <2> HIDE DEF i
  <2>1. i \in Nat /\ i + 1 \in Nat BY <1>3
  <2> QED BY <2>1, SlicesOrdered
<1> HIDE DEF i
<1> QED BY <1>3, <1>4, <1>5, <1>6

(* rebalance of the metadata state machine, for any members and any number *)
(* of partitions: every partition is given out, and never twice.           *)
THEOREM RebalanceOneOwner ==
    ASSUME NEW S \in SUBSET Nat, IsFiniteSet(S), S # {}, NEW n \in Nat
    PROVE  /\ \A p \in 0 .. n - 1 : \E id \in S : p \in Rebalance(S, n)[id]
           /\ \A x, y \in S : x # y => Rebalance(S, n)[x] \cap Rebalance(S, n)[y] = {}
<1> DEFINE k == Cardinality(S)
<1>1. k \in Nat \ {0} BY FS_CardinalityType, FS_EmptySet
<1> HIDE DEF k
<1>2. \A id \in S : Rebalance(S, n)[id] =
          Low(Rank(S, id), n, k) .. High(Rank(S, id), n, k) - 1
  BY DEF Rebalance, Low, k
<1>3. ASSUME NEW p \in 0 .. n - 1 PROVE \E id \in S : p \in Rebalance(S, n)[id]
  <2> PICK i \in 0 .. k - 1 : p \in Low(i, n, k) .. High(i, n, k) - 1 BY <1>1, SliceOf, Zenon
  <2> PICK id \in S : Rank(S, id) = i BY RankOnto DEF k
  <2> QED BY <1>2, Zenon
<1>4. ASSUME NEW x \in S, NEW y \in S, x < y
      PROVE  Rebalance(S, n)[x] \cap Rebalance(S, n)[y] = {}
  <2> DEFINE i == Rank(S, x)
             j == Rank(S, y)
  <2>1. i \in Nat /\ j \in Nat /\ i + 1 \in Nat /\ i < j
    BY <1>1, <1>4, RankType, RankInjective DEF k
  <2> HIDE DEF i, j
  <2>2. i + 1 <= j BY <2>1
  <2>3. /\ High(i, n, k) \in Nat /\ Low(j, n, k) \in Nat
        /\ High(i, n, k) <= Low(j, n, k)
    BY <1>1, <2>1, <2>2, SlicesOrdered
  <2>4. \A p : ~(p \in Low(i, n, k) .. High(i, n, k) - 1
                    /\ p \in Low(j, n, k) .. High(j, n, k) - 1)
    BY <1>1, <2>1, <2>3, SlicesOrdered
  <2> QED BY <1>2, <2>4, Zenon DEF i, j
<1>5. \A x, y \in S : x # y => x < y \/ y < x OBVIOUS
<1> QED BY <1>3, <1>4, <1>5

=============================================================================
