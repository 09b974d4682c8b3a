----------------------------- MODULE Tlsf_proofs -----------------------------
(***************************************************************************)
(* Proofs about Tlsf as Allocators has it, for every width, number of      *)
(* parts of a size class, number of nodes and set of sizes that are asked  *)
(* for: its lists, its blocks, and that every call keeps both.  The first  *)
(* part, on numbers and on functions defined by recursion, serves          *)
(* Allocators_proofs as well.                                              *)
(***************************************************************************)
EXTENDS Allocators, FreeNodes_proofs

AbstractStep == [Abstract!HNext]_[v \in Var |-> BlockOf(v)]

-----------------------------------------------------------------------------
(* Division, alignment and powers of two. *)
LEMMA DivMod ==
  ASSUME NEW a \in Int, NEW d \in Nat \ {0}
  PROVE  a = d * (a \div d) + (a % d) /\ a % d \in 0 .. d - 1 /\ a \div d \in Int
  OBVIOUS

LEMMA Remains ==
  ASSUME NEW c \in Nat \ {0}, NEW q \in Int, NEW r \in 0 .. c - 1
  PROVE  (c * q + r) % c = r /\ (c * q + r) \div c = q
  <1> DEFINE x == c * q + r
             d == x \div c
             p == x % c
             a == d - q
  <1>1. x \in Int
    OBVIOUS
  <1>2. x = c * d + p /\ p \in 0 .. c - 1 /\ d \in Int
    BY <1>1
  <1>3. a \in Int /\ c * a = c * d - c * q
    BY <1>2
  <1>4. c * a = r - p
    <2>1. c * d \in Int /\ c * q \in Int /\ p \in Int
      BY <1>2
    <2>2. x = c * q + r
      OBVIOUS
    <2> HIDE DEF x, d, p, a
    <2>3. QED
      BY <1>2, <1>3, <2>1, <2>2
  <1>5. /\ \A b \in Int : b >= 1 => c * b >= c
        /\ \A b \in Int : b <= -1 => c * b <= -c
    OBVIOUS
  <1> HIDE DEF x, d, p
  <1>6. a = 0
    <2> HIDE DEF a
    <2>1. QED
      BY <1>2, <1>3, <1>4, <1>5
  <1>7. r = p /\ d = q
    BY <1>2, <1>4, <1>6
  <1>8. QED
    BY <1>7 DEF p, d, x

(* The multiples of d are closed under sums and differences. *)
LEMMA Multiples ==
  ASSUME NEW d \in Nat \ {0}, NEW a \in Int, NEW b \in Int, a % d = 0, b % d = 0
  PROVE  (a + b) % d = 0 /\ (a - b) % d = 0
  <1> DEFINE q == a \div d
             r == b \div d
  <1>1. q \in Int /\ r \in Int /\ a = d * q + 0 /\ b = d * r + 0
    BY DivMod
  <1> HIDE DEF q, r
  <1>2. a + b = d * (q + r) + 0 /\ a - b = d * (q - r) + 0 /\ q + r \in Int /\ q - r \in Int
    BY <1>1
  <1>3. 0 \in 0 .. d - 1
    OBVIOUS
  <1>4. (d * (q + r) + 0) % d = 0 /\ (d * (q - r) + 0) % d = 0
    BY Zenon, <1>2, <1>3, Remains
  <1>5. QED
    BY <1>2, <1>4

LEMMA Multiple ==
  ASSUME NEW d \in Nat \ {0}, NEW k \in Int
  PROVE  (d * k) % d = 0 /\ (k * d) % d = 0 /\ d * k \in Int
  <1>1. d * k = d * k + 0 /\ 0 \in 0 .. d - 1 /\ k * d = d * k /\ d * k \in Int
    OBVIOUS
  <1>2. QED
    BY <1>1, Remains

LEMMA MultipleGap ==
  ASSUME NEW d \in Nat \ {0}, NEW a \in Int, a % d = 0, a > 0
  PROVE  a >= d
  <1>1. a = d * (a \div d) /\ a \div d \in Int
    BY DivMod
  <1> DEFINE q == a \div d
  <1> HIDE DEF q
  <1>2. q \in Int /\ a = d * q
    BY <1>1 DEF q
  <1>3. q >= 1
    <2>1. \A b \in Int : b <= 0 => d * b <= 0
      OBVIOUS
    <2>2. QED
      BY <1>2, <2>1
  <1>4. \A b \in Int : b >= 1 => d * b >= d
    OBVIOUS
  <1>5. QED
    BY <1>2, <1>3, <1>4

LEMMA AlignForward ==
  ASSUME NEW a \in Nat, NEW align \in Nat \ {0}
  PROVE  /\ align_forward(a, align) \in Nat
         /\ align_forward(a, align) >= a
         /\ align_forward(a, align) < a + align
         /\ align_forward(a, align) % align = 0
  <1> DEFINE r == a % align
             q == a \div align
             g == (align - r) % align
  <1>1. a = align * q + r /\ r \in 0 .. align - 1 /\ q \in Int
    BY DivMod
  <1>2. align_forward(a, align) = a + g
    BY DEF align_forward
  <1>3. CASE r = 0
    <2>1. align = align * 1 + 0 /\ 0 \in 0 .. align - 1 /\ align - r = align
      BY <1>3
    <2>2. (align * 1 + 0) % align = 0
      BY <2>1, Remains
    <2>3. g = 0
      BY <2>1, <2>2
    <2>4. QED
      BY <1>2, <1>3, <2>3
  <1>4. CASE r # 0
    <2>1. align - r \in 0 .. align - 1 /\ align - r = align * 0 + (align - r)
      BY <1>1, <1>4
    <2>2. (align * 0 + (align - r)) % align = align - r
      <3> DEFINE s == align - r
      <3>1. s \in 0 .. align - 1 /\ 0 \in Int
        BY <2>1
      <3> HIDE DEF s, r
      <3>2. (align * 0 + s) % align = s
        BY <3>1, Remains
      <3>3. QED
        BY <3>2 DEF s
    <2>3. g = align - r
      BY <2>1, <2>2
    <2>4. a + g = align * (q + 1) + 0 /\ q + 1 \in Int /\ 0 \in 0 .. align - 1
      <3>1. align * (q + 1) = align * q + align /\ align * q \in Int
        BY <1>1
      <3> HIDE DEF q, r, g
      <3>2. QED
        BY <1>1, <2>1, <2>3, <3>1
    <2>5. (align * (q + 1) + 0) % align = 0
      BY <2>4, Remains
    <2>6. g \in 1 .. align - 1
      BY <1>1, <1>4, <2>3
    <2> HIDE DEF q, r, g
    <2>7. QED
      BY <1>2, <2>4, <2>5, <2>6
  <1>5. QED
    BY <1>3, <1>4

LEMMA PowZero == 2 ^ 0 = 1
  <1>1. IsFiniteSet({}) /\ Cardinality({}) = 0
    BY FS_EmptySet
  <1>2. Cardinality(SUBSET {}) = 2 ^ 0
    BY Zenon, <1>1, FS_SUBSET
  <1>3. SUBSET {} = {{}}
    OBVIOUS
  <1>4. Cardinality({{}}) = 1
    BY Zenon, FS_Singleton
  <1>5. QED
    BY <1>2, <1>3, <1>4

LEMMA PowStep ==
  ASSUME NEW n \in Nat
  PROVE  2 ^ n \in Nat /\ 2 ^ (n + 1) = 2 * 2 ^ n
  <1> DEFINE S == 1 .. n
             z == n + 1
             A == SUBSET S
             B == SUBSET (S \cup {z})
             U == B \ A
             f == [Q \in A |-> Q \cup {z}]
  <1>1. IsFiniteSet(S) /\ Cardinality(S) = n /\ z \notin S
    BY FS_Interval
  <1>2. IsFiniteSet(S \cup {z}) /\ Cardinality(S \cup {z}) = n + 1
    BY Zenon, <1>1, FS_AddElement
  <1>3. /\ IsFiniteSet(A) /\ Cardinality(A) = 2 ^ n
        /\ IsFiniteSet(B) /\ Cardinality(B) = 2 ^ (n + 1)
    <2> HIDE DEF S, z
    <2>1. QED
      BY Zenon, <1>1, <1>2, FS_SUBSET
  <1>4. Cardinality(A) \in Nat /\ Cardinality(B) \in Nat
    BY <1>3, FS_CardinalityType
  <1>5. ExistsBijection(A, U)
    <2> HIDE DEF S, z
    <2>1. \A Q \in A : Q \cup {z} \in U
      BY <1>1
    <2>2. \A Q, R \in A : Q \cup {z} = R \cup {z} => Q = R
      BY <1>1
    <2>3. \A R \in U : \E Q \in A : Q \cup {z} = R
      <3>1. ASSUME NEW R \in U
            PROVE  \E Q \in A : Q \cup {z} = R
        <4>1. R \ {z} \in A /\ z \in R
          OBVIOUS
        <4>2. QED
          BY Zenon, <4>1
      <3>2. QED
        BY <3>1
    <2>4. f \in [A -> U]
      BY <2>1
    <2>5. f \in Bijection(A, U)
      BY Zenon, <2>2, <2>3, <2>4 DEF Bijection, Injection, Surjection, IsInjective
    <2>6. QED
      BY Zenon, <2>5 DEF ExistsBijection
  <1>6. IsFiniteSet(U) /\ Cardinality(U) = 2 ^ n
    BY <1>3, <1>5, FS_Bijection
  <1>7. Cardinality(U) = Cardinality(B) - Cardinality(B \cap A)
    BY Zenon, <1>3, FS_Difference
  <1>8. B \cap A = A
    OBVIOUS
  <1>9. QED
    <2> HIDE DEF A, B, U
    <2>1. QED
      BY <1>3, <1>4, <1>6, <1>7, <1>8

(* A power is positive, exceeds its exponent, and grows with it. *)
LEMMA PowIs ==
  ASSUME NEW n \in Nat
  PROVE  2 ^ n \in Nat \ {0} /\ 2 ^ n > n
  <1> DEFINE P(k) == 2 ^ k \in Nat \ {0} /\ 2 ^ k > k
             S == {k \in Nat : ~P(k)}
  <1>1. CASE S = {}
    BY <1>1
  <1>2. CASE S # {}
    <2>1. PICK m \in S : \A x \in Nat : x < m => x \notin S
      <3>1. S \in SUBSET Nat
        OBVIOUS
      <3>2. QED
        BY Zenon, <1>2, <3>1, LeastIndex
    <2>2. m # 0
      <3>1. P(0)
        BY PowZero
      <3>2. QED
        BY Zenon, <2>1, <3>1
    <2>3. m - 1 \in Nat /\ m - 1 < m /\ (m - 1) + 1 = m
      BY <2>1, <2>2
    <2>4. P(m - 1)
      BY <2>1, <2>3
    <2>5. 2 ^ m = 2 * 2 ^ (m - 1)
      BY <2>3, PowStep
    <2> DEFINE x == 2 ^ (m - 1)
    <2>6. x \in Nat /\ x > 0 /\ x > m - 1 /\ 2 ^ m = 2 * x
      BY <2>4, <2>5
    <2> HIDE DEF x
    <2>7. 2 * x > m
      BY <2>3, <2>6
    <2>8. QED
      BY <2>1, <2>6, <2>7
  <1>3. QED
    BY <1>1, <1>2

LEMMA PowOrder ==
  ASSUME NEW m \in Nat, NEW n \in Nat, m <= n
  PROVE  2 ^ m <= 2 ^ n /\ (m < n => 2 ^ m < 2 ^ n) /\ 2 ^ n % 2 ^ m = 0
  <1> DEFINE P(k) == 2 ^ m <= 2 ^ (m + k) /\ (k > 0 => 2 ^ m < 2 ^ (m + k)) /\ 2 ^ (m + k) % 2 ^ m = 0
             S == {k \in Nat : ~P(k)}
  <1>1. CASE S = {}
    <2>1. n - m \in Nat /\ m + (n - m) = n
      OBVIOUS
    <2>2. P(n - m)
      BY Zenon, <1>1, <2>1
    <2>3. QED
      BY <2>1, <2>2
  <1>2. CASE S # {}
    <2>1. PICK k \in S : \A x \in Nat : x < k => x \notin S
      <3>1. S \in SUBSET Nat
        OBVIOUS
      <3>2. QED
        BY Zenon, <1>2, <3>1, LeastIndex
    <2> DEFINE b == 2 ^ m
               x == 2 ^ (m + (k - 1))
    <2>2. b \in Nat \ {0}
      BY PowIs
    <2>3. k # 0
      <3>1. m + 0 = m /\ b % b = 0
        <4> HIDE DEF b
        <4>1. b = b * 1
          BY <2>2
        <4>2. (b * 1) % b = 0
          BY <2>2, Multiple
        <4>3. QED
          BY <4>1, <4>2
      <3>2. QED
        BY <2>1, <2>2, <3>1
    <2>4. k - 1 \in Nat /\ m + (k - 1) \in Nat /\ (m + (k - 1)) + 1 = m + k
      BY <2>1, <2>3
    <2>5. P(k - 1)
      BY <2>1, <2>4
    <2>6. x \in Nat \ {0} /\ 2 ^ (m + k) = 2 * x
      BY <2>4, PowStep, PowIs
    <2>7. b <= x /\ x % b = 0
      BY <2>5
    <2> HIDE DEF b, x
    <2>8. (x + x) % b = 0 /\ x + x = 2 * x
      <3>1. x \in Int /\ b \in Nat \ {0} /\ x + x = 2 * x
        BY <2>2, <2>6
      <3>2. (x + x) % b = 0
        BY ONLY Zenon, <2>7, <3>1, Multiples
      <3>3. QED
        BY <3>1, <3>2
    <2>9. b <= 2 * x /\ b < 2 * x
      BY <2>2, <2>6, <2>7
    <2>10. P(k)
      BY <2>6, <2>8, <2>9 DEF b
    <2>11. QED
      BY <2>1, <2>10
  <1>3. QED
    BY <1>1, <1>2

-----------------------------------------------------------------------------
(* Functions on 0 .. n that are defined from each value to the next.       *)
Closed(G, n, X) == \A k \in 1 .. n, x \in X : G[k][x] \in X
Iterates(f, n, x0, G) == f = [k \in 0 .. n |-> IF k = 0 THEN x0 ELSE G[k][f[k - 1]]]
StepAlike(f, h, n) == f[0] = h[0] /\ \A k \in 1 .. n : f[k - 1] = h[k - 1] => f[k] = h[k]
Alike(f, h, n) == \A k \in 0 .. n : f[k] = h[k]

LEMMA Recursion ==
  ASSUME NEW n \in Nat, NEW X, NEW x0 \in X, NEW G, Closed(G, n, X)
  PROVE  \E f \in [0 .. n -> X] : Iterates(f, n, x0, G)
  <1> USE DEF Closed, Iterates
  <1> DEFINE P(m) == \E f \in [0 .. m -> X] :
               f = [k \in 0 .. m |-> IF k = 0 THEN x0 ELSE G[k][f[k - 1]]]
             S == {m \in 0 .. n : ~P(m)}
  <1>1. CASE S = {}
    BY <1>1
  <1>2. CASE S # {}
    <2>1. PICK m \in S : \A x \in Nat : x < m => x \notin S
      <3>1. S \in SUBSET Nat
        OBVIOUS
      <3>2. QED
        BY Zenon, <1>2, <3>1, LeastIndex
    <2>2. m # 0
      <3>1. P(0)
        <4> DEFINE f == [k \in 0 .. 0 |-> x0]
        <4>1. f \in [0 .. 0 -> X] /\ f = [k \in 0 .. 0 |-> IF k = 0 THEN x0 ELSE G[k][f[k - 1]]]
          OBVIOUS
        <4>2. QED
          BY Zenon, <4>1
      <3>2. QED
        BY Zenon, <2>1, <3>1
    <2> DEFINE l == m - 1
    <2>3. l \in 0 .. n /\ l \in Nat /\ l < m /\ m \in 1 .. n /\ m = l + 1
      BY <2>1, <2>2
    <2>4. P(l)
      BY <2>1, <2>3
    <2> HIDE DEF l
    <2>5. PICK f \in [0 .. l -> X] :
            f = [k \in 0 .. l |-> IF k = 0 THEN x0 ELSE G[k][f[k - 1]]]
      BY Zenon, <2>4
    <2> DEFINE g == [k \in 0 .. m |-> IF k = m THEN G[m][f[l]] ELSE f[k]]
    <2>6. f[l] \in X /\ G[m][f[l]] \in X
      BY <2>3, <2>5
    <2>7. g \in [0 .. m -> X]
      BY <2>3, <2>6
    <2>8. ASSUME NEW k \in 0 .. m
          PROVE  g[k] = IF k = 0 THEN x0 ELSE G[k][g[k - 1]]
      <3>1. CASE k = m
        <4>1. k # 0 /\ k - 1 = l /\ l \in 0 .. m /\ l # m
          BY <2>3, <3>1
        <4>2. g[k - 1] = f[l]
          BY <4>1
        <4>3. QED
          BY <3>1, <4>1, <4>2
      <3>2. CASE k # m
        <4>1. k \in 0 .. l /\ (k # 0 => k - 1 \in 0 .. l /\ k - 1 \in 0 .. m /\ k - 1 # m)
          BY <2>3, <3>2
        <4>2. f[k] = IF k = 0 THEN x0 ELSE G[k][f[k - 1]]
          BY Zenon, <2>5, <4>1
        <4>3. g[k] = f[k] /\ (k # 0 => g[k - 1] = f[k - 1])
          BY <3>2, <4>1
        <4>4. QED
          BY <4>2, <4>3
      <3>3. QED
        BY <3>1, <3>2
    <2>9. g = [k \in 0 .. m |-> IF k = 0 THEN x0 ELSE G[k][g[k - 1]]]
      <3>1. g = [k \in 0 .. m |-> g[k]]
        OBVIOUS
      <3> HIDE DEF g
      <3>2. QED
        BY Zenon, <2>8, <3>1
    <2>10. P(m)
      <3> HIDE DEF g
      <3>1. QED
        BY Zenon, <2>7, <2>9
    <2>11. QED
      BY <2>1, <2>10
  <1>3. QED
    BY <1>1, <1>2

LEMMA SameRecursion ==
  ASSUME NEW n \in Nat, NEW f, NEW h, StepAlike(f, h, n)
  PROVE  Alike(f, h, n)
  <1> USE DEF StepAlike, Alike
  <1> DEFINE S == {k \in 0 .. n : f[k] # h[k]}
  <1>1. CASE S # {}
    <2>1. PICK m \in S : \A x \in Nat : x < m => x \notin S
      <3>1. S \in SUBSET Nat
        OBVIOUS
      <3>2. QED
        BY Zenon, <1>1, <3>1, LeastIndex
    <2>2. m \in 1 .. n /\ m - 1 \in 0 .. n /\ m - 1 \in Nat /\ m - 1 < m
      BY <2>1
    <2>3. f[m - 1] = h[m - 1]
      BY <2>1, <2>2
    <2>4. QED
      BY <2>1, <2>2, <2>3
  <1>2. QED
    BY <1>1

-----------------------------------------------------------------------------
(* Tlsf: its size classes. *)
LEMMA TlsfConstantsAre ==
  /\ L2Log2 \in Nat \ {0} /\ Bits \in Nat /\ L2Log2 < Bits /\ MaxAllocs \in Nat \ {0, 1}
  /\ TlsfRequests \subseteq 1 .. 2 ^ Bits - 2 ^ (Bits - 1 - L2Log2)
  /\ T!MinSize \in Nat \ {0} /\ T!Total \in Nat \ {0} /\ T!MinSize <= T!Total
  /\ T!MinSize = 2 ^ L2Log2 /\ T!Total = 2 ^ Bits - 1 /\ T!Total <= Size
  /\ T!NULL = -1
  <1>1. /\ L2Log2 \in Nat \ {0} /\ Bits \in Nat /\ L2Log2 < Bits /\ MaxAllocs \in Nat \ {0, 1}
        /\ TlsfRequests \subseteq 1 .. 2 ^ Bits - 2 ^ (Bits - 1 - L2Log2) /\ T!Total <= Size
    BY TlsfConstants DEF T!TlsfAssumption, T!Total
  <1>2. 2 ^ L2Log2 \in Nat \ {0} /\ 2 ^ Bits \in Nat \ {0} /\ 2 ^ L2Log2 < 2 ^ Bits
    BY <1>1, PowIs, PowOrder
  <1>3. QED
    BY <1>1, <1>2 DEF T!MinSize, T!Total, T!NULL

LEMMA PowSum ==
  ASSUME NEW a \in Nat, NEW b \in Nat
  PROVE  2 ^ (a + b) = 2 ^ a * 2 ^ b
  <1> DEFINE P(k) == 2 ^ (a + k) = 2 ^ a * 2 ^ k
             S == {k \in Nat : ~P(k)}
  <1>1. CASE S = {}
    BY <1>1
  <1>2. CASE S # {}
    <2>1. PICK m \in S : \A x \in Nat : x < m => x \notin S
      BY <1>2, LeastIndex
    <2>2. m # 0
      <3>1. a + 0 = a /\ 2 ^ a * 1 = 2 ^ a
        BY PowIs
      <3>2. P(0)
        BY <3>1, PowZero
      <3>3. QED
        BY <2>1, <3>2
    <2>3. m - 1 \in Nat /\ P(m - 1) /\ a + (m - 1) \in Nat
      BY <2>1, <2>2
    <2>4. /\ 2 ^ (a + m) = 2 * 2 ^ (a + (m - 1)) /\ 2 ^ m = 2 * 2 ^ (m - 1)
          /\ 2 ^ a \in Nat /\ 2 ^ (m - 1) \in Nat
      <3>1. (a + (m - 1)) + 1 = a + m /\ (m - 1) + 1 = m
        BY <2>3
      <3>2. QED
        BY <2>3, <3>1, PowStep
    <2>5. 2 ^ (a + m) = 2 ^ a * 2 ^ m
      BY <2>3, <2>4
    <2>6. QED
      BY <2>1, <2>5
  <1>3. QED
    BY <1>1, <1>2

(* The members of a set of numbers below n have a greatest. *)
LEMMA MaxIs ==
  ASSUME NEW n \in Nat, NEW S \in SUBSET (0 .. n), S # {}
  PROVE  T!Max(S) \in S /\ \A x \in S : x <= T!Max(S)
  <1> DEFINE R == {k \in Nat : n - k \in S}
  <1>1. R # {}
    <2>1. PICK x \in S : TRUE
      OBVIOUS
    <2>2. n - x \in Nat /\ n - (n - x) = x
      OBVIOUS
    <2>3. QED
      BY <2>1, <2>2
  <1>2. PICK m \in R : \A x \in Nat : x < m => x \notin R
    BY <1>1, LeastIndex
  <1>3. n - m \in S /\ \A x \in S : x <= n - m
    <2>1. ASSUME NEW x \in S
          PROVE  x <= n - m
      <3>1. n - x \in Nat /\ n - (n - x) = x
        OBVIOUS
      <3>2. ~(n - x < m)
        BY <1>2, <3>1
      <3>3. QED
        BY <1>2, <3>2
    <2>2. QED
      BY <1>2, <2>1
  <1>4. QED
    BY <1>3 DEF T!Max

LEMMA MsbIs ==
  ASSUME NEW m \in 1 .. T!Total
  PROVE  /\ T!Msb(m) \in 0 .. Bits - 1
         /\ 2 ^ T!Msb(m) <= m /\ m < 2 ^ (T!Msb(m) + 1) /\ 2 ^ (T!Msb(m) + 1) = 2 * 2 ^ T!Msb(m)
         /\ \A k \in Nat : 2 ^ k <= m => k <= T!Msb(m)
  <1> DEFINE S == {b \in 0 .. Bits - 1 : 2 ^ b <= m}
  <1>1. Bits \in Nat /\ Bits - 1 \in Nat /\ m \in Nat /\ m >= 1 /\ m < 2 ^ Bits
    BY TlsfConstantsAre
  <1>2. 0 \in S
    BY <1>1, PowZero
  <1>3. T!Msb(m) \in S /\ \A b \in S : b <= T!Msb(m)
    <2>1. S \in SUBSET (0 .. Bits - 1) /\ S # {}
      BY <1>2
    <2> HIDE DEF S
    <2>2. T!Max(S) \in S /\ \A b \in S : b <= T!Max(S)
      BY <1>1, <2>1, MaxIs
    <2>3. T!Msb(m) = T!Max(S)
      BY DEF T!Msb, S
    <2>4. QED
      BY <2>2, <2>3
  <1>4. ASSUME NEW k \in Nat, 2 ^ k <= m
        PROVE  k <= T!Msb(m)
    <2>1. k < Bits
      <3>1. CASE k >= Bits
        <4>1. 2 ^ Bits <= 2 ^ k /\ 2 ^ Bits \in Nat /\ 2 ^ k \in Nat
          BY <1>1, <3>1, PowOrder, PowIs
        <4>2. QED
          BY <1>1, <1>4, <4>1
      <3>2. QED
        BY <1>1, <3>1
    <2>2. k \in S
      BY <1>1, <1>4, <2>1
    <2>3. QED
      BY <1>3, <2>2
  <1>5. T!Msb(m) \in Nat /\ T!Msb(m) + 1 \in Nat
    BY <1>1, <1>3
  <1>6. 2 ^ (T!Msb(m) + 1) \in Nat /\ 2 ^ (T!Msb(m) + 1) = 2 * 2 ^ T!Msb(m)
    BY <1>5, PowIs, PowStep
  <1>7. m < 2 ^ (T!Msb(m) + 1)
    <2>1. ~(2 ^ (T!Msb(m) + 1) <= m)
      BY <1>4, <1>5
    <2>2. QED
      BY <1>1, <1>6, <2>1
  <1>8. QED
    BY <1>1, <1>3, <1>4, <1>6, <1>7

Cls == T!FirstLevel \X T!SecondLevel

(* The class of a size, in numbers: the power of two below it, and which of the
   2 ^ L2Log2 parts of length d up to the next.                            *)
LEMMA ClassIs ==
  ASSUME NEW m \in T!MinSize .. T!Total, NEW k, k = T!Msb(m), NEW d, d = 2 ^ (k - L2Log2)
  PROVE  /\ k \in Nat /\ k >= L2Log2 /\ k - L2Log2 \in T!FirstLevel
         /\ d \in Nat \ {0} /\ 2 ^ k = 2 ^ L2Log2 * d /\ 2 ^ k \in Nat
         /\ (m - 2 ^ k) \div d \in T!SecondLevel
         /\ T!Class(m) = <<k - L2Log2, (m - 2 ^ k) \div d>> /\ T!Class(m) \in Cls
  <1>1. /\ m \in 1 .. T!Total /\ L2Log2 \in Nat /\ Bits \in Nat /\ 2 ^ L2Log2 <= m /\ m \in Nat
        /\ T!MinSize = 2 ^ L2Log2
    BY TlsfConstantsAre
  <1>2. /\ k \in 0 .. Bits - 1 /\ 2 ^ k <= m /\ m < 2 * 2 ^ k /\ L2Log2 <= k
    BY <1>1, MsbIs
  <1>3. k \in Nat /\ k - L2Log2 \in Nat /\ k - L2Log2 \in T!FirstLevel
    BY <1>1, <1>2 DEF T!FirstLevel
  <1>4. d \in Nat \ {0} /\ 2 ^ L2Log2 \in Nat \ {0} /\ 2 ^ k \in Nat
    BY <1>1, <1>3, PowIs
  <1>5. 2 ^ k = 2 ^ L2Log2 * d
    <2>1. L2Log2 + (k - L2Log2) = k
      BY <1>1, <1>3
    <2>2. QED
      BY <1>1, <1>3, <2>1, PowSum
  <1> DEFINE x == m - 2 ^ k
             p == 2 ^ L2Log2
             q == x \div d
  <1>6. x \in Nat /\ x < p * d /\ p \in Nat \ {0}
    <2>1. x \in Nat /\ x < 2 ^ k
      BY <1>1, <1>2, <1>4
    <2>2. QED
      BY <1>4, <1>5, <2>1
  <1>7. q \in 0 .. p - 1
    <2> HIDE DEF x, p
    <2>1. x = d * q + (x % d) /\ x % d \in 0 .. d - 1 /\ q \in Int
      <3>1. x \in Int /\ d \in Nat \ {0}
        BY <1>4, <1>6
      <3>2. QED
        BY ONLY <3>1, DivMod DEF q
    <2> HIDE DEF q
    <2>2. q >= 0
      <3>1. CASE q < 0
        <4>1. d * q <= d * (-1)
          <5>1. q <= -1 /\ q \in Int /\ d \in Nat
            BY <1>4, <2>1, <3>1
          <5>2. QED
            BY ONLY <5>1
        <4>2. QED
          BY <1>4, <1>6, <2>1, <4>1
      <3>2. QED
        BY <2>1, <3>1
    <2>3. q < p
      <3>1. CASE q >= p
        <4>1. d * q >= d * p
          BY <1>4, <1>6, <2>1, <3>1
        <4>2. d * p = p * d
          BY <1>4, <1>6
        <4>3. QED
          BY <1>4, <1>6, <2>1, <4>1, <4>2
      <3>2. QED
        BY <1>6, <2>1, <3>1
    <2>4. QED
      BY <1>6, <2>1, <2>2, <2>3
  <1>8. q \in T!SecondLevel
    BY <1>7 DEF T!SecondLevel
  <1>9. T!Class(m) = <<k - L2Log2, q>>
    BY DEF T!Class
  <1>10. QED
    BY <1>2, <1>3, <1>4, <1>5, <1>8, <1>9 DEF Cls

(* One class is not after another: in the order of the searches. *)
LEMMA RoundUpIs ==
  ASSUME NEW s \in T!MinSize .. T!Total, s <= 2 ^ Bits - 2 ^ (Bits - 1 - L2Log2) \/ s = T!MinSize
  PROVE  /\ T!RoundUp(s) \in Cls
         /\ \A b \in T!MinSize .. T!Total : T!NotAfter(T!RoundUp(s), T!Class(b)) => s <= b
  <1> DEFINE k == T!Msb(s)
             d == 2 ^ (k - L2Log2)
             m == s + d - 1
  <1>1. /\ L2Log2 \in Nat /\ Bits \in Nat /\ L2Log2 < Bits /\ s \in Nat /\ s \in 1 .. T!Total
        /\ T!MinSize \in Nat /\ T!Total \in Nat /\ T!Total = 2 ^ Bits - 1 /\ T!MinSize = 2 ^ L2Log2
    BY TlsfConstantsAre
  <1>2. /\ k \in Nat /\ k >= L2Log2 /\ d \in Nat \ {0} /\ 2 ^ k \in Nat
        /\ 2 ^ k = 2 ^ L2Log2 * d
    BY ClassIs
  <1>3. k \in 0 .. Bits - 1 /\ 2 ^ k <= s /\ s < 2 * 2 ^ k /\ 2 ^ (k + 1) = 2 * 2 ^ k
    BY <1>1, MsbIs
  <1>4. m \in T!MinSize .. T!Total
    <2>1. m \in Nat /\ m >= s
      BY <1>1, <1>2
    <2>2. m <= T!Total
      <3>1. CASE s <= 2 ^ Bits - 2 ^ (Bits - 1 - L2Log2)
        <4>1. /\ k - L2Log2 \in Nat /\ Bits - 1 - L2Log2 \in Nat
              /\ k - L2Log2 <= Bits - 1 - L2Log2
          BY <1>1, <1>2, <1>3
        <4>2. d <= 2 ^ (Bits - 1 - L2Log2) /\ 2 ^ (Bits - 1 - L2Log2) \in Nat /\ 2 ^ Bits \in Nat
          BY <1>1, <4>1, PowOrder, PowIs
        <4>3. QED
          BY <1>1, <1>2, <3>1, <4>2
      <3>2. CASE s = T!MinSize
        <4>1. k = L2Log2
          <5>1. CASE k > L2Log2
            <6>1. 2 ^ L2Log2 < 2 ^ k
              BY <1>1, <1>2, <5>1, PowOrder
            <6>2. QED
              BY <1>1, <1>2, <1>3, <3>2, <6>1
          <5>2. QED
            BY <1>1, <1>2, <5>1
        <4>2. d = 1
          BY <1>1, <4>1, PowZero
        <4>3. QED
          BY <1>1, <4>2
      <3>3. QED
        BY <3>1, <3>2
    <2>3. QED
      BY <1>1, <2>1, <2>2
  <1>5. T!RoundUp(s) = T!Class(m)
    BY DEF T!RoundUp
  <1> DEFINE K == T!Msb(m)
             D == 2 ^ (K - L2Log2)
             Q == (m - 2 ^ K) \div D
  <1>6. /\ K \in Nat /\ K >= L2Log2 /\ D \in Nat \ {0} /\ 2 ^ K \in Nat
        /\ T!Class(m) = <<K - L2Log2, Q>> /\ T!Class(m) \in Cls /\ Q \in T!SecondLevel
    <2> HIDE DEF m
    <2>1. QED
      BY <1>4, ClassIs
  <1>7. /\ K \in 0 .. Bits - 1 /\ 2 ^ K <= m /\ m < 2 ^ (K + 1) /\ 2 ^ (K + 1) = 2 * 2 ^ K
        /\ k <= K
    <2>1. m \in 1 .. T!Total /\ 2 ^ k <= m
      BY <1>1, <1>2, <1>3, <1>4
    <2> HIDE DEF m
    <2>2. QED
      BY <1>2, <2>1, MsbIs
  <1>8. ASSUME NEW b \in T!MinSize .. T!Total, T!NotAfter(T!Class(m), T!Class(b))
        PROVE  s <= b
    <2> DEFINE l == T!Msb(b)
               e == 2 ^ (l - L2Log2)
               r == (b - 2 ^ l) \div e
    <2>1. /\ l \in Nat /\ l >= L2Log2 /\ e \in Nat \ {0} /\ 2 ^ l \in Nat
          /\ T!Class(b) = <<l - L2Log2, r>> /\ r \in T!SecondLevel
      BY ClassIs
    <2>2. b \in 1 .. T!Total /\ b \in Nat
      BY TlsfConstantsAre
    <2>3. 2 ^ l <= b
      BY <2>2, MsbIs
    <2>4. K < l \/ (K = l /\ Q <= r)
      <3> HIDE DEF K, Q, l, r, m
      <3>1. QED
        BY <1>1, <1>6, <1>8, <2>1 DEF T!NotAfter
    <2>5. CASE K < l
      <3>1. 2 ^ (K + 1) <= 2 ^ l
        BY <1>6, <2>1, <2>5, PowOrder
      <3>2. m < b
        <4> HIDE DEF m, K, l
        <4>1. QED
          BY <1>4, <1>6, <1>7, <2>1, <2>2, <2>3, <3>1, TlsfConstantsAre
      <3>3. QED
        BY <1>1, <1>2, <2>2, <3>2
    <2>6. CASE K = l /\ k < K
      <3>1. 2 ^ (k + 1) <= 2 ^ l
        BY <1>2, <2>1, <2>6, PowOrder
      <3>2. QED
        <4> HIDE DEF k, l
        <4>1. QED
          BY <1>1, <1>2, <1>3, <2>1, <2>2, <2>3, <3>1
    <2>7. CASE K = l /\ k = K /\ Q <= r
      <3> DEFINE x == m - 2 ^ k
                 y == b - 2 ^ k
                 z == s - 2 ^ k
      <3>1. x \in Int /\ y \in Nat /\ z \in Int /\ x = z + d - 1 /\ z <= y => s <= b
        <4> HIDE DEF k, d
        <4>1. QED
          BY <1>1, <1>2, <2>2
      <3>2. x \in Int /\ y \in Nat /\ z \in Int /\ x = z + d - 1 /\ Q = x \div d /\ r = y \div d
        <4>1. 2 ^ k <= b
          BY <2>3, <2>7
        <4>2. Q = x \div d /\ r = y \div d
          BY <2>7
        <4>3. x \in Int /\ y \in Nat /\ z \in Int /\ x = z + d - 1
          <5> HIDE DEF k, d
          <5>1. QED
            BY <1>1, <1>2, <2>2, <4>1
        <4>4. QED
          BY <4>2, <4>3
      <3>3. z <= y
        <4> HIDE DEF x, y, z, d, Q, r, k, K, l
        <4>1. x = d * Q + (x % d) /\ x % d \in 0 .. d - 1 /\ Q \in Int
          BY <1>2, <3>2, DivMod
        <4>2. y = d * r + (y % d) /\ y % d \in 0 .. d - 1 /\ r \in Int
          <5>1. y \in Int /\ d \in Nat \ {0} /\ r = y \div d
            BY <1>2, <3>2
          <5>2. QED
            BY ONLY <5>1, DivMod
        <4>3. d * Q <= d * r
          BY <1>2, <2>7, <4>1, <4>2
        <4>4. d * Q \in Int /\ d * r \in Int
          BY <1>2, <4>1, <4>2
        <4>5. QED
          BY <1>2, <3>2, <4>1, <4>2, <4>3, <4>4
      <3>4. QED
        <4> HIDE DEF x, y, z
        <4>1. z <= y /\ z = s - 2 ^ k /\ y = b - 2 ^ k
          BY <3>3 DEF y, z
        <4> HIDE DEF k
        <4>2. QED
          BY <1>1, <1>2, <2>2, <4>1
    <2>8. QED
      <3> HIDE DEF k, K, l, Q, r
      <3>1. QED
        BY <1>2, <1>6, <1>7, <2>1, <2>4, <2>5, <2>6, <2>7
  <1>9. QED
    BY <1>5, <1>6, <1>8

-----------------------------------------------------------------------------
(* Tlsf: its bitmaps. *)
TNode ==
  [offset : (0 .. T!Total) \cup {T!NULL}, size : 0 .. T!Total, next : T!Pointer, prev : T!Pointer,
   aoPrevious : T!Pointer, aoNext : T!Pointer, allocated : BOOLEAN]

TState ==
  [l1 : SUBSET T!FirstLevel, l2 : [T!FirstLevel -> SUBSET T!SecondLevel],
   heads : [Cls -> T!Pointer], nodes : [T!Node -> TNode], store : Seq(T!Node)]

(* A bit is on exactly where a list is not empty. *)
Marked(t) ==
  /\ \A c \in Cls : c[2] \in t.l2[c[1]] <=> t.heads[c] # T!NULL
  /\ \A l \in T!FirstLevel : l \in t.l1 <=> t.l2[l] # {}

LEMMA ClsIs ==
  /\ \A c \in Cls : /\ c[1] \in T!FirstLevel /\ c[2] \in T!SecondLevel /\ c = <<c[1], c[2]>>
                    /\ c[1] \in Nat /\ c[2] \in Nat
  /\ \A k \in T!FirstLevel, l \in T!SecondLevel : <<k, l>> \in Cls
  /\ \A k \in T!FirstLevel : k \in Nat
  /\ \A l \in T!SecondLevel : l \in Nat
  BY DEF Cls, T!FirstLevel, T!SecondLevel

LEMMA LeastIs ==
  ASSUME NEW S \in SUBSET Nat, S # {}
  PROVE  T!Min(S) \in S /\ \A y \in S : T!Min(S) <= y
  <1>1. PICK m \in S : \A x \in Nat : x < m => x \notin S
    BY LeastIndex
  <1>2. \A y \in S : m <= y
    BY <1>1
  <1>3. QED
    BY <1>2 DEF T!Min

(* What findSuitableFreelist() finds is a class with a block, none before c and no
   such class lies between the two.                                        *)
Finds(t, c, f) ==
  /\ f \in Cls /\ t.heads[f] # T!NULL /\ T!NotAfter(c, f)
  /\ \A d \in Cls : t.heads[d] # T!NULL /\ T!NotAfter(c, d) => T!NotAfter(f, d)

LEMMA FindIs ==
  ASSUME NEW t \in TState, Marked(t), NEW c \in Cls
  PROVE  /\ \A f \in T!Find(t, c) : Finds(t, c, f) /\ T!Find(t, c) = {f}
         /\ T!Find(t, c) = {} => \A d \in Cls : t.heads[d] # T!NULL => ~T!NotAfter(c, d)
  <1> DEFINE here == {l \in t.l2[c[1]] : c[1] \in t.l1 /\ l >= c[2]}
             higher == {h \in t.l1 : h > c[1] /\ t.l2[h] # {}}
             f1 == <<c[1], T!Min(here)>>
             g == T!Min(higher)
             f2 == <<g, T!Min(t.l2[g])>>
  <1>1. /\ t.l1 \subseteq T!FirstLevel
        /\ \A l \in T!FirstLevel : t.l2[l] \subseteq T!SecondLevel /\ t.l2[l] \subseteq Nat
    BY ClsIs DEF TState
  <1>2. /\ here \subseteq T!SecondLevel /\ here \subseteq Nat
        /\ higher \subseteq T!FirstLevel /\ higher \subseteq Nat
    BY <1>1, ClsIs
  <1>3. \A d \in Cls : t.heads[d] # T!NULL /\ T!NotAfter(c, d) =>
          (d[1] = c[1] /\ d[2] \in here) \/ (d[1] \in higher /\ d[1] > c[1] /\ d[2] \in t.l2[d[1]])
    <2>1. ASSUME NEW d \in Cls, t.heads[d] # T!NULL, T!NotAfter(c, d)
          PROVE  (d[1] = c[1] /\ d[2] \in here)
                   \/ (d[1] \in higher /\ d[1] > c[1] /\ d[2] \in t.l2[d[1]])
      <3>1. d[2] \in t.l2[d[1]] /\ d[1] \in T!FirstLevel
        BY <2>1, ClsIs DEF Marked
      <3>2. d[1] \in t.l1 /\ t.l2[d[1]] # {}
        BY <3>1 DEF Marked
      <3>3. c[1] \in Nat /\ c[2] \in Nat /\ d[1] \in Nat /\ d[2] \in Nat
        BY ClsIs
      <3>4. CASE c[1] < d[1]
        BY <3>1, <3>2, <3>3, <3>4
      <3>5. CASE c[1] = d[1] /\ c[2] <= d[2]
        BY <3>1, <3>2, <3>3, <3>5
      <3>6. QED
        BY <2>1, <3>4, <3>5 DEF T!NotAfter
    <2>2. QED
      BY <2>1
  <1>4. CASE here # {}
    <2>1. T!Min(here) \in here /\ \A y \in here : T!Min(here) <= y
      BY <1>2, <1>4, LeastIs
    <2>2. T!Find(t, c) = {f1}
      BY <1>4 DEF T!Find
    <2>3. T!Min(here) \in t.l2[c[1]] /\ T!Min(here) >= c[2] /\ T!Min(here) \in T!SecondLevel
      BY <1>2, <2>1
    <2>4. f1 \in Cls /\ f1[1] = c[1] /\ f1[2] = T!Min(here)
      BY <2>3, ClsIs
    <2>5. t.heads[f1] # T!NULL /\ T!NotAfter(c, f1)
      BY <2>3, <2>4 DEF Marked, T!NotAfter
    <2>6. \A d \in Cls : t.heads[d] # T!NULL /\ T!NotAfter(c, d) => T!NotAfter(f1, d)
      BY <1>3, <2>1, <2>4, ClsIs DEF T!NotAfter
    <2>7. QED
      BY <2>2, <2>4, <2>5, <2>6 DEF Finds
  <1>5. CASE here = {} /\ higher # {}
    <2>1. g \in higher /\ \A y \in higher : g <= y
      BY <1>2, <1>5, LeastIs
    <2>2. g \in T!FirstLevel /\ t.l2[g] # {} /\ t.l2[g] \in SUBSET Nat /\ g > c[1]
      BY <1>1, <1>2, <2>1
    <2>3. T!Min(t.l2[g]) \in t.l2[g] /\ \A y \in t.l2[g] : T!Min(t.l2[g]) <= y
      BY <2>2, LeastIs
    <2>4. T!Find(t, c) = {f2}
      <3>1. \E x \in higher : TRUE
        BY <1>5
      <3>2. {T!Min(higher) : x \in higher} = {g}
        BY <3>1
      <3>3. QED
        BY <1>5, <3>2 DEF T!Find
    <2>5. f2 \in Cls /\ f2[1] = g /\ f2[2] = T!Min(t.l2[g])
      BY <1>1, <2>2, <2>3, ClsIs
    <2>6. t.heads[f2] # T!NULL /\ T!NotAfter(c, f2)
      BY <2>2, <2>3, <2>5 DEF Marked, T!NotAfter
    <2>7. \A d \in Cls : t.heads[d] # T!NULL /\ T!NotAfter(c, d) => T!NotAfter(f2, d)
      <3>1. ASSUME NEW d \in Cls, t.heads[d] # T!NULL /\ T!NotAfter(c, d)
            PROVE  T!NotAfter(f2, d)
        <4>1. d[1] \in higher /\ d[2] \in t.l2[d[1]] /\ d[1] \in Nat
          BY <1>3, <1>5, <3>1, ClsIs
        <4>2. g <= d[1] /\ g \in Nat
          BY <2>1, <2>2, <4>1, ClsIs
        <4>3. d[1] = g => T!Min(t.l2[g]) <= d[2]
          BY <2>3, <4>1
        <4>4. QED
          BY <2>5, <4>1, <4>2, <4>3 DEF T!NotAfter
      <3>2. QED
        BY <3>1
    <2>8. QED
      BY <2>4, <2>5, <2>6, <2>7 DEF Finds
  <1>6. CASE here = {} /\ higher = {}
    <2>1. {T!Min(higher) : x \in higher} = {}
      BY <1>6
    <2>2. T!Find(t, c) = {}
      BY <1>6, <2>1 DEF T!Find
    <2>3. QED
      BY <1>3, <1>6, <2>2
  <1>7. QED
    BY <1>4, <1>5, <1>6

-----------------------------------------------------------------------------
(* Tlsf: its lists. *)
K(t, i) == T!Class(t.nodes[i].size)

(* Along a list a number grows. *)
Ranked(t, F) ==
  \E r \in [T!Node -> Nat] :
    \A i \in F : t.nodes[i].next # T!NULL => r[i] < r[t.nodes[i].next]

(* The nodes of F are on the lists of their classes, and nothing else is. *)
Chains(t, F) ==
  /\ F \subseteq T!Node
  /\ \A i \in F : t.nodes[i].size \in T!MinSize .. T!Total
  /\ \A i \in F : t.nodes[i].next # T!NULL =>
       /\ t.nodes[i].next \in F /\ t.nodes[t.nodes[i].next].prev = i
       /\ K(t, t.nodes[i].next) = K(t, i)
  /\ \A i \in F : t.nodes[i].prev # T!NULL =>
       t.nodes[i].prev \in F /\ t.nodes[t.nodes[i].prev].next = i
  /\ \A i \in F : t.nodes[i].prev = T!NULL <=> t.heads[K(t, i)] = i
  /\ \A c \in Cls : t.heads[c] # T!NULL => t.heads[c] \in F /\ K(t, t.heads[c]) = c
  /\ Marked(t)
  /\ Ranked(t, F)

(* What a list is to the neighbours in memory, and the other way round. *)
SameBlocks(u, t, S) ==
  \A j \in S :
    /\ u.nodes[j].offset = t.nodes[j].offset /\ u.nodes[j].size = t.nodes[j].size
    /\ u.nodes[j].aoPrevious = t.nodes[j].aoPrevious /\ u.nodes[j].aoNext = t.nodes[j].aoNext
    /\ u.nodes[j].allocated = t.nodes[j].allocated

SameLists(u, t, S) ==
  /\ u.l1 = t.l1 /\ u.l2 = t.l2 /\ u.heads = t.heads
  /\ \A j \in S : /\ u.nodes[j].next = t.nodes[j].next /\ u.nodes[j].prev = t.nodes[j].prev
                  /\ u.nodes[j].size = t.nodes[j].size

LEMMA TNodeIs ==
  /\ T!NULL \notin T!Node /\ T!NULL \in T!Pointer /\ T!Node \subseteq T!Pointer
  /\ \A p \in T!Pointer : p # T!NULL => p \in T!Node
  /\ \A t \in TState, i \in T!Node :
       /\ t.nodes[i] \in TNode
       /\ t.nodes[i].next \in T!Pointer /\ t.nodes[i].prev \in T!Pointer
       /\ t.nodes[i].aoNext \in T!Pointer /\ t.nodes[i].aoPrevious \in T!Pointer
       /\ t.nodes[i].size \in 0 .. T!Total /\ t.nodes[i].allocated \in BOOLEAN
       /\ t.nodes[i].offset \in (0 .. T!Total) \cup {T!NULL}
  <1>1. T!NULL \notin T!Node
    BY TlsfConstantsAre DEF T!Node
  <1>2. \A t \in TState, i \in T!Node : t.nodes[i] \in TNode
    BY DEF TState
  <1>3. QED
    BY <1>1, <1>2 DEF T!Pointer, TNode

LEMMA ChainsStay ==
  ASSUME NEW t \in TState, NEW u \in TState, NEW F, Chains(t, F), SameLists(u, t, F)
  PROVE  Chains(u, F)
  <1>1. /\ F \subseteq T!Node
        /\ \A i \in F : K(u, i) = K(t, i)
    BY DEF Chains, SameLists, K
  <1>2. Ranked(u, F)
    <2>1. PICK r \in [T!Node -> Nat] :
            \A i \in F : t.nodes[i].next # T!NULL => r[i] < r[t.nodes[i].next]
      BY DEF Chains, Ranked
    <2>2. \A i \in F : u.nodes[i].next # T!NULL => r[i] < r[u.nodes[i].next]
      BY <2>1 DEF SameLists
    <2>3. QED
      BY <2>2 DEF Ranked
  <1>3. Marked(u)
    BY DEF Chains, Marked, SameLists
  <1>4. QED
    BY <1>1, <1>2, <1>3 DEF Chains, SameLists

(* Fewer nodes need no other numbers. *)
LEMMA RankedPart ==
  ASSUME NEW t, NEW F, NEW u, NEW G, Ranked(t, F), G \subseteq F,
         \A i \in G : u.nodes[i].next = t.nodes[i].next
  PROVE  Ranked(u, G)
  <1>1. PICK r \in [T!Node -> Nat] :
          \A i \in F : t.nodes[i].next # T!NULL => r[i] < r[t.nodes[i].next]
    BY DEF Ranked
  <1>2. \A i \in G : u.nodes[i].next # T!NULL => r[i] < r[u.nodes[i].next]
    BY <1>1
  <1>3. QED
    BY <1>2 DEF Ranked

(* The node of a block is before no node on its list twice. *)
LEMMA NextIsAnother ==
  ASSUME NEW t \in TState, NEW F, Chains(t, F), NEW i \in F
  PROVE  /\ i \in T!Node /\ t.nodes[i].next # i /\ t.nodes[i].prev # i
         /\ t.nodes[i].next # T!NULL => t.nodes[i].next # t.nodes[i].prev
  <1>1. PICK r \in [T!Node -> Nat] :
          \A j \in F : t.nodes[j].next # T!NULL => r[j] < r[t.nodes[j].next]
    BY DEF Chains, Ranked
  <1>2. i \in T!Node /\ r[i] \in Nat /\ i # T!NULL
    BY TNodeIs DEF Chains
  <1>3. t.nodes[i].next # i
    BY <1>1, <1>2
  <1>4. t.nodes[i].prev # i
    BY <1>2, <1>3 DEF Chains
  <1>5. ASSUME t.nodes[i].next # T!NULL, t.nodes[i].next = t.nodes[i].prev
        PROVE  FALSE
    <2> DEFINE p == t.nodes[i].next
    <2>1. p \in F /\ p \in T!Node /\ t.nodes[p].next = i
      BY <1>5 DEF Chains
    <2>2. r[i] < r[p] /\ r[p] < r[i] /\ r[p] \in Nat
      BY <1>1, <1>2, <1>5, <2>1
    <2>3. QED
      BY <1>2, <2>2
  <1>6. QED
    BY <1>2, <1>3, <1>4, <1>5

LEMMA EmptyListIs ==
  ASSUME NEW t \in TState, NEW c \in Cls, Marked(t), NEW u, u = T!EmptyList(t, c)
  PROVE  /\ u \in TState /\ u.nodes = t.nodes /\ u.store = t.store
         /\ u.heads = [t.heads EXCEPT ![c] = T!NULL] /\ Marked(u)
  <1> DEFINE rest == t.l2[c[1]] \ {c[2]}
  <1>1. /\ u.nodes = t.nodes /\ u.store = t.store
        /\ u.heads = [t.heads EXCEPT ![c] = T!NULL]
        /\ u.l2 = [t.l2 EXCEPT ![c[1]] = rest]
        /\ u.l1 = IF rest = {} THEN t.l1 \ {c[1]} ELSE t.l1
        /\ u = [l1 |-> u.l1, l2 |-> u.l2, heads |-> u.heads, nodes |-> u.nodes, store |-> u.store]
    BY DEF T!EmptyList, TState
  <1>2. /\ t.l1 \in SUBSET T!FirstLevel /\ t.l2 \in [T!FirstLevel -> SUBSET T!SecondLevel]
        /\ t.heads \in [Cls -> T!Pointer] /\ t.nodes \in [T!Node -> TNode]
        /\ t.store \in Seq(T!Node) /\ c[1] \in T!FirstLevel
    BY ClsIs DEF TState
  <1>3. rest \in SUBSET T!SecondLevel
    BY <1>2
  <1>4. /\ u.l1 \in SUBSET T!FirstLevel /\ u.l2 \in [T!FirstLevel -> SUBSET T!SecondLevel]
        /\ u.heads \in [Cls -> T!Pointer]
    BY <1>1, <1>2, <1>3, TNodeIs
  <1>5. u \in TState
    BY <1>1, <1>2, <1>4 DEF TState
  <1>6. \A d \in Cls : d[2] \in u.l2[d[1]] <=> u.heads[d] # T!NULL
    <2>1. ASSUME NEW d \in Cls
          PROVE  d[2] \in u.l2[d[1]] <=> u.heads[d] # T!NULL
      <3>1. d[1] \in T!FirstLevel /\ d = <<d[1], d[2]>> /\ c = <<c[1], c[2]>>
        BY ClsIs
      <3>2. d[2] \in t.l2[d[1]] <=> t.heads[d] # T!NULL
        BY DEF Marked
      <3>3. CASE d = c
        BY <1>1, <1>2, <3>3
      <3>4. CASE d # c /\ d[1] = c[1]
        <4>1. d[2] # c[2]
          BY <3>1, <3>4
        <4>2. u.heads[d] = t.heads[d] /\ u.l2[d[1]] = rest
          BY <1>1, <1>2, <3>1, <3>4
        <4>3. QED
          BY <3>2, <3>4, <4>1, <4>2
      <3>5. CASE d # c /\ d[1] # c[1]
        BY <1>1, <1>2, <3>1, <3>2, <3>5
      <3>6. QED
        BY <3>3, <3>4, <3>5
    <2>2. QED
      BY <2>1
  <1>7. \A l \in T!FirstLevel : l \in u.l1 <=> u.l2[l] # {}
    <2>1. ASSUME NEW l \in T!FirstLevel
          PROVE  l \in u.l1 <=> u.l2[l] # {}
      <3>1. l \in t.l1 <=> t.l2[l] # {}
        BY DEF Marked
      <3>2. CASE l = c[1]
        <4>1. u.l2[l] = rest
          BY <1>1, <1>2, <3>2
        <4>2. rest # {} => t.l2[l] # {}
          BY <3>2
        <4>3. QED
          BY <1>1, <3>1, <3>2, <4>1, <4>2
      <3>3. CASE l # c[1]
        BY <1>1, <1>2, <3>1, <3>3
      <3>4. QED
        BY <3>2, <3>3
    <2>2. QED
      BY <2>1
  <1>8. QED
    BY <1>1, <1>5, <1>6, <1>7 DEF Marked

(* Node i is on no list any more, and its neighbours on the list know each other. *)
Unlinks(u, t, i) ==
  /\ u \in TState /\ u.store = t.store /\ SameBlocks(u, t, T!Node) /\ Marked(u)
  /\ \A j \in T!Node : u.nodes[j].next =
       IF j = t.nodes[i].prev THEN t.nodes[i].next ELSE t.nodes[j].next
  /\ \A j \in T!Node : u.nodes[j].prev =
       IF j = t.nodes[i].next THEN t.nodes[i].prev ELSE t.nodes[j].prev
  /\ u.heads = IF t.nodes[i].prev = T!NULL THEN [t.heads EXCEPT ![K(t, i)] = t.nodes[i].next]
               ELSE t.heads

LEMMA KIs ==
  ASSUME NEW t \in TState, NEW F, Chains(t, F), NEW i \in F
  PROVE  K(t, i) \in Cls
  <1>1. t.nodes[i].size \in T!MinSize .. T!Total
    BY DEF Chains
  <1>2. QED
    BY <1>1, ClassIs DEF K

LEMMA UnlinkedIs ==
  ASSUME NEW t \in TState, NEW F, Chains(t, F), NEW i \in F, NEW u, Unlinks(u, t, i)
  PROVE  Chains(u, F \ {i})
  <1> DEFINE G == F \ {i}
             p == t.nodes[i].prev
             x == t.nodes[i].next
             c == K(t, i)
  <1>1. /\ F \subseteq T!Node /\ G \subseteq F /\ i \in T!Node /\ c \in Cls
        /\ p \in T!Pointer /\ x \in T!Pointer /\ T!NULL \notin T!Node
        /\ \A j \in F : j # T!NULL
    BY KIs, TNodeIs DEF Chains
  <1>2. /\ \A j \in F : u.nodes[j].next = IF j = p THEN x ELSE t.nodes[j].next
        /\ \A j \in F : u.nodes[j].prev = IF j = x THEN p ELSE t.nodes[j].prev
        /\ \A j \in F : u.nodes[j].size = t.nodes[j].size /\ K(u, j) = K(t, j)
        /\ u.heads = IF p = T!NULL THEN [t.heads EXCEPT ![c] = x] ELSE t.heads
        /\ t.heads \in [Cls -> T!Pointer]
    BY <1>1 DEF Unlinks, SameBlocks, K, TState
  <1>3. /\ \A j \in F : t.nodes[j].next # T!NULL =>
             /\ t.nodes[j].next \in F /\ t.nodes[t.nodes[j].next].prev = j
             /\ K(t, t.nodes[j].next) = K(t, j)
        /\ \A j \in F : t.nodes[j].prev # T!NULL =>
             t.nodes[j].prev \in F /\ t.nodes[t.nodes[j].prev].next = j
        /\ \A j \in F : t.nodes[j].prev = T!NULL <=> t.heads[K(t, j)] = j
        /\ \A d \in Cls : t.heads[d] # T!NULL => t.heads[d] \in F /\ K(t, t.heads[d]) = d
        /\ \A j \in F : t.nodes[j].size \in T!MinSize .. T!Total
        /\ \A j \in F : K(t, j) \in Cls
    BY KIs DEF Chains
  <1>4. x # i /\ p # i /\ (x # T!NULL => x # p)
    BY NextIsAnother
  <1>5. x # T!NULL => x \in G /\ t.nodes[x].prev = i /\ K(t, x) = c
    BY <1>3, <1>4
  <1>6. p # T!NULL => p \in G /\ t.nodes[p].next = i /\ K(t, p) = c
    BY <1>1, <1>3, <1>4
  <1>7. ASSUME NEW j \in G
        PROVE  /\ u.nodes[j].next # T!NULL =>
                    /\ u.nodes[j].next \in G /\ u.nodes[u.nodes[j].next].prev = j
                    /\ K(u, u.nodes[j].next) = K(u, j)
               /\ u.nodes[j].prev # T!NULL =>
                    u.nodes[j].prev \in G /\ u.nodes[u.nodes[j].prev].next = j
               /\ u.nodes[j].prev = T!NULL <=> u.heads[K(u, j)] = j
    <2> DEFINE a == t.nodes[j].next
               b == t.nodes[j].prev
    <2>1. j \in F /\ j # i /\ j # T!NULL
      BY <1>1
    <2>2. j # p => a # i
      BY <1>1, <1>3, <2>1
    <2>3. j # x => b # i
      BY <1>1, <1>3, <2>1
    <2>4. u.nodes[j].next # T!NULL =>
            /\ u.nodes[j].next \in G /\ u.nodes[u.nodes[j].next].prev = j
            /\ K(u, u.nodes[j].next) = K(u, j)
      <3>1. CASE j = p
        BY <1>1, <1>2, <1>5, <1>6, <2>1, <3>1
      <3>2. CASE j # p
        <4>1. u.nodes[j].next = a
          BY <1>2, <2>1, <3>2
        <4>2. a # T!NULL => a \in G /\ t.nodes[a].prev = j /\ K(t, a) = K(t, j)
          BY <1>3, <2>1, <2>2, <3>2
        <4>3. a # T!NULL => a # x
          BY <1>5, <2>1, <4>2
        <4>4. QED
          BY <1>1, <1>2, <2>1, <4>1, <4>2, <4>3
      <3>3. QED
        BY <3>1, <3>2
    <2>5. u.nodes[j].prev # T!NULL => u.nodes[j].prev \in G /\ u.nodes[u.nodes[j].prev].next = j
      <3>1. CASE j = x
        BY <1>1, <1>2, <1>5, <1>6, <2>1, <3>1
      <3>2. CASE j # x
        <4>1. u.nodes[j].prev = b
          BY <1>2, <2>1, <3>2
        <4>2. b # T!NULL => b \in G /\ t.nodes[b].next = j
          BY <1>3, <2>1, <2>3, <3>2
        <4>3. b # T!NULL => b # p
          BY <1>6, <2>1, <4>2
        <4>4. QED
          BY <1>1, <1>2, <2>1, <4>1, <4>2, <4>3
      <3>3. QED
        BY <3>1, <3>2
    <2>6. u.nodes[j].prev = T!NULL <=> u.heads[K(u, j)] = j
      <3>1. K(u, j) = K(t, j) /\ K(t, j) \in Cls
        BY <1>2, <1>3, <2>1
      <3>2. CASE j = x
        <4>1. u.nodes[j].prev = p /\ K(t, j) = c /\ t.nodes[j].prev = i
          BY <1>2, <1>5, <2>1, <3>2
        <4>2. CASE p = T!NULL
          <5>1. u.heads[c] = x
            BY <1>1, <1>2, <4>2
          <5>2. QED
            BY <3>1, <3>2, <4>1, <4>2, <5>1
        <4>3. CASE p # T!NULL
          <5>1. t.heads[K(t, j)] # j
            BY <1>1, <1>3, <2>1, <4>1
          <5>2. QED
            BY <1>2, <3>1, <4>1, <4>3, <5>1
        <4>4. QED
          BY <4>2, <4>3
      <3>3. CASE j # x
        <4>1. u.nodes[j].prev = b /\ (b = T!NULL <=> t.heads[K(t, j)] = j)
          BY <1>2, <1>3, <2>1, <3>3
        <4>2. CASE p = T!NULL /\ K(t, j) = c
          <5>1. t.heads[c] = i /\ u.heads[c] = x
            BY <1>1, <1>2, <1>3, <4>2
          <5>2. QED
            BY <2>1, <3>1, <3>3, <4>1, <4>2, <5>1
        <4>3. CASE ~(p = T!NULL /\ K(t, j) = c)
          <5>1. u.heads[K(t, j)] = t.heads[K(t, j)]
            BY <1>1, <1>2, <3>1, <4>3
          <5>2. QED
            BY <3>1, <4>1, <5>1
        <4>4. QED
          BY <4>2, <4>3
      <3>4. QED
        BY <3>2, <3>3
    <2>7. QED
      BY <2>4, <2>5, <2>6
  <1>8. \A d \in Cls : u.heads[d] # T!NULL => u.heads[d] \in G /\ K(u, u.heads[d]) = d
    <2>1. ASSUME NEW d \in Cls, u.heads[d] # T!NULL
          PROVE  u.heads[d] \in G /\ K(u, u.heads[d]) = d
      <3>1. CASE p = T!NULL /\ d = c
        <4>1. u.heads[d] = x
          BY <1>1, <1>2, <3>1
        <4>2. QED
          BY <1>1, <1>2, <1>5, <2>1, <3>1, <4>1
      <3>2. CASE ~(p = T!NULL /\ d = c)
        <4>1. u.heads[d] = t.heads[d]
          BY <1>1, <1>2, <2>1, <3>2
        <4>2. t.heads[d] \in F /\ K(t, t.heads[d]) = d
          BY <1>3, <2>1, <4>1
        <4>3. t.heads[d] # i
          BY <1>1, <1>3, <3>2, <4>2
        <4>4. QED
          BY <1>2, <4>1, <4>2, <4>3
      <3>3. QED
        BY <3>1, <3>2
    <2>2. QED
      BY <2>1
  <1>9. Ranked(u, G)
    <2>1. PICK r \in [T!Node -> Nat] :
            \A j \in F : t.nodes[j].next # T!NULL => r[j] < r[t.nodes[j].next]
      BY DEF Chains, Ranked
    <2>2. ASSUME NEW j \in G, u.nodes[j].next # T!NULL
          PROVE  r[j] < r[u.nodes[j].next]
      <3>1. CASE j = p
        <4>1. u.nodes[j].next = x /\ t.nodes[p].next = i /\ x # T!NULL /\ p \in F /\ x \in F
          BY <1>1, <1>2, <1>5, <1>6, <2>2, <3>1
        <4>2. r[p] < r[i] /\ r[i] < r[x]
          BY <1>1, <2>1, <4>1
        <4>3. r[p] \in Nat /\ r[i] \in Nat /\ r[x] \in Nat
          BY <1>1, <2>1, <4>1
        <4>4. QED
          BY <3>1, <4>1, <4>2, <4>3
      <3>2. CASE j # p
        BY <1>1, <1>2, <2>1, <2>2, <3>2
      <3>3. QED
        BY <3>1, <3>2
    <2>3. QED
      BY <2>1, <2>2 DEF Ranked
  <1>10. G \subseteq T!Node /\ \A j \in G : u.nodes[j].size \in T!MinSize .. T!Total
    BY <1>1, <1>2, <1>3
  <1>11. Marked(u)
    BY DEF Unlinks
  <1>12. QED
    BY <1>7, <1>8, <1>9, <1>10, <1>11 DEF Chains

(* What two nodes have in common but one link. *)
AlikeButNext(m, n) ==
  /\ m.offset = n.offset /\ m.size = n.size /\ m.prev = n.prev
  /\ m.aoPrevious = n.aoPrevious /\ m.aoNext = n.aoNext /\ m.allocated = n.allocated
AlikeButPrev(m, n) ==
  /\ m.offset = n.offset /\ m.size = n.size /\ m.next = n.next
  /\ m.aoPrevious = n.aoPrevious /\ m.aoNext = n.aoNext /\ m.allocated = n.allocated

LEMMA LinkSet ==
  ASSUME NEW n \in TNode, NEW p \in T!Pointer
  PROVE  /\ [n EXCEPT !.prev = p] \in TNode
         /\ [n EXCEPT !.prev = p].prev = p /\ AlikeButPrev([n EXCEPT !.prev = p], n)
         /\ [n EXCEPT !.next = p] \in TNode
         /\ [n EXCEPT !.next = p].next = p /\ AlikeButNext([n EXCEPT !.next = p], n)
  BY DEF TNode, AlikeButNext, AlikeButPrev

LEMMA TakeHeadIs ==
  ASSUME NEW t \in TState, NEW F, Chains(t, F), NEW i \in F, t.nodes[i].prev = T!NULL,
         NEW u, u = T!TakeHead(t, K(t, i), t.nodes[i].next)
  PROVE  Unlinks(u, t, i)
  <1> DEFINE x == t.nodes[i].next
             c == K(t, i)
  <1>1. i \in T!Node /\ c \in Cls /\ x \in T!Pointer /\ T!NULL \notin T!Node /\ Marked(t)
    BY KIs, TNodeIs DEF Chains
  <1>2. t.heads[c] = i /\ (x # T!NULL => x \in T!Node)
    BY <1>1, TNodeIs DEF Chains
  <1>3. CASE x = T!NULL
    <2>1. u = T!EmptyList(t, c)
      BY <1>3 DEF T!TakeHead
    <2>2. /\ u \in TState /\ u.nodes = t.nodes /\ u.store = t.store
          /\ u.heads = [t.heads EXCEPT ![c] = T!NULL] /\ Marked(u)
      BY <1>1, <2>1, EmptyListIs
    <2>3. QED
      BY <1>1, <1>3, <2>2 DEF Unlinks, SameBlocks
  <1>4. CASE x # T!NULL
    <2>1. x \in T!Node
      BY <1>2, <1>4
    <2>2. /\ u.l1 = t.l1 /\ u.l2 = t.l2 /\ u.store = t.store
          /\ u.heads = [t.heads EXCEPT ![c] = x]
          /\ u.nodes = [t.nodes EXCEPT ![x].prev = T!NULL]
          /\ u = [l1 |-> u.l1, l2 |-> u.l2, heads |-> u.heads, nodes |-> u.nodes, store |-> u.store]
      BY <1>4 DEF T!TakeHead, TState
    <2>3. /\ t.nodes \in [T!Node -> TNode] /\ t.heads \in [Cls -> T!Pointer]
          /\ t.l1 \in SUBSET T!FirstLevel /\ t.l2 \in [T!FirstLevel -> SUBSET T!SecondLevel]
          /\ t.store \in Seq(T!Node)
      BY DEF TState
    <2>4. u.nodes \in [T!Node -> TNode]
      <3>1. [t.nodes[x] EXCEPT !.prev = T!NULL] \in TNode
        BY <2>1, <2>3, TNodeIs, LinkSet
      <3>2. u.nodes = [t.nodes EXCEPT ![x] = [t.nodes[x] EXCEPT !.prev = T!NULL]]
        BY <2>2
      <3>3. QED
        BY <2>3, <3>1, <3>2
    <2>5. u.heads \in [Cls -> T!Pointer]
      BY <1>1, <2>2, <2>3
    <2>6. u \in TState
      BY <2>2, <2>3, <2>4, <2>5 DEF TState
    <2>7. \A j \in T!Node :
            /\ u.nodes[j].prev = IF j = x THEN T!NULL ELSE t.nodes[j].prev
            /\ u.nodes[j].next = t.nodes[j].next
            /\ u.nodes[j].offset = t.nodes[j].offset /\ u.nodes[j].size = t.nodes[j].size
            /\ u.nodes[j].aoPrevious = t.nodes[j].aoPrevious
            /\ u.nodes[j].aoNext = t.nodes[j].aoNext
            /\ u.nodes[j].allocated = t.nodes[j].allocated
      BY <2>1, <2>2, <2>3 DEF TNode
    <2>8. Marked(u)
      <3>1. \A d \in Cls : u.heads[d] # T!NULL <=> t.heads[d] # T!NULL
        BY <1>1, <1>2, <1>4, <2>2, <2>3
      <3>2. QED
        BY <1>1, <2>2, <3>1 DEF Marked
    <2>9. QED
      BY <1>1, <2>2, <2>6, <2>7, <2>8 DEF Unlinks, SameBlocks
  <1>5. QED
    BY <1>3, <1>4

LEMMA TakeInnerIs ==
  ASSUME NEW t \in TState, NEW F, Chains(t, F), NEW i \in F, t.nodes[i].prev # T!NULL,
         NEW u, u = T!TakeInner(t, t.nodes[i])
  PROVE  Unlinks(u, t, i)
  <1> DEFINE x == t.nodes[i].next
             p == t.nodes[i].prev
             a == IF x = T!NULL THEN t.nodes ELSE [t.nodes EXCEPT ![x].prev = p]
  <1>1. /\ i \in T!Node /\ x \in T!Pointer /\ T!NULL \notin T!Node /\ Marked(t) /\ p \in T!Node
        /\ (x # T!NULL => x \in T!Node /\ x # p)
    BY NextIsAnother, TNodeIs DEF Chains
  <1>2. /\ t.nodes \in [T!Node -> TNode] /\ t.heads \in [Cls -> T!Pointer]
        /\ t.l1 \in SUBSET T!FirstLevel /\ t.l2 \in [T!FirstLevel -> SUBSET T!SecondLevel]
        /\ t.store \in Seq(T!Node)
    BY DEF TState
  <1>3. /\ u.l1 = t.l1 /\ u.l2 = t.l2 /\ u.store = t.store /\ u.heads = t.heads
        /\ u.nodes = [a EXCEPT ![p].next = x]
        /\ u = [l1 |-> u.l1, l2 |-> u.l2, heads |-> u.heads, nodes |-> u.nodes, store |-> u.store]
    BY DEF T!TakeInner, TState
  <1>4. a \in [T!Node -> TNode] /\ \A j \in T!Node :
          a[j] = IF j = x THEN [t.nodes[j] EXCEPT !.prev = p] ELSE t.nodes[j]
    <2>1. CASE x = T!NULL
      BY <1>1, <1>2, <2>1
    <2>2. CASE x # T!NULL
      <3>1. [t.nodes[x] EXCEPT !.prev = p] \in TNode
        BY <1>1, <1>2, <2>2, TNodeIs, LinkSet
      <3>2. a = [t.nodes EXCEPT ![x] = [t.nodes[x] EXCEPT !.prev = p]]
        BY <2>2
      <3>3. QED
        BY <1>1, <1>2, <2>2, <3>1, <3>2
    <2>3. QED
      BY <2>1, <2>2
  <1>5. u.nodes \in [T!Node -> TNode] /\ \A j \in T!Node :
          u.nodes[j] = IF j = p THEN [a[j] EXCEPT !.next = x] ELSE a[j]
    <2> HIDE DEF a
    <2>1. [a[p] EXCEPT !.next = x] \in TNode
      BY <1>1, <1>4, TNodeIs DEF TNode
    <2>2. u.nodes = [a EXCEPT ![p] = [a[p] EXCEPT !.next = x]]
      BY <1>3
    <2>3. QED
      BY <1>1, <1>4, <2>1, <2>2
  <1>6. \A j \in T!Node :
          /\ u.nodes[j].prev = IF j = x THEN p ELSE t.nodes[j].prev
          /\ u.nodes[j].next = IF j = p THEN x ELSE t.nodes[j].next
          /\ u.nodes[j].offset = t.nodes[j].offset /\ u.nodes[j].size = t.nodes[j].size
          /\ u.nodes[j].aoPrevious = t.nodes[j].aoPrevious
          /\ u.nodes[j].aoNext = t.nodes[j].aoNext
          /\ u.nodes[j].allocated = t.nodes[j].allocated
    <2> HIDE DEF a
    <2>1. ASSUME NEW j \in T!Node
          PROVE  /\ u.nodes[j].next = (IF j = p THEN x ELSE a[j].next)
                 /\ AlikeButNext(u.nodes[j], a[j])
      <3>1. AlikeButNext(a[j], a[j]) /\ a[j] \in TNode
        BY <1>4 DEF AlikeButNext
      <3>2. x \in T!Pointer
        BY <1>1
      <3>3. u.nodes[j] = IF j = p THEN [a[j] EXCEPT !.next = x] ELSE a[j]
        BY <1>5
      <3>4. /\ [a[j] EXCEPT !.next = x].next = x
            /\ AlikeButNext([a[j] EXCEPT !.next = x], a[j])
        BY <3>1, <3>2, LinkSet
      <3>5. QED
        BY <3>1, <3>3, <3>4
    <2>2. ASSUME NEW j \in T!Node
          PROVE  /\ a[j].prev = (IF j = x THEN p ELSE t.nodes[j].prev)
                 /\ AlikeButPrev(a[j], t.nodes[j])
      <3>1. p \in T!Pointer /\ t.nodes[j] \in TNode
        BY <1>1, TNodeIs
      <3>2. AlikeButPrev(t.nodes[j], t.nodes[j])
        BY DEF AlikeButPrev
      <3>3. a[j] = IF j = x THEN [t.nodes[j] EXCEPT !.prev = p] ELSE t.nodes[j]
        BY <1>4
      <3>4. /\ [t.nodes[j] EXCEPT !.prev = p].prev = p
            /\ AlikeButPrev([t.nodes[j] EXCEPT !.prev = p], t.nodes[j])
        BY <3>1, LinkSet
      <3>5. QED
        BY <3>2, <3>3, <3>4
    <2>3. QED
      BY <2>1, <2>2 DEF AlikeButNext, AlikeButPrev
  <1>7. u \in TState /\ Marked(u)
    BY <1>1, <1>2, <1>3, <1>5 DEF TState, Marked
  <1>8. QED
    BY <1>1, <1>3, <1>6, <1>7 DEF Unlinks, SameBlocks

LEMMA UnusedIs ==
  /\ T!Unused \in TNode /\ T!Unused.offset = T!NULL /\ ~T!Unused.allocated
  <1>1. T!NULL \in T!Pointer /\ 0 \in 0 .. T!Total
    BY TNodeIs, TlsfConstantsAre
  <1>2. QED
    BY <1>1 DEF T!Unused, TNode

LEMMA RemoveNodeIs ==
  ASSUME NEW t \in TState, NEW F, Chains(t, F), NEW i \in F, NEW u, u = T!RemoveNode(t, i)
  PROVE  /\ u \in TState /\ Chains(u, F \ {i}) /\ u.store = Append(t.store, i)
         /\ u.nodes[i] = T!Unused /\ SameBlocks(u, t, T!Node \ {i})
  <1> DEFINE n == t.nodes[i]
             out == IF n.prev = T!NULL THEN T!TakeHead(t, T!Class(n.size), n.next)
                    ELSE T!TakeInner(t, n)
  <1>1. Unlinks(out, t, i)
    BY TakeHeadIs, TakeInnerIs DEF K
  <1>2. out \in TState /\ Chains(out, F \ {i}) /\ i \in T!Node
    <2>1. out \in TState /\ i \in T!Node
      BY <1>1 DEF Unlinks, Chains
    <2>2. QED
      BY <1>1, <2>1, UnlinkedIs
  <1>3. /\ out.nodes \in [T!Node -> TNode] /\ out.store \in Seq(T!Node)
        /\ out.heads \in [Cls -> T!Pointer] /\ out.l1 \in SUBSET T!FirstLevel
        /\ out.l2 \in [T!FirstLevel -> SUBSET T!SecondLevel]
    BY <1>2 DEF TState
  <1>4. u = [out EXCEPT !.nodes[i] = T!Unused, !.store = Append(@, i)]
    BY DEF T!RemoveNode
  <1>5. SameBlocks(out, t, T!Node) /\ out.store = t.store
    BY <1>1 DEF Unlinks
  <1> HIDE DEF out
  <1>6. /\ u.l1 = out.l1 /\ u.l2 = out.l2 /\ u.heads = out.heads
        /\ u.store = Append(out.store, i)
        /\ u.nodes = [out.nodes EXCEPT ![i] = T!Unused]
        /\ u = [l1 |-> u.l1, l2 |-> u.l2, heads |-> u.heads, nodes |-> u.nodes, store |-> u.store]
    BY <1>2, <1>4 DEF TState
  <1>7. u.nodes \in [T!Node -> TNode] /\ u.store \in Seq(T!Node)
    BY <1>2, <1>3, <1>6, UnusedIs
  <1>8. u \in TState
    BY <1>3, <1>6, <1>7 DEF TState
  <1>9. u.nodes[i] = T!Unused /\ \A j \in T!Node \ {i} : u.nodes[j] = out.nodes[j]
    BY <1>2, <1>3, <1>6
  <1>10. Chains(u, F \ {i})
    <2>1. SameLists(u, out, F \ {i})
      BY <1>2, <1>6, <1>9 DEF SameLists, Chains
    <2>2. QED
      BY <1>2, <1>8, <2>1, ChainsStay
  <1>11. SameBlocks(u, t, T!Node \ {i})
    BY <1>5, <1>9 DEF SameBlocks
  <1>12. QED
    BY <1>5, <1>6, <1>8, <1>9, <1>10, <1>11

(* Node i is the head of the list of its class, and holds a block of that size at
   that offset.                                                            *)
Inserts(u, t, i, size, offset) ==
  /\ u \in TState /\ u.store = T!Front(t.store) /\ Marked(u)
  /\ u.heads = [t.heads EXCEPT ![T!Class(size)] = i]
  /\ u.nodes[i].next = t.heads[T!Class(size)] /\ u.nodes[i].prev = T!NULL
  /\ u.nodes[i].size = size /\ u.nodes[i].offset = offset
  /\ u.nodes[i].aoPrevious = t.nodes[i].aoPrevious /\ u.nodes[i].aoNext = t.nodes[i].aoNext
  /\ u.nodes[i].allocated = t.nodes[i].allocated
  /\ SameBlocks(u, t, T!Node \ {i})
  /\ \A j \in T!Node \ {i} :
       /\ u.nodes[j].next = t.nodes[j].next
       /\ u.nodes[j].prev = IF j = t.heads[T!Class(size)] THEN i ELSE t.nodes[j].prev

LEMMA InsertedIs ==
  ASSUME NEW t \in TState, NEW F, Chains(t, F), NEW i \in T!Node, i \notin F,
         NEW size \in T!MinSize .. T!Total, NEW offset, NEW u, Inserts(u, t, i, size, offset)
  PROVE  Chains(u, F \cup {i})
  <1> DEFINE G == F \cup {i}
             c == T!Class(size)
             head == t.heads[c]
  <1>1. /\ c \in Cls /\ head \in T!Pointer /\ i # T!NULL /\ F \subseteq T!Node /\ G \subseteq T!Node
        /\ \A j \in F : j # T!NULL /\ j # i /\ j \in T!Node
        /\ t.heads \in [Cls -> T!Pointer]
    BY ClassIs, TNodeIs DEF Chains, TState
  <1>2. /\ \A j \in F : t.nodes[j].next # T!NULL =>
             /\ t.nodes[j].next \in F /\ t.nodes[t.nodes[j].next].prev = j
             /\ K(t, t.nodes[j].next) = K(t, j)
        /\ \A j \in F : t.nodes[j].prev # T!NULL =>
             t.nodes[j].prev \in F /\ t.nodes[t.nodes[j].prev].next = j
        /\ \A j \in F : t.nodes[j].prev = T!NULL <=> t.heads[K(t, j)] = j
        /\ \A d \in Cls : t.heads[d] # T!NULL => t.heads[d] \in F /\ K(t, t.heads[d]) = d
        /\ \A j \in F : t.nodes[j].size \in T!MinSize .. T!Total
        /\ \A j \in F : K(t, j) \in Cls
    BY KIs DEF Chains
  <1>3. /\ \A j \in F : u.nodes[j].next = t.nodes[j].next
        /\ \A j \in F : u.nodes[j].prev = IF j = head THEN i ELSE t.nodes[j].prev
        /\ \A j \in F : u.nodes[j].size = t.nodes[j].size /\ K(u, j) = K(t, j)
        /\ u.nodes[i].next = head /\ u.nodes[i].prev = T!NULL
        /\ u.nodes[i].size = size /\ K(u, i) = c
        /\ u.heads = [t.heads EXCEPT ![c] = i]
    BY <1>1 DEF Inserts, SameBlocks, K
  <1>4. head # T!NULL => head \in F /\ K(t, head) = c /\ t.nodes[head].prev = T!NULL
    BY <1>1, <1>2
  <1>5. u.heads[c] = i /\ \A d \in Cls : d # c => u.heads[d] = t.heads[d]
    BY <1>1, <1>3
  <1>6. ASSUME NEW j \in F
        PROVE  /\ u.nodes[j].next # T!NULL =>
                    /\ u.nodes[j].next \in G /\ u.nodes[u.nodes[j].next].prev = j
                    /\ K(u, u.nodes[j].next) = K(u, j)
               /\ u.nodes[j].prev # T!NULL =>
                    u.nodes[j].prev \in G /\ u.nodes[u.nodes[j].prev].next = j
               /\ u.nodes[j].prev = T!NULL <=> u.heads[K(u, j)] = j
    <2>1. u.nodes[j].next # T!NULL =>
            /\ u.nodes[j].next \in G /\ u.nodes[u.nodes[j].next].prev = j
            /\ K(u, u.nodes[j].next) = K(u, j)
      <3> DEFINE y == t.nodes[j].next
      <3>1. u.nodes[j].next = y
        BY <1>3
      <3>2. y # T!NULL => y \in F /\ t.nodes[y].prev = j /\ K(t, y) = K(t, j)
        BY <1>2
      <3>3. y # T!NULL => y # head
        BY <1>1, <1>4, <3>2
      <3>4. QED
        BY <1>3, <3>1, <3>2, <3>3
    <2>2. u.nodes[j].prev # T!NULL => u.nodes[j].prev \in G /\ u.nodes[u.nodes[j].prev].next = j
      <3>1. CASE j = head
        BY <1>3, <3>1
      <3>2. CASE j # head
        BY <1>2, <1>3, <3>2
      <3>3. QED
        BY <3>1, <3>2
    <2>3. u.nodes[j].prev = T!NULL <=> u.heads[K(u, j)] = j
      <3>1. CASE j = head
        <4>1. K(u, j) = c /\ u.nodes[j].prev = i
          BY <1>1, <1>3, <1>4, <3>1
        <4>2. QED
          BY <1>1, <1>5, <4>1
      <3>2. CASE j # head
        <4>1. /\ u.nodes[j].prev = t.nodes[j].prev /\ K(u, j) = K(t, j) /\ K(t, j) \in Cls
              /\ t.nodes[j].prev = T!NULL <=> t.heads[K(t, j)] = j
          BY <1>2, <1>3, <3>2
        <4>2. CASE K(t, j) = c
          BY <1>1, <1>5, <3>2, <4>1, <4>2
        <4>3. CASE K(t, j) # c
          BY <1>5, <4>1, <4>3
        <4>4. QED
          BY <4>2, <4>3
      <3>3. QED
        BY <3>1, <3>2
    <2>4. QED
      BY <2>1, <2>2, <2>3
  <1>7. /\ u.nodes[i].next # T!NULL =>
             /\ u.nodes[i].next \in G /\ u.nodes[u.nodes[i].next].prev = i
             /\ K(u, u.nodes[i].next) = K(u, i)
        /\ u.nodes[i].prev = T!NULL <=> u.heads[K(u, i)] = i
    BY <1>3, <1>4, <1>5
  <1>8. \A d \in Cls : u.heads[d] # T!NULL => u.heads[d] \in G /\ K(u, u.heads[d]) = d
    <2>1. ASSUME NEW d \in Cls, u.heads[d] # T!NULL
          PROVE  u.heads[d] \in G /\ K(u, u.heads[d]) = d
      <3>1. CASE d = c
        BY <1>3, <1>5, <3>1
      <3>2. CASE d # c
        BY <1>2, <1>3, <1>5, <2>1, <3>2
      <3>3. QED
        BY <3>1, <3>2
    <2>2. QED
      BY <2>1
  <1>9. Ranked(u, G)
    <2>1. PICK r \in [T!Node -> Nat] :
            \A j \in F : t.nodes[j].next # T!NULL => r[j] < r[t.nodes[j].next]
      BY DEF Chains, Ranked
    <2> DEFINE q == [j \in T!Node |-> IF j = i THEN 0 ELSE r[j] + 1]
    <2>2. q \in [T!Node -> Nat] /\ q[i] = 0 /\ \A j \in F : q[j] = r[j] + 1 /\ r[j] \in Nat
      BY <1>1, <2>1
    <2> HIDE DEF q
    <2>3. ASSUME NEW j \in G, u.nodes[j].next # T!NULL
          PROVE  q[j] < q[u.nodes[j].next]
      <3>1. CASE j = i
        <4>1. u.nodes[j].next \in F
          BY <1>3, <1>4, <2>3, <3>1
        <4>2. q[u.nodes[j].next] = r[u.nodes[j].next] + 1 /\ r[u.nodes[j].next] \in Nat
          BY <2>2, <4>1
        <4>3. QED
          BY <2>2, <3>1, <4>2
      <3>2. CASE j \in F
        <4>1. u.nodes[j].next \in F /\ r[j] < r[u.nodes[j].next]
          BY <1>2, <1>3, <2>1, <2>3, <3>2
        <4>2. /\ q[u.nodes[j].next] = r[u.nodes[j].next] + 1 /\ r[u.nodes[j].next] \in Nat
              /\ q[j] = r[j] + 1 /\ r[j] \in Nat
          BY <2>2, <3>2, <4>1
        <4>3. QED
          BY <4>1, <4>2
      <3>3. QED
        BY <3>1, <3>2
    <2>4. QED
      BY <2>2, <2>3 DEF Ranked
  <1>10. Marked(u) /\ \A j \in G : u.nodes[j].size \in T!MinSize .. T!Total
    BY <1>2, <1>3 DEF Inserts
  <1>11. QED
    BY <1>1, <1>3, <1>6, <1>7, <1>8, <1>9, <1>10 DEF Chains

LEMMA StoreIs ==
  ASSUME NEW s \in Seq(T!Node), Len(s) > 0
  PROVE  /\ T!Last(s) \in T!Node /\ T!Last(s) = s[Len(s)] /\ Len(s) \in Nat
         /\ T!Front(s) \in Seq(T!Node) /\ Len(T!Front(s)) = Len(s) - 1
         /\ \A k \in 1 .. Len(s) - 1 : T!Front(s)[k] = s[k]
  <1> DEFINE n == Len(s)
             f == SubSeq(s, 1, n - 1)
  <1>1. n \in Nat /\ n > 0 /\ \A k \in 1 .. n : s[k] \in T!Node
    BY ElementOfSeq, LenProperties
  <1> HIDE DEF n
  <1>2. /\ n - 1 \in Int /\ 1 \in Int /\ \A k \in 1 .. n - 1 : s[k] \in T!Node
        /\ (n - 1) - 1 + 1 = n - 1 /\ (1 <= n - 1 \/ n - 1 = 0)
    BY <1>1
  <1>3. f \in Seq(T!Node) /\ Len(f) = n - 1 /\ \A k \in 1 .. n - 1 : f[k] = s[k]
    <2> HIDE DEF n
    <2>1. /\ SubSeq(s, 1, n - 1) \in Seq(T!Node)
          /\ Len(SubSeq(s, 1, n - 1)) = IF 1 <= n - 1 THEN (n - 1) - 1 + 1 ELSE 0
          /\ \A k \in 1 .. (n - 1) - 1 + 1 : SubSeq(s, 1, n - 1)[k] = s[1 + k - 1]
      BY <1>2, SubSeqProperties
    <2>2. \A k \in 1 .. n - 1 : 1 + k - 1 = k
      OBVIOUS
    <2>3. QED
      BY <1>2, <2>1, <2>2
  <1>4. QED
    BY <1>1, <1>3 DEF T!Last, T!Front, n

(* A node that holds a block, at the head of its list. *)
Placed(m, n, next, size, offset) ==
  /\ m \in TNode /\ m.next = next /\ m.prev = T!NULL /\ m.size = size /\ m.offset = offset
  /\ m.aoPrevious = n.aoPrevious /\ m.aoNext = n.aoNext /\ m.allocated = n.allocated

LEMMA PlacedIs ==
  ASSUME NEW n \in TNode, NEW p \in T!Pointer, NEW size \in 0 .. T!Total,
         NEW offset \in 0 .. T!Total
  PROVE  Placed([n EXCEPT !.next = p, !.prev = T!NULL, !.size = size, !.offset = offset],
                n, p, size, offset)
  <1>1. T!NULL \in T!Pointer
    BY TNodeIs
  <1>2. QED
    BY <1>1 DEF Placed, TNode

LEMMA InsertNodeIs ==
  ASSUME NEW t \in TState, NEW F, Chains(t, F), Len(t.store) > 0,
         NEW i, i = T!Last(t.store), i \notin F,
         NEW size \in T!MinSize .. T!Total, NEW offset \in 0 .. T!Total,
         NEW u, u = T!InsertNode(t, size, offset)
  PROVE  i \in T!Node /\ Inserts(u, t, i, size, offset)
  <1> DEFINE c == T!Class(size)
             head == t.heads[c]
             m == [t.nodes[i] EXCEPT !.next = head, !.prev = T!NULL, !.size = size,
                                     !.offset = offset]
             nodes == [t.nodes EXCEPT ![i] = m]
             marked == IF head # T!NULL
                       THEN [t EXCEPT !.nodes = [nodes EXCEPT ![head].prev = i]]
                       ELSE [t EXCEPT !.nodes = nodes, !.l1 = @ \cup {c[1]},
                                      !.l2[c[1]] = @ \cup {c[2]}]
  <1>1. u = [marked EXCEPT !.store = T!Front(@), !.heads[c] = i]
    BY DEF T!InsertNode
  <1>2. /\ t.nodes \in [T!Node -> TNode] /\ t.heads \in [Cls -> T!Pointer]
        /\ t.l1 \in SUBSET T!FirstLevel /\ t.l2 \in [T!FirstLevel -> SUBSET T!SecondLevel]
        /\ t.store \in Seq(T!Node)
        /\ t = [l1 |-> t.l1, l2 |-> t.l2, heads |-> t.heads, nodes |-> t.nodes, store |-> t.store]
    BY DEF TState
  <1>3. i \in T!Node /\ T!Front(t.store) \in Seq(T!Node) /\ i \in T!Pointer
    BY <1>2, StoreIs, TNodeIs
  <1>4. /\ c \in Cls /\ head \in T!Pointer /\ T!NULL \notin T!Node /\ Marked(t)
        /\ c[1] \in T!FirstLevel /\ c[2] \in T!SecondLevel /\ size \in 0 .. T!Total
    <2>1. c \in Cls
      BY ClassIs
    <2>2. size \in 0 .. T!Total
      BY TlsfConstantsAre
    <2>3. Marked(t)
      BY DEF Chains
    <2>4. QED
      BY <1>2, <2>1, <2>2, <2>3, ClsIs, TNodeIs
  <1>5. Placed(m, t.nodes[i], head, size, offset)
    BY <1>2, <1>3, <1>4, PlacedIs
  <1> HIDE DEF m
  <1>6. /\ nodes \in [T!Node -> TNode] /\ nodes[i] = m
        /\ \A j \in T!Node \ {i} : nodes[j] = t.nodes[j]
    BY <1>2, <1>3, <1>5 DEF Placed
  <1>7. CASE head # T!NULL
    <2>1. head \in F /\ head \in T!Node /\ head # i
      BY <1>4, <1>7, TNodeIs DEF Chains
    <2> DEFINE last == [nodes EXCEPT ![head].prev = i]
    <2>2. marked = [t EXCEPT !.nodes = last]
      BY <1>7
    <2> HIDE DEF nodes, marked
    <2>3. /\ [nodes[head] EXCEPT !.prev = i] \in TNode
          /\ [nodes[head] EXCEPT !.prev = i].prev = i
          /\ AlikeButPrev([nodes[head] EXCEPT !.prev = i], nodes[head])
      BY <1>3, <1>6, <2>1, LinkSet
    <2>4. last = [nodes EXCEPT ![head] = [nodes[head] EXCEPT !.prev = i]]
      OBVIOUS
    <2>5. /\ last \in [T!Node -> TNode]
          /\ last[head].prev = i /\ AlikeButPrev(last[head], t.nodes[head])
          /\ last[i] = m /\ \A j \in T!Node \ {i, head} : last[j] = t.nodes[j]
      BY <1>3, <1>6, <2>1, <2>3, <2>4
    <2> HIDE DEF last
    <2>6. /\ u.l1 = t.l1 /\ u.l2 = t.l2 /\ u.store = T!Front(t.store)
          /\ u.heads = [t.heads EXCEPT ![c] = i] /\ u.nodes = last
          /\ u = [l1 |-> u.l1, l2 |-> u.l2, heads |-> u.heads, nodes |-> u.nodes,
                  store |-> u.store]
      BY <1>1, <1>2, <2>2
    <2>7. u \in TState
      <3>1. u.heads \in [Cls -> T!Pointer]
        BY <1>2, <1>3, <1>4, <2>6
      <3>2. QED
        BY <1>2, <1>3, <2>5, <2>6, <3>1 DEF TState
    <2>8. Marked(u)
      <3>1. \A d \in Cls : u.heads[d] # T!NULL <=> t.heads[d] # T!NULL
        BY <1>2, <1>3, <1>4, <1>7, <2>6
      <3>2. QED
        BY <1>4, <2>6, <3>1 DEF Marked
    <2>9. SameBlocks(u, t, T!Node \ {i})
      BY <2>1, <2>5, <2>6 DEF SameBlocks, AlikeButPrev
    <2>10. \A j \in T!Node \ {i} :
             /\ u.nodes[j].next = t.nodes[j].next
             /\ u.nodes[j].prev = IF j = head THEN i ELSE t.nodes[j].prev
      BY <2>1, <2>5, <2>6 DEF AlikeButPrev
    <2>11. QED
      BY <1>3, <1>5, <2>5, <2>6, <2>7, <2>8, <2>9, <2>10 DEF Inserts, Placed
  <1>8. CASE head = T!NULL
    <2>1. marked = [t EXCEPT !.nodes = nodes, !.l1 = @ \cup {c[1]}, !.l2[c[1]] = @ \cup {c[2]}]
      BY <1>8
    <2> HIDE DEF nodes, marked
    <2>2. /\ u.l1 = t.l1 \cup {c[1]} /\ u.l2 = [t.l2 EXCEPT ![c[1]] = @ \cup {c[2]}]
          /\ u.store = T!Front(t.store)
          /\ u.heads = [t.heads EXCEPT ![c] = i] /\ u.nodes = nodes
          /\ u = [l1 |-> u.l1, l2 |-> u.l2, heads |-> u.heads, nodes |-> u.nodes,
                  store |-> u.store]
      BY <1>1, <1>2, <2>1
    <2> HIDE DEF c
    <2>3. /\ u.l2 \in [T!FirstLevel -> SUBSET T!SecondLevel]
          /\ u.l2[c[1]] = t.l2[c[1]] \cup {c[2]}
          /\ \A l \in T!FirstLevel \ {c[1]} : u.l2[l] = t.l2[l]
      <3>1. t.l2[c[1]] \cup {c[2]} \in SUBSET T!SecondLevel
        BY <1>2, <1>4
      <3>2. u.l2 = [t.l2 EXCEPT ![c[1]] = t.l2[c[1]] \cup {c[2]}]
        BY <2>2
      <3>3. QED
        BY <1>2, <1>4, <3>1, <3>2
    <2>4. u \in TState
      <3>1. u.heads \in [Cls -> T!Pointer] /\ u.l1 \in SUBSET T!FirstLevel
        BY <1>2, <1>3, <1>4, <2>2
      <3>2. QED
        BY <1>2, <1>3, <1>6, <2>2, <2>3, <3>1 DEF TState
    <2>5. \A d \in Cls : d[2] \in u.l2[d[1]] <=> u.heads[d] # T!NULL
      <3>1. ASSUME NEW d \in Cls
            PROVE  d[2] \in u.l2[d[1]] <=> u.heads[d] # T!NULL
        <4>1. /\ d[1] \in T!FirstLevel /\ d = <<d[1], d[2]>> /\ c = <<c[1], c[2]>>
              /\ d[2] \in t.l2[d[1]] <=> t.heads[d] # T!NULL
          BY <1>4, ClsIs DEF Marked
        <4>2. CASE d = c
          BY <1>2, <1>3, <1>4, <2>2, <2>3, <4>2
        <4>3. CASE d # c /\ d[1] = c[1]
          BY <1>2, <1>4, <2>2, <2>3, <4>1, <4>3
        <4>4. CASE d # c /\ d[1] # c[1]
          BY <1>2, <1>4, <2>2, <2>3, <4>1, <4>4
        <4>5. QED
          BY <4>2, <4>3, <4>4
      <3>2. QED
        BY <3>1
    <2>6. \A l \in T!FirstLevel : l \in u.l1 <=> u.l2[l] # {}
      BY <1>4, <2>2, <2>3 DEF Marked
    <2>7. SameBlocks(u, t, T!Node \ {i})
      BY <1>6, <2>2 DEF SameBlocks
    <2>8. \A j \in T!Node \ {i} :
            /\ u.nodes[j].next = t.nodes[j].next
            /\ u.nodes[j].prev = IF j = head THEN i ELSE t.nodes[j].prev
      BY <1>4, <1>6, <1>8, <2>2
    <2>9. QED
      BY <1>3, <1>5, <1>6, <2>2, <2>4, <2>5, <2>6, <2>7, <2>8 DEF Inserts, Placed, Marked, c
  <1>9. QED
    BY <1>3, <1>7, <1>8

-----------------------------------------------------------------------------
(* Tlsf: its blocks in memory. *)
Lives(t) == {i \in T!Node : t.nodes[i].offset # T!NULL}
Frees(t) == {i \in Lives(t) : ~t.nodes[i].allocated}

Place(t, i) ==
  /\ t.nodes[i].offset \in 0 .. T!Total /\ t.nodes[i].size \in T!MinSize .. T!Total
  /\ t.nodes[i].offset + t.nodes[i].size <= T!Total

(* A block and the one behind it, and the one before. *)
Behind(t, i) ==
  LET x == t.nodes[i].aoNext
  IN  IF x = T!NULL THEN t.nodes[i].offset + t.nodes[i].size = T!Total
      ELSE /\ x \in Lives(t) /\ t.nodes[x].aoPrevious = i
           /\ t.nodes[i].offset + t.nodes[i].size = t.nodes[x].offset
Before(t, i) ==
  LET p == t.nodes[i].aoPrevious
  IN  IF p = T!NULL THEN t.nodes[i].offset = 0
      ELSE p \in Lives(t) /\ t.nodes[p].aoNext = i

Disjoint(t, i, j) ==
  \/ t.nodes[i].offset + t.nodes[i].size <= t.nodes[j].offset
  \/ t.nodes[j].offset + t.nodes[j].size <= t.nodes[i].offset

Blocks(t) ==
  /\ \A i \in Lives(t) : Place(t, i) /\ Behind(t, i) /\ Before(t, i)
  /\ \A i, j \in Lives(t) : i # j => Disjoint(t, i, j)
  /\ \E i \in Lives(t) : t.nodes[i].offset = 0 /\ t.nodes[i].aoPrevious = T!NULL

(* What is before the first block is nothing: the other way to say it. *)
LEMMA LiveIs ==
  ASSUME NEW t, Blocks(t), NEW i \in Lives(t)
  PROVE  /\ i \in T!Node /\ i # T!NULL
         /\ t.nodes[i].offset \in Nat /\ t.nodes[i].size \in Nat /\ t.nodes[i].size > 0
         /\ t.nodes[i].offset < T!Total
         /\ t.nodes[i].aoNext # i /\ t.nodes[i].aoPrevious # i
         /\ t.nodes[i].aoNext # T!NULL =>
              /\ t.nodes[i].aoNext \in Lives(t) /\ t.nodes[t.nodes[i].aoNext].aoPrevious = i
              /\ t.nodes[i].offset + t.nodes[i].size = t.nodes[t.nodes[i].aoNext].offset
         /\ t.nodes[i].aoPrevious # T!NULL =>
              /\ t.nodes[i].aoPrevious \in Lives(t) /\ t.nodes[t.nodes[i].aoPrevious].aoNext = i
              /\ t.nodes[t.nodes[i].aoPrevious].offset + t.nodes[t.nodes[i].aoPrevious].size
                   = t.nodes[i].offset
         /\ t.nodes[i].aoNext # T!NULL => t.nodes[i].aoNext # t.nodes[i].aoPrevious
  <1> DEFINE x == t.nodes[i].aoNext
             p == t.nodes[i].aoPrevious
  <1>1. /\ T!MinSize \in Nat \ {0} /\ T!Total \in Nat /\ T!NULL \notin T!Node
    BY TlsfConstantsAre, TNodeIs
  <1>2. \A j \in Lives(t) :
          /\ j \in T!Node
          /\ t.nodes[j].offset \in Nat /\ t.nodes[j].size \in Nat /\ t.nodes[j].size > 0
          /\ t.nodes[j].offset < T!Total
    BY <1>1 DEF Blocks, Place, Lives
  <1>3. x # T!NULL =>
          x \in Lives(t) /\ t.nodes[x].aoPrevious = i /\ t.nodes[i].offset + t.nodes[i].size = t.nodes[x].offset
    BY DEF Blocks, Behind
  <1>4. p # T!NULL => p \in Lives(t) /\ t.nodes[p].aoNext = i
    BY DEF Blocks, Before
  <1>5. p # T!NULL => t.nodes[p].offset + t.nodes[p].size = t.nodes[i].offset
    <2>1. ASSUME p # T!NULL
          PROVE  t.nodes[p].offset + t.nodes[p].size = t.nodes[i].offset
      <3>1. p \in Lives(t) /\ t.nodes[p].aoNext = i /\ i # T!NULL /\ Behind(t, p)
        BY <1>1, <1>2, <1>4, <2>1 DEF Blocks
      <3>2. QED
        BY <3>1 DEF Behind
    <2>2. QED
      BY <2>1
  <1> HIDE DEF x, p
  <1>6. x # T!NULL => x # i /\ x # p
    BY <1>2, <1>3, <1>4, <1>5
  <1>7. p # i
    BY <1>1, <1>2, <1>4, <1>5
  <1>8. x # i
    BY <1>1, <1>2, <1>6
  <1>9. QED
    BY <1>1, <1>2, <1>3, <1>4, <1>5, <1>6, <1>7, <1>8 DEF x, p

(* Two neighbours become one block, of node keep; node gone is without one. *)
Unites(u, t, p, i, keep, gone) ==
  /\ u.nodes[keep].offset = t.nodes[p].offset
  /\ u.nodes[keep].size = t.nodes[p].size + t.nodes[i].size
  /\ u.nodes[keep].aoPrevious = t.nodes[p].aoPrevious
  /\ u.nodes[keep].aoNext = t.nodes[i].aoNext
  /\ u.nodes[gone].offset = T!NULL
  /\ \A j \in T!Node \ {p, i} :
       /\ u.nodes[j].offset = t.nodes[j].offset /\ u.nodes[j].size = t.nodes[j].size
       /\ u.nodes[j].aoPrevious =
            IF j = t.nodes[i].aoNext THEN keep ELSE t.nodes[j].aoPrevious
       /\ u.nodes[j].aoNext = IF j = t.nodes[p].aoPrevious THEN keep ELSE t.nodes[j].aoNext

LEMMA UniteIs ==
  ASSUME NEW t, Blocks(t), NEW p \in Lives(t), NEW i, i = t.nodes[p].aoNext, i # T!NULL,
         NEW keep, NEW gone, (keep = p /\ gone = i) \/ (keep = i /\ gone = p),
         NEW u, Unites(u, t, p, i, keep, gone)
  PROVE  Blocks(u) /\ Lives(u) = Lives(t) \ {gone}
  <1> DEFINE b == t.nodes[p].aoPrevious
             x == t.nodes[i].aoNext
  <1>1. /\ T!MinSize \in Nat \ {0} /\ T!Total \in Nat /\ T!NULL = -1
    BY TlsfConstantsAre
  <1>2. /\ i \in Lives(t) /\ p # i /\ t.nodes[i].aoPrevious = p
        /\ t.nodes[p].offset + t.nodes[p].size = t.nodes[i].offset
        /\ p \in T!Node /\ i \in T!Node /\ p # T!NULL /\ keep \in T!Node /\ gone \in T!Node
    BY LiveIs
  <1>3. /\ x # p /\ x # i /\ b # p /\ b # i
        /\ (x # T!NULL => x \in Lives(t) /\ t.nodes[x].aoPrevious = i
             /\ t.nodes[i].offset + t.nodes[i].size = t.nodes[x].offset)
        /\ (b # T!NULL => b \in Lives(t) /\ t.nodes[b].aoNext = p
             /\ t.nodes[b].offset + t.nodes[b].size = t.nodes[p].offset)
    BY <1>2, LiveIs
  <1>4. /\ \A j \in T!Node \ {p, i} :
             /\ u.nodes[j].offset = t.nodes[j].offset /\ u.nodes[j].size = t.nodes[j].size
             /\ u.nodes[j].aoPrevious = IF j = x THEN keep ELSE t.nodes[j].aoPrevious
             /\ u.nodes[j].aoNext = IF j = b THEN keep ELSE t.nodes[j].aoNext
        /\ u.nodes[keep].offset = t.nodes[p].offset
        /\ u.nodes[keep].size = t.nodes[p].size + t.nodes[i].size
        /\ u.nodes[keep].aoPrevious = b /\ u.nodes[keep].aoNext = x
        /\ u.nodes[gone].offset = T!NULL
    BY DEF Unites
  <1>5. /\ Place(t, p) /\ Place(t, i)
        /\ \A j \in Lives(t) : Place(t, j) /\ Behind(t, j) /\ Before(t, j) /\ j \in T!Node
        /\ \A j, k \in Lives(t) : j # k => Disjoint(t, j, k)
    BY <1>2, LiveIs DEF Blocks
  <1> HIDE DEF x, b
  <1>6. Lives(u) = Lives(t) \ {gone}
    <2>1. u.nodes[keep].offset # T!NULL
      BY <1>1, <1>4, <1>5 DEF Place
    <2>2. \A j \in T!Node \ {p, i} : j \in Lives(u) <=> j \in Lives(t)
      BY <1>4 DEF Lives
    <2>3. keep \in Lives(u) /\ gone \notin Lives(u) /\ Lives(u) \subseteq T!Node /\ Lives(t) \subseteq T!Node
      BY <1>2, <1>4, <2>1 DEF Lives
    <2>4. QED
      BY <1>2, <2>2, <2>3
  <1>7. Place(u, keep) /\ Behind(u, keep) /\ Before(u, keep)
    <2>1. Place(u, keep)
      BY <1>1, <1>2, <1>4, <1>5 DEF Place
    <2>2. Behind(u, keep)
      <3>1. CASE x = T!NULL
        <4>1. Behind(t, i) /\ t.nodes[i].aoNext = T!NULL
          BY <1>2, <1>5, <3>1 DEF x
        <4>2. t.nodes[i].offset + t.nodes[i].size = T!Total
          BY <4>1 DEF Behind
        <4>3. u.nodes[keep].offset + u.nodes[keep].size = T!Total
          BY <1>1, <1>2, <1>4, <1>5, <4>2 DEF Place
        <4>4. QED
          BY <1>4, <3>1, <4>3 DEF Behind
      <3>2. CASE x # T!NULL
        <4>1. /\ x \in Lives(t) /\ x \in T!Node \ {p, i} /\ x \in Lives(u)
          BY <1>2, <1>3, <1>5, <1>6, <3>2
        <4>2. u.nodes[x].offset = t.nodes[x].offset /\ u.nodes[x].aoPrevious = keep
          BY <1>4, <4>1
        <4>3. u.nodes[keep].offset + u.nodes[keep].size = u.nodes[x].offset
          BY <1>1, <1>2, <1>3, <1>4, <1>5, <3>2, <4>2 DEF Place
        <4>4. QED
          BY <1>4, <3>2, <4>1, <4>2, <4>3 DEF Behind
      <3>3. QED
        BY <3>1, <3>2
    <2>3. Before(u, keep)
      <3>1. CASE b = T!NULL
        <4>1. Before(t, p) /\ t.nodes[p].aoPrevious = T!NULL
          BY <1>5, <3>1 DEF b
        <4>2. u.nodes[keep].offset = 0
          BY <1>4, <4>1 DEF Before
        <4>3. QED
          BY <1>4, <3>1, <4>2 DEF Before
      <3>2. CASE b # T!NULL
        <4>1. b \in T!Node \ {p, i} /\ b \in Lives(u)
          BY <1>2, <1>3, <1>5, <1>6, <3>2
        <4>2. u.nodes[b].aoNext = keep
          BY <1>4, <4>1
        <4>3. QED
          BY <1>4, <3>2, <4>1, <4>2 DEF Before
      <3>3. QED
        BY <3>1, <3>2
    <2>4. QED
      BY <2>1, <2>2, <2>3
  <1>8. ASSUME NEW j \in Lives(t) \ {p, i}
        PROVE  Place(u, j) /\ Behind(u, j) /\ Before(u, j)
    <2> DEFINE y == t.nodes[j].aoNext
               q == t.nodes[j].aoPrevious
    <2>1. j \in T!Node \ {p, i} /\ Place(t, j) /\ Behind(t, j) /\ Before(t, j)
      BY <1>5
    <2>2. /\ u.nodes[j].offset = t.nodes[j].offset /\ u.nodes[j].size = t.nodes[j].size
          /\ u.nodes[j].aoPrevious = IF j = x THEN keep ELSE q
          /\ u.nodes[j].aoNext = IF j = b THEN keep ELSE y
      BY <1>4, <2>1
    <2>3. Place(u, j)
      BY <2>1, <2>2 DEF Place
    <2>4. /\ y # T!NULL => /\ y \in Lives(t) /\ t.nodes[y].aoPrevious = j
                           /\ t.nodes[j].offset + t.nodes[j].size = t.nodes[y].offset
          /\ y = T!NULL => t.nodes[j].offset + t.nodes[j].size = T!Total
          /\ q # T!NULL => q \in Lives(t) /\ t.nodes[q].aoNext = j
          /\ q = T!NULL => t.nodes[j].offset = 0
      BY <2>1 DEF Behind, Before
    <2> HIDE DEF y, q
    <2>5. Behind(u, j)
      <3>1. CASE j = b
        <4>1. t.nodes[j].offset + t.nodes[j].size = t.nodes[p].offset
          BY <1>3, <2>4, <3>1, LiveIs
        <4>2. u.nodes[j].aoNext = keep /\ keep \in Lives(u) /\ keep # T!NULL
          BY <1>2, <1>6, <2>2, <3>1, LiveIs
        <4>3. u.nodes[keep].aoPrevious = j /\ u.nodes[keep].offset = t.nodes[p].offset
          BY <1>4, <3>1
        <4>4. QED
          BY <2>2, <4>1, <4>2, <4>3 DEF Behind
      <3>2. CASE j # b /\ y = T!NULL
        BY <2>2, <2>4, <3>2 DEF Behind
      <3>3. CASE j # b /\ y # T!NULL
        <4>1. y # i
          BY <1>2, <2>1, <2>4, <3>3
        <4>2. y # p
          BY <2>4, <3>3 DEF b
        <4>3. y # x
          BY <1>2, <1>3, <2>1, <2>4, <3>3
        <4>4. y \in T!Node \ {p, i} /\ y \in Lives(u)
          BY <1>5, <1>6, <2>4, <3>3, <4>1, <4>2
        <4>5. u.nodes[y].aoPrevious = j /\ u.nodes[y].offset = t.nodes[y].offset
          BY <1>4, <2>4, <3>3, <4>3, <4>4
        <4>6. u.nodes[j].offset + u.nodes[j].size = u.nodes[y].offset
          BY <2>2, <2>4, <3>3, <4>5
        <4>7. u.nodes[j].aoNext = y
          BY <2>2, <3>3
        <4>8. QED
          BY <3>3, <4>4, <4>5, <4>6, <4>7 DEF Behind
      <3>4. QED
        BY <3>1, <3>2, <3>3
    <2>6. Before(u, j)
      <3>1. CASE j = x
        <4>1. u.nodes[j].aoPrevious = keep /\ keep \in Lives(u) /\ keep # T!NULL
          BY <1>2, <1>6, <2>2, <3>1, LiveIs
        <4>2. QED
          BY <1>4, <3>1, <4>1 DEF Before
      <3>2. CASE j # x /\ q = T!NULL
        BY <2>2, <2>4, <3>2 DEF Before
      <3>3. CASE j # x /\ q # T!NULL
        <4>1. q # p
          BY <2>1, <2>4, <3>3
        <4>2. q # i
          BY <2>4, <3>3 DEF x
        <4>3. q # b
          BY <1>3, <2>1, <2>4, <3>3
        <4>4. q \in T!Node \ {p, i} /\ q \in Lives(u)
          BY <1>5, <1>6, <2>4, <3>3, <4>1, <4>2
        <4>5. u.nodes[q].aoNext = j
          BY <1>4, <2>4, <3>3, <4>3, <4>4
        <4>6. u.nodes[j].aoPrevious = q
          BY <2>2, <3>3
        <4>7. QED
          BY <3>3, <4>4, <4>5, <4>6 DEF Before
      <3>4. QED
        BY <3>1, <3>2, <3>3
    <2>7. QED
      BY <2>3, <2>5, <2>6
  <1>9. \A j, k \in Lives(u) : j # k => Disjoint(u, j, k)
    <2>1. ASSUME NEW j \in Lives(t) \ {p, i}
          PROVE  Disjoint(u, j, keep) /\ Disjoint(u, keep, j)
      <3>1. Disjoint(t, j, p) /\ Disjoint(t, j, i) /\ Place(t, j) /\ u.nodes[j].offset = t.nodes[j].offset
            /\ u.nodes[j].size = t.nodes[j].size
        BY <1>2, <1>4, <1>5
      <3>2. QED
        BY <1>1, <1>2, <1>4, <1>5, <3>1 DEF Disjoint, Place
    <2>2. ASSUME NEW j \in Lives(t) \ {p, i}, NEW k \in Lives(t) \ {p, i}, j # k
          PROVE  Disjoint(u, j, k)
      <3>1. /\ Disjoint(t, j, k) /\ u.nodes[j].offset = t.nodes[j].offset
            /\ u.nodes[j].size = t.nodes[j].size /\ u.nodes[k].offset = t.nodes[k].offset
            /\ u.nodes[k].size = t.nodes[k].size
        BY <1>4, <1>5, <2>2
      <3>2. QED
        BY <3>1 DEF Disjoint
    <2>3. \A j \in Lives(u) : j = keep \/ j \in Lives(t) \ {p, i}
      BY <1>6
    <2>4. QED
      BY <2>1, <2>2, <2>3
  <1>10. \E j \in Lives(u) : u.nodes[j].offset = 0 /\ u.nodes[j].aoPrevious = T!NULL
    <2>1. PICK j \in Lives(t) : t.nodes[j].offset = 0 /\ t.nodes[j].aoPrevious = T!NULL
      BY DEF Blocks
    <2>2. CASE j = p
      BY <1>2, <1>4, <1>6, <2>1, <2>2 DEF b
    <2>3. CASE j # p
      <3>1. j # i /\ j # x
        <4>1. j # T!NULL
          BY <2>1, LiveIs
        <4>2. QED
          BY <1>2, <1>3, <2>1, <4>1
      <3>2. j \in Lives(u) /\ u.nodes[j].offset = 0 /\ u.nodes[j].aoPrevious = T!NULL
        BY <1>4, <1>5, <1>6, <2>1, <2>3, <3>1
      <3>3. QED
        BY <3>2
    <2>4. QED
      BY <2>2, <2>3
  <1>11. \A j \in Lives(u) : Place(u, j) /\ Behind(u, j) /\ Before(u, j)
    BY <1>6, <1>7, <1>8
  <1>12. QED
    BY <1>6, <1>9, <1>10, <1>11 DEF Blocks

(* A block is cut: node i holds what is left behind size units. *)
Cuts(u, t, h, i, size) ==
  /\ u.nodes[h].offset = t.nodes[h].offset /\ u.nodes[h].size = size
  /\ u.nodes[h].aoPrevious = t.nodes[h].aoPrevious /\ u.nodes[h].aoNext = i
  /\ u.nodes[i].offset = t.nodes[h].offset + size
  /\ u.nodes[i].size = t.nodes[h].size - size
  /\ u.nodes[i].aoPrevious = h /\ u.nodes[i].aoNext = t.nodes[h].aoNext
  /\ \A j \in T!Node \ {h, i} :
       /\ u.nodes[j].offset = t.nodes[j].offset /\ u.nodes[j].size = t.nodes[j].size
       /\ u.nodes[j].aoNext = t.nodes[j].aoNext
       /\ u.nodes[j].aoPrevious = IF j = t.nodes[h].aoNext THEN i ELSE t.nodes[j].aoPrevious

LEMMA CutIs ==
  ASSUME NEW t, Blocks(t), NEW h \in Lives(t), NEW i \in T!Node \ Lives(t),
         NEW size \in Int, size >= T!MinSize, t.nodes[h].size - size >= T!MinSize,
         NEW u, Cuts(u, t, h, i, size)
  PROVE  Blocks(u) /\ Lives(u) = Lives(t) \cup {i}
  <1> DEFINE x == t.nodes[h].aoNext
             b == t.nodes[h].aoPrevious
             o == t.nodes[h].offset
             n == t.nodes[h].size
  <1>1. /\ T!MinSize \in Nat \ {0} /\ T!Total \in Nat /\ T!NULL = -1
    BY TlsfConstantsAre
  <1>2. /\ h \in T!Node /\ h # T!NULL /\ h # i /\ i # T!NULL /\ x # h /\ x # i /\ b # h /\ b # i
        /\ (x # T!NULL => x \in Lives(t) /\ t.nodes[x].aoPrevious = h /\ o + n = t.nodes[x].offset)
        /\ (b # T!NULL => b \in Lives(t) /\ t.nodes[b].aoNext = h)
        /\ x # T!NULL => x # b
    BY LiveIs, TNodeIs
  <1>3. /\ \A j \in T!Node \ {h, i} :
             /\ u.nodes[j].offset = t.nodes[j].offset /\ u.nodes[j].size = t.nodes[j].size
             /\ u.nodes[j].aoNext = t.nodes[j].aoNext
             /\ u.nodes[j].aoPrevious = IF j = x THEN i ELSE t.nodes[j].aoPrevious
        /\ u.nodes[h].offset = o /\ u.nodes[h].size = size
        /\ u.nodes[h].aoPrevious = b /\ u.nodes[h].aoNext = i
        /\ u.nodes[i].offset = o + size /\ u.nodes[i].size = n - size
        /\ u.nodes[i].aoPrevious = h /\ u.nodes[i].aoNext = x
    BY DEF Cuts
  <1>4. /\ Place(t, h)
        /\ \A j \in Lives(t) : Place(t, j) /\ Behind(t, j) /\ Before(t, j) /\ j \in T!Node
        /\ \A j, k \in Lives(t) : j # k => Disjoint(t, j, k)
    BY LiveIs DEF Blocks
  <1>5. /\ o \in Nat /\ n \in Nat /\ o + n <= T!Total /\ n - size >= T!MinSize
        /\ (x = T!NULL => o + n = T!Total) /\ (b = T!NULL => o = 0)
    <2>1. Behind(t, h) /\ Before(t, h) /\ Place(t, h)
      BY <1>4
    <2>2. QED
      BY <1>1, <2>1 DEF Behind, Before, Place
  <1> HIDE DEF x, b, o, n
  <1>6. Lives(u) = Lives(t) \cup {i}
    <2>1. u.nodes[h].offset # T!NULL /\ u.nodes[i].offset # T!NULL
      BY <1>1, <1>3, <1>5
    <2>2. \A j \in T!Node \ {h, i} : j \in Lives(u) <=> j \in Lives(t)
      BY <1>3 DEF Lives
    <2>3. h \in Lives(u) /\ i \in Lives(u) /\ Lives(u) \subseteq T!Node /\ Lives(t) \subseteq T!Node
      BY <1>2, <2>1 DEF Lives
    <2>4. QED
      BY <2>2, <2>3
  <1>7. Place(u, h) /\ Behind(u, h) /\ Before(u, h)
    <2>1. Place(u, h)
      BY <1>1, <1>3, <1>5 DEF Place
    <2>2. Behind(u, h)
      BY <1>2, <1>3, <1>6 DEF Behind
    <2>3. Before(u, h)
      <3>1. CASE b = T!NULL
        BY <1>3, <1>5, <3>1 DEF Before
      <3>2. CASE b # T!NULL
        <4>1. b \in T!Node \ {h, i} /\ b \in Lives(u)
          BY <1>2, <1>4, <1>6, <3>2
        <4>2. u.nodes[b].aoNext = h
          BY <1>2, <1>3, <3>2, <4>1
        <4>3. QED
          BY <1>3, <3>2, <4>1, <4>2 DEF Before
      <3>3. QED
        BY <3>1, <3>2
    <2>4. QED
      BY <2>1, <2>2, <2>3
  <1>8. Place(u, i) /\ Behind(u, i) /\ Before(u, i)
    <2>1. Place(u, i)
      BY <1>1, <1>3, <1>5 DEF Place
    <2>2. u.nodes[i].offset + u.nodes[i].size = o + n
      BY <1>3, <1>5
    <2>3. Behind(u, i)
      <3>1. CASE x = T!NULL
        BY <1>3, <1>5, <2>2, <3>1 DEF Behind
      <3>2. CASE x # T!NULL
        <4>1. x \in T!Node \ {h, i} /\ x \in Lives(u)
          BY <1>2, <1>4, <1>6, <3>2
        <4>2. u.nodes[x].aoPrevious = i /\ u.nodes[x].offset = t.nodes[x].offset
          BY <1>3, <4>1
        <4>3. QED
          BY <1>2, <1>3, <2>2, <3>2, <4>1, <4>2 DEF Behind
      <3>3. QED
        BY <3>1, <3>2
    <2>4. Before(u, i)
      BY <1>2, <1>3, <1>6 DEF Before
    <2>5. QED
      BY <2>1, <2>3, <2>4
  <1>9. ASSUME NEW j \in Lives(t) \ {h}
        PROVE  Place(u, j) /\ Behind(u, j) /\ Before(u, j)
    <2> DEFINE y == t.nodes[j].aoNext
               q == t.nodes[j].aoPrevious
    <2>1. j \in T!Node \ {h, i} /\ Place(t, j) /\ Behind(t, j) /\ Before(t, j)
      BY <1>4
    <2>2. /\ u.nodes[j].offset = t.nodes[j].offset /\ u.nodes[j].size = t.nodes[j].size
          /\ u.nodes[j].aoPrevious = (IF j = x THEN i ELSE q)
          /\ u.nodes[j].aoNext = y
      BY <1>3, <2>1
    <2>3. Place(u, j)
      BY <2>1, <2>2 DEF Place
    <2>4. /\ y # T!NULL => /\ y \in Lives(t) /\ t.nodes[y].aoPrevious = j
                           /\ t.nodes[j].offset + t.nodes[j].size = t.nodes[y].offset
          /\ y = T!NULL => t.nodes[j].offset + t.nodes[j].size = T!Total
          /\ q # T!NULL => q \in Lives(t) /\ t.nodes[q].aoNext = j
          /\ q = T!NULL => t.nodes[j].offset = 0
      BY <2>1 DEF Behind, Before
    <2> HIDE DEF y, q
    <2>5. Behind(u, j)
      <3>1. CASE y = T!NULL
        BY <2>2, <2>4, <3>1 DEF Behind
      <3>2. CASE y = h
        <4>1. u.nodes[h].aoPrevious = j
          BY <1>2, <1>3, <2>4, <3>2 DEF b
        <4>2. u.nodes[h].offset = t.nodes[h].offset
          BY <1>3 DEF o
        <4>3. QED
          BY <1>2, <1>6, <2>2, <2>4, <3>2, <4>1, <4>2 DEF Behind
      <3>3. CASE y # T!NULL /\ y # h
        <4>1. y \in T!Node \ {h, i} /\ y \in Lives(u) /\ y # x
          BY <1>2, <1>4, <1>6, <2>1, <2>4, <3>3
        <4>2. u.nodes[y].aoPrevious = j /\ u.nodes[y].offset = t.nodes[y].offset
          BY <1>3, <2>4, <3>3, <4>1
        <4>3. QED
          BY <2>2, <2>4, <3>3, <4>1, <4>2 DEF Behind
      <3>4. QED
        BY <3>1, <3>2, <3>3
    <2>6. Before(u, j)
      <3>1. CASE j = x
        BY <1>2, <1>3, <1>6, <2>2, <3>1 DEF Before
      <3>2. CASE j # x /\ q = T!NULL
        BY <2>2, <2>4, <3>2 DEF Before
      <3>3. CASE j # x /\ q # T!NULL
        <4>1. q \in T!Node \ {h, i} /\ q \in Lives(u)
          BY <1>4, <1>6, <2>1, <2>4, <3>3 DEF x
        <4>2. u.nodes[q].aoNext = j
          BY <1>3, <2>4, <3>3, <4>1
        <4>3. QED
          BY <2>2, <3>3, <4>1, <4>2 DEF Before
      <3>4. QED
        BY <3>1, <3>2, <3>3
    <2>7. QED
      BY <2>3, <2>5, <2>6
  <1>10. \A j, k \in Lives(u) : j # k => Disjoint(u, j, k)
    <2>1. ASSUME NEW j \in Lives(t) \ {h}
          PROVE  Disjoint(u, j, h) /\ Disjoint(u, h, j) /\ Disjoint(u, j, i) /\ Disjoint(u, i, j)
      <3>1. Disjoint(t, j, h) /\ Place(t, j) /\ u.nodes[j].offset = t.nodes[j].offset
            /\ u.nodes[j].size = t.nodes[j].size
        BY <1>3, <1>4
      <3>2. t.nodes[j].offset + t.nodes[j].size <= o \/ o + n <= t.nodes[j].offset
        BY <3>1 DEF Disjoint, o, n
      <3>3. t.nodes[j].offset \in Nat /\ t.nodes[j].size \in Nat
        BY <1>1, <3>1 DEF Place
      <3>4. QED
        BY <1>1, <1>3, <1>5, <3>1, <3>2, <3>3 DEF Disjoint
    <2>2. ASSUME NEW j \in Lives(t) \ {h}, NEW k \in Lives(t) \ {h}, j # k
          PROVE  Disjoint(u, j, k)
      <3>1. /\ Disjoint(t, j, k) /\ u.nodes[j].offset = t.nodes[j].offset
            /\ u.nodes[j].size = t.nodes[j].size /\ u.nodes[k].offset = t.nodes[k].offset
            /\ u.nodes[k].size = t.nodes[k].size
        BY <1>3, <1>4, <2>2
      <3>2. QED
        BY <3>1 DEF Disjoint
    <2>3. Disjoint(u, h, i) /\ Disjoint(u, i, h)
      BY <1>1, <1>3, <1>5 DEF Disjoint
    <2>4. \A j \in Lives(u) : j = h \/ j = i \/ j \in Lives(t) \ {h}
      BY <1>6
    <2>5. QED
      BY <2>1, <2>2, <2>3, <2>4
  <1>11. \E j \in Lives(u) : u.nodes[j].offset = 0 /\ u.nodes[j].aoPrevious = T!NULL
    <2>1. PICK j \in Lives(t) : t.nodes[j].offset = 0 /\ t.nodes[j].aoPrevious = T!NULL
      BY DEF Blocks
    <2>2. CASE j = h
      BY <1>3, <1>6, <2>1, <2>2 DEF o, b
    <2>3. CASE j # h
      <3>1. j # T!NULL
        BY <2>1, LiveIs
      <3>2. j # x
        BY <1>2, <2>1, <3>1
      <3>3. j \in Lives(u) /\ u.nodes[j].offset = 0 /\ u.nodes[j].aoPrevious = T!NULL
        BY <1>3, <1>4, <1>6, <2>1, <2>3, <3>2
      <3>4. QED
        BY <3>3
    <2>4. QED
      BY <2>2, <2>3
  <1>12. \A j \in Lives(u) : Place(u, j) /\ Behind(u, j) /\ Before(u, j)
    BY <1>6, <1>7, <1>8, <1>9
  <1>13. QED
    BY <1>6, <1>10, <1>11, <1>12 DEF Blocks

(* Lists have nothing to do with the places of the blocks. *)
LEMMA BlocksStay ==
  ASSUME NEW t, Blocks(t), NEW u,
         \A j \in T!Node :
           /\ u.nodes[j].offset = t.nodes[j].offset /\ u.nodes[j].size = t.nodes[j].size
           /\ u.nodes[j].aoPrevious = t.nodes[j].aoPrevious
           /\ u.nodes[j].aoNext = t.nodes[j].aoNext
  PROVE  Blocks(u) /\ Lives(u) = Lives(t)
  <1>1. Lives(u) = Lives(t) /\ Lives(t) \subseteq T!Node
    BY DEF Lives
  <1>2. \A i \in Lives(t) : Place(u, i)
    BY <1>1 DEF Blocks, Place
  <1>3. \A i \in Lives(t) : Behind(u, i)
    <2>1. ASSUME NEW i \in Lives(t)
          PROVE  Behind(u, i)
      <3>1. Behind(t, i) /\ i \in T!Node
        BY <1>1 DEF Blocks
      <3>2. QED
        BY <1>1, <3>1 DEF Behind
    <2>2. QED
      BY <2>1
  <1>4. \A i \in Lives(t) : Before(u, i)
    <2>1. ASSUME NEW i \in Lives(t)
          PROVE  Before(u, i)
      <3>1. Before(t, i) /\ i \in T!Node
        BY <1>1 DEF Blocks
      <3>2. QED
        BY <1>1, <3>1 DEF Before
    <2>2. QED
      BY <2>1
  <1>5. \A i, j \in Lives(t) : i # j => Disjoint(u, i, j)
    BY <1>1 DEF Blocks, Disjoint
  <1>6. \E i \in Lives(t) : u.nodes[i].offset = 0 /\ u.nodes[i].aoPrevious = T!NULL
    <2>1. PICK i \in Lives(t) : t.nodes[i].offset = 0 /\ t.nodes[i].aoPrevious = T!NULL
      BY DEF Blocks
    <2>2. QED
      BY <1>1, <2>1
  <1>7. QED
    BY <1>1, <1>2, <1>3, <1>4, <1>5, <1>6 DEF Blocks

(* The nodes without a block are on the stack of nodes, once; none of them is
   marked as allocated.                                                    *)
Stored(t) ==
  /\ \A k, l \in 1 .. Len(t.store) : t.store[k] = t.store[l] => k = l
  /\ \A k \in 1 .. Len(t.store) : t.store[k] \in T!Node \ Lives(t)
  /\ \A i \in T!Node \ Lives(t) : \E k \in 1 .. Len(t.store) : t.store[k] = i
Idle(t) == \A i \in T!Node \ Lives(t) : ~t.nodes[i].allocated

LEMMA PushIs ==
  ASSUME NEW t \in TState, Stored(t), NEW i \in Lives(t),
         NEW u, u.store = Append(t.store, i), Lives(u) = Lives(t) \ {i}
  PROVE  /\ Stored(u) /\ Len(u.store) = Len(t.store) + 1 /\ Len(t.store) \in Nat
         /\ u.store \in Seq(T!Node) /\ T!Last(u.store) = i
  <1> DEFINE n == Len(t.store)
             s == t.store
             r == u.store
  <1>1. /\ s \in Seq(T!Node) /\ n \in Nat /\ i \in T!Node
    BY LenProperties DEF TState, Lives
  <1>2. /\ r \in Seq(T!Node) /\ Len(r) = n + 1 /\ r[n + 1] = i
        /\ \A k \in 1 .. n : r[k] = s[k]
    BY <1>1, AppendProperties
  <1>3. /\ \A k, l \in 1 .. n : s[k] = s[l] => k = l
        /\ \A k \in 1 .. n : s[k] \in T!Node \ Lives(t)
        /\ \A j \in T!Node \ Lives(t) : \E k \in 1 .. n : s[k] = j
    BY DEF Stored
  <1> HIDE DEF n, s, r
  <1>4. \A k \in 1 .. n + 1 : k = n + 1 \/ k \in 1 .. n
    BY <1>1
  <1>5. \A k, l \in 1 .. n + 1 : r[k] = r[l] => k = l
    BY <1>2, <1>3, <1>4
  <1>6. \A k \in 1 .. n + 1 : r[k] \in T!Node \ Lives(u)
    BY <1>1, <1>2, <1>3, <1>4
  <1>7. \A j \in T!Node \ Lives(u) : \E k \in 1 .. n + 1 : r[k] = j
    <2>1. ASSUME NEW j \in T!Node \ Lives(u)
          PROVE  \E k \in 1 .. n + 1 : r[k] = j
      <3>1. CASE j = i
        <4>1. n + 1 \in 1 .. n + 1
          BY <1>1
        <4>2. QED
          BY <1>2, <3>1, <4>1
      <3>2. CASE j # i
        <4>1. PICK k \in 1 .. n : s[k] = j
          BY <1>3, <2>1, <3>2
        <4>2. k \in 1 .. n + 1
          BY <1>1
        <4>3. QED
          BY <1>2, <4>1, <4>2
      <3>3. QED
        BY <3>1, <3>2
    <2>2. QED
      BY <2>1
  <1>8. T!Last(r) = i
    BY <1>2 DEF T!Last
  <1>9. Stored(u)
    BY <1>2, <1>5, <1>6, <1>7 DEF Stored, r
  <1>10. QED
    BY <1>1, <1>2, <1>8, <1>9 DEF n, r

LEMMA PopIs ==
  ASSUME NEW t \in TState, Stored(t), Len(t.store) > 0,
         NEW u, u.store = T!Front(t.store), Lives(u) = Lives(t) \cup {T!Last(t.store)}
  PROVE  /\ Stored(u) /\ Len(u.store) = Len(t.store) - 1
         /\ T!Last(t.store) \in T!Node \ Lives(t)
  <1> DEFINE n == Len(t.store)
             s == t.store
             r == u.store
             i == T!Last(s)
  <1>1. /\ s \in Seq(T!Node) /\ n \in Nat /\ n > 0 /\ i \in T!Node /\ i = s[n]
        /\ Len(r) = n - 1 /\ \A k \in 1 .. n - 1 : r[k] = s[k]
    BY StoreIs DEF TState
  <1>2. /\ \A k, l \in 1 .. n : s[k] = s[l] => k = l
        /\ \A k \in 1 .. n : s[k] \in T!Node \ Lives(t)
        /\ \A j \in T!Node \ Lives(t) : \E k \in 1 .. n : s[k] = j
    BY DEF Stored
  <1>3. Lives(u) = Lives(t) \cup {i}
    OBVIOUS
  <1> HIDE DEF n, s, r, i
  <1>4. /\ n \in 1 .. n /\ \A k \in 1 .. n - 1 : k \in 1 .. n /\ k # n
        /\ \A k \in 1 .. n : k = n \/ k \in 1 .. n - 1
    BY <1>1
  <1>5. \A k, l \in 1 .. n - 1 : r[k] = r[l] => k = l
    BY <1>1, <1>2, <1>4
  <1>6. \A k \in 1 .. n - 1 : r[k] \in T!Node \ Lives(u)
    BY <1>1, <1>2, <1>3, <1>4
  <1>7. \A j \in T!Node \ Lives(u) : \E k \in 1 .. n - 1 : r[k] = j
    BY <1>1, <1>2, <1>3, <1>4
  <1>8. Stored(u)
    BY <1>1, <1>5, <1>6, <1>7 DEF Stored, r
  <1>9. i \in T!Node \ Lives(t)
    BY <1>1, <1>2, <1>4
  <1>10. QED
    BY <1>1, <1>8, <1>9 DEF n, r, s, i

(* As long as there is a block, not all nodes are on the stack. *)
LEMMA StoreShort ==
  ASSUME NEW t \in TState, Stored(t), Lives(t) # {}
  PROVE  Len(t.store) < MaxAllocs
  <1> DEFINE n == Len(t.store)
             s == t.store
             S == T!Node \ Lives(t)
  <1>1. /\ s \in Seq(T!Node) /\ n \in Nat /\ s \in [1 .. n -> T!Node] /\ MaxAllocs \in Nat
    BY LenProperties, TlsfConstantsAre DEF TState
  <1>2. s \in [1 .. n -> S]
    BY <1>1 DEF Stored
  <1>3. IsFiniteSet(T!Node) /\ Cardinality(T!Node) = MaxAllocs
    <2>1. /\ IsFiniteSet(0 .. MaxAllocs - 1)
          /\ Cardinality(0 .. MaxAllocs - 1) = IF 0 > MaxAllocs - 1 THEN 0 ELSE MaxAllocs - 1 - 0 + 1
      <3>1. 0 \in Int /\ MaxAllocs - 1 \in Int
        BY <1>1
      <3>2. QED
        BY ONLY <3>1, FS_Interval
    <2>2. QED
      BY <1>1, <2>1 DEF T!Node
  <1>4. PICK x \in Lives(t) : TRUE
    OBVIOUS
  <1>5. x \in T!Node
    BY DEF Lives
  <1>6. IsFiniteSet(T!Node \ {x}) /\ Cardinality(T!Node \ {x}) = MaxAllocs - 1
    BY <1>3, <1>5, FS_RemoveElement
  <1>7. IsFiniteSet(S) /\ Cardinality(S) <= MaxAllocs - 1
    <2>1. S \in SUBSET (T!Node \ {x})
      BY <1>4
    <2>2. QED
      BY ONLY <1>6, <2>1, FS_Subset
  <1>8. IsFiniteSet(1 .. n) /\ Cardinality(1 .. n) = n
    <2> HIDE DEF n
    <2>1. IsFiniteSet(1 .. n) /\ Cardinality(1 .. n) = IF 1 > n THEN 0 ELSE n - 1 + 1
      <3>1. 1 \in Int /\ n \in Int
        BY <1>1
      <3>2. QED
        BY ONLY <3>1, FS_Interval
    <2>2. QED
      BY <1>1, <2>1
  <1>9. \A k, l \in 1 .. n : s[k] = s[l] => k = l
    BY DEF Stored
  <1>10. Cardinality(S) \in Nat
    BY <1>7, FS_CardinalityType
  <1>11. ~(Cardinality(S) < Cardinality(1 .. n))
    <2>1. ASSUME Cardinality(S) < Cardinality(1 .. n)
          PROVE  \E k, l \in 1 .. n : k # l /\ s[k] = s[l]
      BY ONLY <1>2, <1>7, <1>8, <2>1, FS_PigeonHole
    <2>2. QED
      BY <1>9, <2>1
  <1>12. QED
    <2> HIDE DEF n, S
    <2>1. n <= MaxAllocs - 1
      BY <1>1, <1>7, <1>8, <1>10, <1>11
    <2>2. QED
      BY <1>1, <2>1 DEF n

-----------------------------------------------------------------------------
(* Tlsf: blocks become one again. *)
Good(t) ==
  /\ t \in TState /\ Chains(t, Frees(t)) /\ Blocks(t) /\ Stored(t) /\ Idle(t)

(* No two neighbours are free. *)
NoPair(t) ==
  \A j \in Lives(t) : t.nodes[j].aoNext # T!NULL =>
    t.nodes[j].allocated \/ t.nodes[t.nodes[j].aoNext].allocated

(* The client's blocks but that of node i are as they were. *)
Held(t) == Lives(t) \ Frees(t)
Kept(u, t, i) ==
  /\ Held(u) \ {i} = Held(t) \ {i}
  /\ \A j \in Held(t) \ {i} :
       u.nodes[j].offset = t.nodes[j].offset /\ u.nodes[j].size = t.nodes[j].size

LEMMA HeldIs ==
  ASSUME NEW t \in TState
  PROVE  /\ \A j : j \in Held(t) <=> j \in Lives(t) /\ t.nodes[j].allocated
         /\ \A j : j \in Frees(t) <=> j \in Lives(t) /\ ~t.nodes[j].allocated
         /\ \A j : j \in Lives(t) <=> j \in T!Node /\ t.nodes[j].offset # T!NULL
  BY DEF Held, Frees, Lives

LEMMA UnitedIs ==
  ASSUME NEW t, Good(t), NoPair(t), NEW a \in Lives(t), NEW x, x = t.nodes[a].aoNext, x # T!NULL,
         NEW i, NEW gone, (i = a /\ gone = x) \/ (i = x /\ gone = a),
         t.nodes[i].allocated, ~t.nodes[gone].allocated,
         NEW r, r = T!RemoveNode(t, gone), NEW u \in TState, Unites(u, t, a, x, i, gone),
         u.l1 = r.l1, u.l2 = r.l2, u.heads = r.heads, u.store = r.store,
         \A j \in T!Node : u.nodes[j].next = r.nodes[j].next /\ u.nodes[j].prev = r.nodes[j].prev,
         \A j \in T!Node : u.nodes[j].allocated <=> j # gone /\ t.nodes[j].allocated
  PROVE  /\ Good(u) /\ NoPair(u) /\ Kept(u, t, i) /\ i \in Held(u)
         /\ Lives(u) = Lives(t) \ {gone} /\ Len(u.store) = Len(t.store) + 1
  <1>1. /\ t \in TState /\ Chains(t, Frees(t)) /\ Blocks(t) /\ Stored(t) /\ Idle(t)
    BY DEF Good
  <1>2. /\ x \in Lives(t) /\ a # x /\ a \in T!Node /\ x \in T!Node
        /\ gone \in Frees(t) /\ i \in Lives(t) /\ i \in T!Node /\ gone \in T!Node /\ i # gone
        /\ i \notin Frees(t) /\ gone \in Lives(t)
    BY <1>1, LiveIs DEF Frees
  <1>3. Blocks(u) /\ Lives(u) = Lives(t) \ {gone}
    BY <1>1, UniteIs
  <1>4. /\ r \in TState /\ Chains(r, Frees(t) \ {gone}) /\ r.store = Append(t.store, gone)
        /\ SameBlocks(r, t, T!Node \ {gone})
    <2>1. /\ t \in TState /\ Chains(t, Frees(t)) /\ gone \in Frees(t)
          /\ r = T!RemoveNode(t, gone)
      BY <1>1, <1>2
    <2>2. QED
      BY ONLY <2>1, RemoveNodeIs
  <1>5. Stored(u) /\ Len(u.store) = Len(t.store) + 1
    BY <1>1, <1>2, <1>3, <1>4, PushIs
  <1>6. Frees(u) = Frees(t) \ {gone} /\ Frees(t) \subseteq T!Node
    BY <1>2, <1>3 DEF Frees, Lives
  <1>7. Held(u) = Held(t) /\ i \in Held(u)
    BY <1>2, <1>3, <1>6 DEF Held
  <1>8. Idle(u)
    BY <1>1, <1>3 DEF Idle
  <1>9. \A j \in T!Node \ {a, x} :
          u.nodes[j].offset = t.nodes[j].offset /\ u.nodes[j].size = t.nodes[j].size
    BY DEF Unites
  <1>10. Chains(u, Frees(u))
    <2>1. \A j \in Frees(t) \ {gone} : j \in T!Node \ {a, x}
      BY <1>2, <1>6
    <2>2. \A j \in Frees(t) \ {gone} : u.nodes[j].size = r.nodes[j].size
      BY <1>2, <1>4, <1>9, <2>1 DEF SameBlocks
    <2>3. SameLists(u, r, Frees(t) \ {gone})
      BY <1>6, <2>2 DEF SameLists
    <2>4. QED
      BY <1>4, <1>6, <2>3, ChainsStay
  <1>11. NoPair(u)
    <2>1. ASSUME NEW j \in Lives(u), u.nodes[j].aoNext # T!NULL, ~u.nodes[j].allocated
          PROVE  u.nodes[u.nodes[j].aoNext].allocated
      <3>1. j \in Lives(t) /\ j # gone /\ j # i /\ j \in T!Node \ {a, x} /\ ~t.nodes[j].allocated
        BY <1>2, <1>3, <2>1 DEF Lives
      <3>2. u.nodes[j].aoNext = IF j = t.nodes[a].aoPrevious THEN i ELSE t.nodes[j].aoNext
        BY <3>1 DEF Unites
      <3>3. u.nodes[i].allocated
        BY <1>2
      <3>4. CASE j = t.nodes[a].aoPrevious
        BY <3>2, <3>3, <3>4
      <3>5. CASE j # t.nodes[a].aoPrevious
        <4>1. u.nodes[j].aoNext = t.nodes[j].aoNext
          BY <3>2, <3>5
        <4>2. /\ t.nodes[j].aoNext \in Lives(t) /\ t.nodes[t.nodes[j].aoNext].aoPrevious = j
              /\ t.nodes[t.nodes[j].aoNext].allocated
          BY <1>1, <2>1, <3>1, <4>1, LiveIs DEF NoPair
        <4>3. t.nodes[j].aoNext # gone
          BY <4>2
        <4>4. t.nodes[j].aoNext \in T!Node
          BY <4>2 DEF Lives
        <4>5. QED
          BY <4>1, <4>2, <4>3, <4>4
      <3>6. QED
        BY <3>4, <3>5
    <2>2. QED
      BY <2>1 DEF NoPair
  <1>12. Kept(u, t, i)
    <2>1. \A j \in Held(t) \ {i} : j \in T!Node \ {a, x}
      BY <1>2 DEF Held, Lives
    <2>2. QED
      BY <1>7, <1>9, <2>1 DEF Kept
  <1>13. QED
    BY <1>3, <1>5, <1>7, <1>8, <1>10, <1>11, <1>12 DEF Good

(* A node with other links in memory only. *)
Relinked(m, n, before, behind) ==
  /\ m \in TNode /\ m.offset = n.offset /\ m.size = n.size /\ m.next = n.next /\ m.prev = n.prev
  /\ m.aoPrevious = before /\ m.aoNext = behind /\ m.allocated = n.allocated

LEMMA RelinkIs ==
  ASSUME NEW n \in TNode, NEW p \in T!Pointer
  PROVE  /\ Relinked([n EXCEPT !.aoNext = p], n, n.aoPrevious, p)
         /\ Relinked([n EXCEPT !.aoPrevious = p], n, p, n.aoNext)
  BY DEF Relinked, TNode

(* A node that grows. *)
Grown(m, n, size, offset, before, behind) ==
  /\ m \in TNode /\ m.offset = offset /\ m.size = size /\ m.next = n.next /\ m.prev = n.prev
  /\ m.aoPrevious = before /\ m.aoNext = behind /\ m.allocated = n.allocated

LEMMA GrowIs ==
  ASSUME NEW n \in TNode, NEW size \in 0 .. T!Total, NEW offset \in 0 .. T!Total,
         NEW p \in T!Pointer
  PROVE  /\ Grown([n EXCEPT !.size = size, !.offset = offset, !.aoPrevious = p],
                  n, size, offset, p, n.aoNext)
         /\ n.offset = offset =>
              Grown([n EXCEPT !.size = size, !.aoNext = p], n, size, offset, n.aoPrevious, p)
  BY DEF Grown, TNode

(* The same state with other nodes. *)
LEMMA NodesSet ==
  ASSUME NEW t \in TState, NEW i \in T!Node, NEW m \in TNode
  PROVE  /\ [t EXCEPT !.nodes[i] = m] \in TState
         /\ [t EXCEPT !.nodes[i] = m].l1 = t.l1 /\ [t EXCEPT !.nodes[i] = m].l2 = t.l2
         /\ [t EXCEPT !.nodes[i] = m].heads = t.heads
         /\ [t EXCEPT !.nodes[i] = m].store = t.store
         /\ [t EXCEPT !.nodes[i] = m].nodes[i] = m
         /\ \A j \in T!Node \ {i} : [t EXCEPT !.nodes[i] = m].nodes[j] = t.nodes[j]
  <1>1. t.nodes \in [T!Node -> TNode]
    BY DEF TState
  <1>2. [t.nodes EXCEPT ![i] = m] \in [T!Node -> TNode]
    BY <1>1
  <1> DEFINE u == [t EXCEPT !.nodes[i] = m]
  <1>3. /\ u.l1 = t.l1 /\ u.l2 = t.l2 /\ u.heads = t.heads /\ u.store = t.store
        /\ u.nodes = [t.nodes EXCEPT ![i] = m]
        /\ u = [l1 |-> u.l1, l2 |-> u.l2, heads |-> u.heads, nodes |-> u.nodes, store |-> u.store]
    BY DEF TState
  <1> HIDE DEF u
  <1>4. u \in TState
    <2>1. /\ t.l1 \in SUBSET T!FirstLevel /\ t.l2 \in [T!FirstLevel -> SUBSET T!SecondLevel]
          /\ t.heads \in [Cls -> T!Pointer] /\ t.store \in Seq(T!Node)
      BY DEF TState
    <2>2. QED
      BY <1>2, <1>3, <2>1 DEF TState
  <1>5. u.nodes[i] = m /\ \A j \in T!Node \ {i} : u.nodes[j] = t.nodes[j]
    BY <1>1, <1>3
  <1>6. QED
    BY <1>3, <1>4, <1>5 DEF u

(* free() and the block before. *)
LEMMA MergeBeforeIs ==
  ASSUME NEW t, Good(t), NoPair(t), NEW i \in Held(t),
         T!FreeNeighbour(t, t.nodes[i].aoPrevious),
         NEW u, u = T!MergePrevious(t, i)
  PROVE  /\ Good(u) /\ NoPair(u) /\ Kept(u, t, i) /\ i \in Held(u)
         /\ ~T!FreeNeighbour(u, u.nodes[i].aoPrevious)
  <1> DEFINE p == t.nodes[i].aoPrevious
             b == t.nodes[p].aoPrevious
             r == T!RemoveNode(t, p)
             z == t.nodes[i].size + t.nodes[p].size
             m == [r.nodes[i] EXCEPT !.size = z, !.offset = t.nodes[p].offset, !.aoPrevious = b]
             g == [r EXCEPT !.nodes[i] = m]
  <1>1. /\ t \in TState /\ Chains(t, Frees(t)) /\ Blocks(t) /\ i \in Lives(t) /\ i \in T!Node
        /\ t.nodes[i].allocated /\ p # T!NULL /\ ~t.nodes[p].allocated
    BY DEF Good, T!FreeNeighbour, Held, Lives, Frees
  <1>2. /\ p \in Lives(t) /\ t.nodes[p].aoNext = i /\ p \in T!Node /\ p # i
        /\ t.nodes[p].offset + t.nodes[p].size = t.nodes[i].offset /\ b # p /\ b # i
    BY <1>1, LiveIs
  <1>3. b # T!NULL => b \in Lives(t) /\ b \in T!Node /\ t.nodes[b].aoNext = p
    <2>1. b # T!NULL => b \in Lives(t) /\ t.nodes[b].aoNext = p
      <3> HIDE DEF p
      <3>1. QED
        BY <1>1, <1>2, LiveIs
    <2>2. QED
      BY <2>1 DEF Lives
  <1>4. p \in Frees(t)
    BY <1>1, <1>2 DEF Frees
  <1>5. /\ r \in TState /\ SameBlocks(r, t, T!Node \ {p}) /\ r.nodes[p] = T!Unused
    BY ONLY <1>1, <1>4, RemoveNodeIs
  <1>6. u = IF b = T!NULL THEN g ELSE [g EXCEPT !.nodes[b].aoNext = i]
    BY DEF T!MergePrevious
  <1>7. /\ r.nodes[i] \in TNode /\ r.nodes[i].size = t.nodes[i].size
        /\ r.nodes[i].aoNext = t.nodes[i].aoNext /\ r.nodes[i].allocated = t.nodes[i].allocated
    BY <1>1, <1>2, <1>5, TNodeIs DEF SameBlocks
  <1>8. /\ t.nodes[p].offset \in 0 .. T!Total
        /\ t.nodes[i].size + t.nodes[p].size \in 0 .. T!Total /\ b \in T!Pointer
    <2>1. Place(t, p) /\ Place(t, i)
      BY <1>1, <1>2 DEF Blocks
    <2>2. b \in T!Pointer
      BY <1>1, <1>2, TNodeIs
    <2>3. QED
      BY <1>2, <2>1, <2>2, TlsfConstantsAre DEF Place
  <1>9. Grown(m, r.nodes[i], z, t.nodes[p].offset, b, t.nodes[i].aoNext)
    <2>1. m = [r.nodes[i] EXCEPT !.size = z, !.offset = t.nodes[p].offset, !.aoPrevious = b]
      OBVIOUS
    <2> HIDE DEF m, z, b, r
    <2>2. z \in 0 .. T!Total
      BY <1>8 DEF z
    <2>3. QED
      BY <1>7, <1>8, <2>1, <2>2, GrowIs
  <1> HIDE DEF m, r, b
  <1>10. /\ g \in TState /\ g.l1 = r.l1 /\ g.l2 = r.l2 /\ g.heads = r.heads
         /\ g.store = r.store /\ g.nodes[i] = m
         /\ \A j \in T!Node \ {i} : g.nodes[j] = r.nodes[j]
    <2>1. m \in TNode
      BY <1>9 DEF Grown
    <2>2. QED
      BY <1>1, <1>5, <2>1, NodesSet
  <1> HIDE DEF g, p
  <1>11. /\ u \in TState /\ u.l1 = r.l1 /\ u.l2 = r.l2 /\ u.heads = r.heads /\ u.store = r.store
         /\ u.nodes[i] = m /\ u.nodes[p] = T!Unused
         /\ \A j \in T!Node \ {i, p} :
              Relinked(u.nodes[j], r.nodes[j], r.nodes[j].aoPrevious,
                       IF j = b THEN i ELSE r.nodes[j].aoNext)
    <2>1. \A j \in T!Node :
            r.nodes[j] \in TNode
              /\ Relinked(r.nodes[j], r.nodes[j], r.nodes[j].aoPrevious, r.nodes[j].aoNext)
      BY <1>5, TNodeIs DEF Relinked
    <2>2. CASE b = T!NULL
      <3>1. u = g /\ \A j \in T!Node : j # b
        BY <1>6, <2>2, TNodeIs
      <3>2. QED
        BY <1>1, <1>2, <1>5, <1>10, <2>1, <3>1
    <2>3. CASE b # T!NULL
      <3> DEFINE mb == [r.nodes[b] EXCEPT !.aoNext = i]
      <3>1. b \in T!Node /\ b # i /\ b # p /\ i \in T!Pointer /\ g.nodes[b] = r.nodes[b]
        BY <1>1, <1>2, <1>3, <1>10, <2>3, TNodeIs
      <3>2. u = [g EXCEPT !.nodes[b] = mb]
        <4>1. u = [g EXCEPT !.nodes[b].aoNext = i]
          BY <1>6, <2>3
        <4>2. QED
          BY <3>1, <4>1
      <3>3. Relinked(mb, r.nodes[b], r.nodes[b].aoPrevious, i)
        BY <2>1, <3>1, RelinkIs
      <3> HIDE DEF mb
      <3>4. mb \in TNode
        BY <3>3 DEF Relinked
      <3>5. /\ u \in TState /\ u.l1 = g.l1 /\ u.l2 = g.l2 /\ u.heads = g.heads
            /\ u.store = g.store /\ u.nodes[b] = mb
            /\ \A j \in T!Node \ {b} : u.nodes[j] = g.nodes[j]
        BY <1>10, <3>1, <3>2, <3>4, NodesSet
      <3>6. QED
        BY <1>1, <1>2, <1>5, <1>10, <2>1, <3>1, <3>3, <3>5
    <2>4. QED
      BY <2>2, <2>3
  <1>12. /\ \A j \in T!Node : u.nodes[j].next = r.nodes[j].next /\ u.nodes[j].prev = r.nodes[j].prev
         /\ \A j \in T!Node : u.nodes[j].allocated <=> j # p /\ t.nodes[j].allocated
    <2>1. /\ u.nodes[i].next = r.nodes[i].next /\ u.nodes[i].prev = r.nodes[i].prev
          /\ u.nodes[i].allocated = t.nodes[i].allocated
      BY <1>7, <1>9, <1>11 DEF Grown
    <2>2. u.nodes[p] = r.nodes[p] /\ ~u.nodes[p].allocated
      BY <1>5, <1>11, UnusedIs
    <2>3. \A j \in T!Node \ {i, p} :
            /\ u.nodes[j].next = r.nodes[j].next /\ u.nodes[j].prev = r.nodes[j].prev
            /\ u.nodes[j].allocated = t.nodes[j].allocated
      BY <1>5, <1>11 DEF Relinked, SameBlocks
    <2>4. QED
      BY <1>2, <2>1, <2>2, <2>3
  <1>13. Unites(u, t, p, i, i, p)
    <2>1. /\ u.nodes[i].offset = t.nodes[p].offset
          /\ u.nodes[i].size = t.nodes[p].size + t.nodes[i].size
          /\ u.nodes[i].aoPrevious = b /\ u.nodes[i].aoNext = t.nodes[i].aoNext
      <3>1. t.nodes[p].size \in Int /\ t.nodes[i].size \in Int
        BY <1>1, <1>2, LiveIs
      <3>2. QED
        BY <1>9, <1>11, <3>1 DEF Grown
    <2>2. u.nodes[p].offset = T!NULL
      BY <1>11, UnusedIs
    <2>3. ASSUME NEW j \in T!Node \ {p, i}
          PROVE  /\ u.nodes[j].offset = t.nodes[j].offset /\ u.nodes[j].size = t.nodes[j].size
                 /\ u.nodes[j].aoPrevious =
                      IF j = t.nodes[i].aoNext THEN i ELSE t.nodes[j].aoPrevious
                 /\ u.nodes[j].aoNext = IF j = b THEN i ELSE t.nodes[j].aoNext
      <3>1. /\ u.nodes[j].offset = t.nodes[j].offset /\ u.nodes[j].size = t.nodes[j].size
            /\ u.nodes[j].aoPrevious = t.nodes[j].aoPrevious
            /\ u.nodes[j].aoNext = IF j = b THEN i ELSE t.nodes[j].aoNext
        BY <1>5, <1>11, <2>3 DEF Relinked, SameBlocks
      <3>2. j = t.nodes[i].aoNext => t.nodes[j].aoPrevious = i
        <4>1. j # T!NULL
          BY <2>3, TNodeIs
        <4>2. QED
          BY <1>1, <4>1, LiveIs
      <3>3. QED
        BY <3>1, <3>2
    <2>4. QED
      BY <2>1, <2>2, <2>3 DEF Unites, b
  <1>14. /\ Good(u) /\ NoPair(u) /\ Kept(u, t, i) /\ i \in Held(u)
         /\ Lives(u) = Lives(t) \ {p}
    <2>1. r = T!RemoveNode(t, p)
      BY DEF r
    <2>2. i = t.nodes[p].aoNext /\ i # T!NULL
      BY <1>1, <1>2, LiveIs
    <2>3. QED
      BY <1>1, <1>2, <1>11, <1>12, <1>13, <2>1, <2>2, UnitedIs
  <1>15. ~T!FreeNeighbour(u, u.nodes[i].aoPrevious)
    <2>1. u.nodes[i].aoPrevious = b
      BY <1>9, <1>11 DEF Grown
    <2>2. b # T!NULL => u.nodes[b].allocated
      <3>1. ASSUME b # T!NULL
            PROVE  u.nodes[b].allocated
        <4>1. t.nodes[b].allocated /\ b # p
          BY <1>1, <1>2, <1>3, <3>1 DEF NoPair
        <4>2. QED
          BY <1>3, <1>12, <3>1, <4>1
      <3>2. QED
        BY <3>1
    <2>3. QED
      BY <2>1, <2>2 DEF T!FreeNeighbour
  <1>16. QED
    BY <1>14, <1>15

(* And the block behind. *)
LEMMA MergeBehindIs ==
  ASSUME NEW t, Good(t), NoPair(t), NEW i \in Held(t),
         T!FreeNeighbour(t, t.nodes[i].aoNext),
         NEW u, u = T!MergeNext(t, i)
  PROVE  /\ Good(u) /\ NoPair(u) /\ Kept(u, t, i) /\ i \in Held(u)
         /\ ~T!FreeNeighbour(u, u.nodes[i].aoNext)
         /\ ~T!FreeNeighbour(t, t.nodes[i].aoPrevious)
              => ~T!FreeNeighbour(u, u.nodes[i].aoPrevious)
  <1> DEFINE x == t.nodes[i].aoNext
             d == t.nodes[x].aoNext
             r == T!RemoveNode(t, x)
             z == t.nodes[i].size + t.nodes[x].size
             m == [r.nodes[i] EXCEPT !.size = z, !.aoNext = d]
             g == [r EXCEPT !.nodes[i] = m]
  <1>1. /\ t \in TState /\ Chains(t, Frees(t)) /\ Blocks(t) /\ i \in Lives(t) /\ i \in T!Node
        /\ t.nodes[i].allocated /\ x # T!NULL /\ ~t.nodes[x].allocated
    BY DEF Good, T!FreeNeighbour, Held, Lives, Frees
  <1>2. /\ x \in Lives(t) /\ t.nodes[x].aoPrevious = i /\ x \in T!Node /\ x # i
        /\ t.nodes[i].offset + t.nodes[i].size = t.nodes[x].offset /\ d # x /\ d # i
    BY <1>1, LiveIs
  <1>3. d # T!NULL => d \in Lives(t) /\ d \in T!Node /\ t.nodes[d].aoPrevious = x
    <2>1. d # T!NULL => d \in Lives(t) /\ t.nodes[d].aoPrevious = x
      <3> HIDE DEF x
      <3>1. QED
        BY <1>1, <1>2, LiveIs
    <2>2. QED
      BY <2>1 DEF Lives
  <1>4. x \in Frees(t)
    BY <1>1, <1>2 DEF Frees
  <1>5. /\ r \in TState /\ SameBlocks(r, t, T!Node \ {x}) /\ r.nodes[x] = T!Unused
    BY ONLY <1>1, <1>4, RemoveNodeIs
  <1>6. u = IF d = T!NULL THEN g ELSE [g EXCEPT !.nodes[d].aoPrevious = i]
    BY DEF T!MergeNext
  <1>7. /\ r.nodes[i] \in TNode /\ r.nodes[i].offset = t.nodes[i].offset
        /\ r.nodes[i].aoPrevious = t.nodes[i].aoPrevious
        /\ r.nodes[i].allocated = t.nodes[i].allocated
    BY <1>1, <1>2, <1>5, TNodeIs DEF SameBlocks
  <1>8. /\ t.nodes[i].offset \in 0 .. T!Total /\ z \in 0 .. T!Total /\ d \in T!Pointer
    <2>1. Place(t, x) /\ Place(t, i)
      BY <1>1, <1>2 DEF Blocks
    <2>2. d \in T!Pointer
      BY <1>1, <1>2, TNodeIs
    <2>3. QED
      BY <1>2, <2>1, <2>2, TlsfConstantsAre DEF Place
  <1>9. Grown(m, r.nodes[i], z, t.nodes[i].offset, t.nodes[i].aoPrevious, d)
    <2>1. m = [r.nodes[i] EXCEPT !.size = z, !.aoNext = d]
      OBVIOUS
    <2> HIDE DEF m, z, d, r
    <2>2. QED
      BY <1>7, <1>8, <2>1, GrowIs
  <1> HIDE DEF m, r, d
  <1>10. /\ g \in TState /\ g.l1 = r.l1 /\ g.l2 = r.l2 /\ g.heads = r.heads
         /\ g.store = r.store /\ g.nodes[i] = m
         /\ \A j \in T!Node \ {i} : g.nodes[j] = r.nodes[j]
    <2>1. m \in TNode
      BY <1>9 DEF Grown
    <2>2. QED
      BY <1>1, <1>5, <2>1, NodesSet
  <1> HIDE DEF g, x
  <1>11. /\ u \in TState /\ u.l1 = r.l1 /\ u.l2 = r.l2 /\ u.heads = r.heads /\ u.store = r.store
         /\ u.nodes[i] = m /\ u.nodes[x] = T!Unused
         /\ \A j \in T!Node \ {i, x} :
              Relinked(u.nodes[j], r.nodes[j], IF j = d THEN i ELSE r.nodes[j].aoPrevious,
                       r.nodes[j].aoNext)
    <2>1. \A j \in T!Node :
            r.nodes[j] \in TNode
              /\ Relinked(r.nodes[j], r.nodes[j], r.nodes[j].aoPrevious, r.nodes[j].aoNext)
      BY <1>5, TNodeIs DEF Relinked
    <2>2. CASE d = T!NULL
      <3>1. u = g /\ \A j \in T!Node : j # d
        BY <1>6, <2>2, TNodeIs
      <3>2. QED
        BY <1>1, <1>2, <1>5, <1>10, <2>1, <3>1
    <2>3. CASE d # T!NULL
      <3> DEFINE md == [r.nodes[d] EXCEPT !.aoPrevious = i]
      <3>1. d \in T!Node /\ d # i /\ d # x /\ i \in T!Pointer /\ g.nodes[d] = r.nodes[d]
        BY <1>1, <1>2, <1>3, <1>10, <2>3, TNodeIs
      <3>2. u = [g EXCEPT !.nodes[d] = md]
        <4>1. u = [g EXCEPT !.nodes[d].aoPrevious = i]
          BY <1>6, <2>3
        <4>2. QED
          BY <3>1, <4>1
      <3>3. Relinked(md, r.nodes[d], i, r.nodes[d].aoNext)
        BY <2>1, <3>1, RelinkIs
      <3> HIDE DEF md
      <3>4. md \in TNode
        BY <3>3 DEF Relinked
      <3>5. /\ u \in TState /\ u.l1 = g.l1 /\ u.l2 = g.l2 /\ u.heads = g.heads
            /\ u.store = g.store /\ u.nodes[d] = md
            /\ \A j \in T!Node \ {d} : u.nodes[j] = g.nodes[j]
        BY <1>10, <3>1, <3>2, <3>4, NodesSet
      <3>6. QED
        BY <1>1, <1>2, <1>5, <1>10, <2>1, <3>1, <3>3, <3>5
    <2>4. QED
      BY <2>2, <2>3
  <1>12. /\ \A j \in T!Node : u.nodes[j].next = r.nodes[j].next /\ u.nodes[j].prev = r.nodes[j].prev
         /\ \A j \in T!Node : u.nodes[j].allocated <=> j # x /\ t.nodes[j].allocated
    <2>1. /\ u.nodes[i].next = r.nodes[i].next /\ u.nodes[i].prev = r.nodes[i].prev
          /\ u.nodes[i].allocated = t.nodes[i].allocated
      BY <1>7, <1>9, <1>11 DEF Grown
    <2>2. u.nodes[x] = r.nodes[x] /\ ~u.nodes[x].allocated
      BY <1>5, <1>11, UnusedIs
    <2>3. \A j \in T!Node \ {i, x} :
            /\ u.nodes[j].next = r.nodes[j].next /\ u.nodes[j].prev = r.nodes[j].prev
            /\ u.nodes[j].allocated = t.nodes[j].allocated
      BY <1>5, <1>11 DEF Relinked, SameBlocks
    <2>4. QED
      BY <1>2, <2>1, <2>2, <2>3
  <1>13. Unites(u, t, i, x, i, x)
    <2>1. /\ u.nodes[i].offset = t.nodes[i].offset
          /\ u.nodes[i].size = t.nodes[i].size + t.nodes[x].size
          /\ u.nodes[i].aoPrevious = t.nodes[i].aoPrevious /\ u.nodes[i].aoNext = d
      BY <1>9, <1>11 DEF Grown
    <2>2. u.nodes[x].offset = T!NULL
      BY <1>11, UnusedIs
    <2>3. ASSUME NEW j \in T!Node \ {i, x}
          PROVE  /\ u.nodes[j].offset = t.nodes[j].offset /\ u.nodes[j].size = t.nodes[j].size
                 /\ u.nodes[j].aoPrevious = IF j = d THEN i ELSE t.nodes[j].aoPrevious
                 /\ u.nodes[j].aoNext =
                      IF j = t.nodes[i].aoPrevious THEN i ELSE t.nodes[j].aoNext
      <3>1. /\ u.nodes[j].offset = t.nodes[j].offset /\ u.nodes[j].size = t.nodes[j].size
            /\ u.nodes[j].aoPrevious = IF j = d THEN i ELSE t.nodes[j].aoPrevious
            /\ u.nodes[j].aoNext = t.nodes[j].aoNext
        BY <1>5, <1>11, <2>3 DEF Relinked, SameBlocks
      <3>2. j = t.nodes[i].aoPrevious => t.nodes[j].aoNext = i
        <4>1. j # T!NULL
          BY <2>3, TNodeIs
        <4>2. QED
          BY <1>1, <4>1, LiveIs
      <3>3. QED
        BY <3>1, <3>2
    <2>4. QED
      BY <2>1, <2>2, <2>3 DEF Unites, d
  <1>14. /\ Good(u) /\ NoPair(u) /\ Kept(u, t, i) /\ i \in Held(u)
         /\ Lives(u) = Lives(t) \ {x}
    <2>1. r = T!RemoveNode(t, x) /\ x = t.nodes[i].aoNext
      BY DEF r, x
    <2>2. /\ Good(t) /\ NoPair(t) /\ i \in Lives(t) /\ x # T!NULL
          /\ t.nodes[i].allocated /\ ~t.nodes[x].allocated
          /\ u \in TState /\ u.l1 = r.l1 /\ u.l2 = r.l2 /\ u.heads = r.heads
          /\ u.store = r.store
      BY <1>1, <1>2, <1>11
    <2> DEFINE a == i
               gone == x
    <2>3. /\ (i = a /\ gone = x) \/ (i = x /\ gone = a)
          /\ a \in Lives(t) /\ x = t.nodes[a].aoNext /\ ~t.nodes[gone].allocated
          /\ Unites(u, t, a, x, i, gone) /\ r = T!RemoveNode(t, gone)
          /\ \A j \in T!Node : u.nodes[j].allocated <=> j # gone /\ t.nodes[j].allocated
      BY <1>12, <1>13, <2>1, <2>2
    <2> HIDE DEF a, gone
    <2>4. /\ Good(u) /\ NoPair(u) /\ Kept(u, t, i) /\ i \in Held(u)
          /\ Lives(u) = Lives(t) \ {gone}
      BY ONLY <1>12, <2>2, <2>3, UnitedIs
    <2>5. QED
      BY <2>4 DEF gone
  <1>15. ~T!FreeNeighbour(u, u.nodes[i].aoNext)
    <2>1. u.nodes[i].aoNext = d
      BY <1>9, <1>11 DEF Grown
    <2>2. d # T!NULL => u.nodes[d].allocated
      <3>1. ASSUME d # T!NULL
            PROVE  u.nodes[d].allocated
        <4>1. t.nodes[d].allocated /\ d # x
          BY <1>1, <1>2, <1>3, <3>1 DEF NoPair, d
        <4>2. QED
          BY <1>3, <1>12, <3>1, <4>1
      <3>2. QED
        BY <3>1
    <2>3. QED
      BY <2>1, <2>2 DEF T!FreeNeighbour
  <1>16. ASSUME ~T!FreeNeighbour(t, t.nodes[i].aoPrevious)
         PROVE  ~T!FreeNeighbour(u, u.nodes[i].aoPrevious)
    <2> DEFINE p == t.nodes[i].aoPrevious
    <2>1. u.nodes[i].aoPrevious = p
      BY <1>9, <1>11 DEF Grown
    <2>2. p # T!NULL => p \in Lives(t) /\ p # x
      BY <1>1, LiveIs DEF x
    <2>3. p # T!NULL => t.nodes[p].allocated
      BY <1>16 DEF T!FreeNeighbour
    <2> HIDE DEF p
    <2>4. p # T!NULL => u.nodes[p].allocated
      BY <1>12, <2>2, <2>3 DEF Lives
    <2>5. QED
      BY <2>1, <2>4 DEF T!FreeNeighbour
  <1>17. QED
    BY <1>14, <1>15, <1>16

(* free(): the node is put back on the stack, and taken from it again. *)
LEMMA AppendedIs ==
  ASSUME NEW s \in Seq(T!Node), NEW i \in T!Node
  PROVE  /\ Append(s, i) \in Seq(T!Node) /\ Len(Append(s, i)) > 0
         /\ T!Last(Append(s, i)) = i /\ T!Front(Append(s, i)) = s
  <1> DEFINE n == Len(s)
             r == Append(s, i)
             f == T!Front(r)
  <1>1. n \in Nat /\ s \in [1 .. n -> T!Node]
    BY LenProperties
  <1>2. /\ r \in Seq(T!Node) /\ Len(r) = n + 1 /\ r[n + 1] = i
        /\ \A k \in 1 .. n : r[k] = s[k]
    BY AppendProperties
  <1>3. Len(r) > 0 /\ (n + 1) - 1 = n
    BY <1>1, <1>2
  <1> HIDE DEF r, n
  <1>4. /\ f \in Seq(T!Node) /\ Len(f) = n /\ \A k \in 1 .. n : f[k] = r[k]
        /\ T!Last(r) = r[n + 1]
    <2>1. /\ f \in Seq(T!Node) /\ Len(f) = Len(r) - 1 /\ T!Last(r) = r[Len(r)]
          /\ \A k \in 1 .. Len(r) - 1 : f[k] = r[k]
      BY <1>2, <1>3, StoreIs
    <2>2. Len(r) - 1 = n
      BY <1>2, <1>3
    <2>3. QED
      BY <1>2, <2>1, <2>2
  <1>5. f \in [1 .. n -> T!Node]
    BY <1>4, LenProperties
  <1>6. f = s
    BY <1>1, <1>2, <1>4, <1>5
  <1>7. QED
    BY <1>2, <1>3, <1>4, <1>6 DEF r

LEMMA StoreSet ==
  ASSUME NEW t \in TState, NEW s \in Seq(T!Node)
  PROVE  LET u == [t EXCEPT !.store = s]
         IN  /\ u \in TState /\ u.l1 = t.l1 /\ u.l2 = t.l2 /\ u.heads = t.heads
             /\ u.nodes = t.nodes /\ u.store = s
  BY DEF TState

LEMMA FreedSet ==
  ASSUME NEW n \in TNode
  PROVE  LET m == [n EXCEPT !.aoPrevious = n.aoPrevious, !.aoNext = n.aoNext, !.allocated = FALSE]
         IN  /\ m \in TNode /\ m.offset = n.offset /\ m.size = n.size /\ m.next = n.next
             /\ m.prev = n.prev /\ m.aoPrevious = n.aoPrevious /\ m.aoNext = n.aoNext
             /\ ~m.allocated
  BY DEF TNode

LEMMA PutFreeNodeIs ==
  ASSUME NEW t, Good(t), NoPair(t), NEW i \in Held(t),
         ~T!FreeNeighbour(t, t.nodes[i].aoPrevious), ~T!FreeNeighbour(t, t.nodes[i].aoNext),
         NEW u, u = T!PutFree(t, i)
  PROVE  Good(u) /\ NoPair(u) /\ Held(u) = Held(t) \ {i} /\ Kept(u, t, i)
  <1> DEFINE F == Frees(t)
             size == t.nodes[i].size
             offset == t.nodes[i].offset
             back == [t EXCEPT !.store = Append(@, i)]
             w == T!InsertNode(back, size, offset)
             m == [w.nodes[i] EXCEPT !.aoPrevious = t.nodes[i].aoPrevious,
                                     !.aoNext = t.nodes[i].aoNext, !.allocated = FALSE]
  <1>1. /\ t \in TState /\ Chains(t, F) /\ Blocks(t) /\ Stored(t) /\ Idle(t) /\ i \in Lives(t)
        /\ i \in T!Node /\ t.nodes[i].allocated /\ i \notin F
    BY HeldIs DEF Good
  <1>2. /\ size \in T!MinSize .. T!Total /\ offset \in 0 .. T!Total
    BY <1>1 DEF Blocks, Place
  <1>3. /\ back \in TState /\ back.l1 = t.l1 /\ back.l2 = t.l2 /\ back.heads = t.heads
        /\ back.nodes = t.nodes /\ back.store = Append(t.store, i)
        /\ Len(back.store) > 0 /\ T!Last(back.store) = i /\ T!Front(back.store) = t.store
    <2>1. /\ t.store \in Seq(T!Node)
          /\ t.l1 \in SUBSET T!FirstLevel /\ t.l2 \in [T!FirstLevel -> SUBSET T!SecondLevel]
          /\ t.heads \in [Cls -> T!Pointer] /\ t.nodes \in [T!Node -> TNode]
      BY <1>1 DEF TState
    <2>2. /\ Append(t.store, i) \in Seq(T!Node) /\ Len(Append(t.store, i)) > 0
          /\ T!Last(Append(t.store, i)) = i /\ T!Front(Append(t.store, i)) = t.store
      BY <1>1, <2>1, AppendedIs
    <2>3. back = [t EXCEPT !.store = Append(t.store, i)]
      OBVIOUS
    <2> HIDE DEF back
    <2>4. /\ back \in TState /\ back.l1 = t.l1 /\ back.l2 = t.l2 /\ back.heads = t.heads
          /\ back.nodes = t.nodes /\ back.store = Append(t.store, i)
      BY <1>1, <2>2, <2>3, StoreSet
    <2>5. QED
      BY <2>2, <2>4
  <1>4. u = [w EXCEPT !.nodes[i] = m]
    BY <1>3 DEF T!PutFree
  <1> HIDE DEF size, offset, back, F
  <1>5. Chains(back, F)
    <2>1. SameLists(back, t, F)
      BY <1>3 DEF SameLists
    <2>2. QED
      BY <1>1, <1>3, <2>1, ChainsStay
  <1>6. Inserts(w, back, i, size, offset) /\ Chains(w, F \cup {i})
    <2>1. Inserts(w, back, i, size, offset)
      BY <1>1, <1>2, <1>3, <1>5, InsertNodeIs
    <2>2. QED
      BY <1>1, <1>2, <1>3, <1>5, <2>1, InsertedIs
  <1> HIDE DEF w
  <1>7. /\ w \in TState /\ w.store = t.store
        /\ w.nodes[i] \in TNode /\ w.nodes[i].offset = t.nodes[i].offset
        /\ w.nodes[i].size = t.nodes[i].size /\ w.nodes[i].aoPrevious = t.nodes[i].aoPrevious
        /\ w.nodes[i].aoNext = t.nodes[i].aoNext
        /\ SameBlocks(w, t, T!Node \ {i})
    <2>1. w \in TState
      BY <1>6 DEF Inserts
    <2>2. w.nodes[i] \in TNode
      BY <1>1, <2>1, TNodeIs
    <2>3. QED
      BY <1>3, <1>6, <2>1, <2>2 DEF Inserts, size, offset, SameBlocks
  <1>8. /\ m \in TNode /\ m.offset = w.nodes[i].offset /\ m.size = w.nodes[i].size
        /\ m.next = w.nodes[i].next
        /\ m.prev = w.nodes[i].prev /\ m.aoPrevious = w.nodes[i].aoPrevious
        /\ m.aoNext = w.nodes[i].aoNext /\ ~m.allocated
    <2>1. m = [w.nodes[i] EXCEPT !.aoPrevious = w.nodes[i].aoPrevious,
                                 !.aoNext = w.nodes[i].aoNext, !.allocated = FALSE]
      BY <1>7
    <2> HIDE DEF m
    <2>2. QED
      BY <1>7, <2>1, FreedSet
  <1> HIDE DEF m
  <1>9. /\ u \in TState /\ u.l1 = w.l1 /\ u.l2 = w.l2 /\ u.heads = w.heads /\ u.store = w.store
        /\ u.nodes[i] = m /\ \A j \in T!Node \ {i} : u.nodes[j] = w.nodes[j]
    BY <1>1, <1>4, <1>7, <1>8, NodesSet
  <1>10. \A j \in T!Node :
           /\ u.nodes[j].offset = t.nodes[j].offset /\ u.nodes[j].size = t.nodes[j].size
           /\ u.nodes[j].aoPrevious = t.nodes[j].aoPrevious
           /\ u.nodes[j].aoNext = t.nodes[j].aoNext
           /\ u.nodes[j].allocated <=> j # i /\ t.nodes[j].allocated
    <2>1. \A j \in T!Node \ {i} :
            /\ u.nodes[j].offset = t.nodes[j].offset /\ u.nodes[j].size = t.nodes[j].size
            /\ u.nodes[j].aoPrevious = t.nodes[j].aoPrevious
            /\ u.nodes[j].aoNext = t.nodes[j].aoNext
            /\ u.nodes[j].allocated <=> t.nodes[j].allocated
      BY <1>7, <1>9 DEF SameBlocks
    <2>2. QED
      BY <1>7, <1>8, <1>9, <2>1
  <1>11. Blocks(u) /\ Lives(u) = Lives(t)
    BY <1>1, <1>10, BlocksStay
  <1>12. Frees(u) = F \cup {i} /\ Held(u) = Held(t) \ {i}
    <2>1. \A j \in Lives(u) : j \in T!Node
      BY DEF Lives
    <2>2. Frees(u) = F \cup {i}
      BY <1>1, <1>10, <1>11, <2>1 DEF Frees, F
    <2>3. QED
      BY <1>1, <1>11, <2>2 DEF Held, F
  <1>13. Chains(u, Frees(u))
    <2>1. F \cup {i} \subseteq T!Node
      BY <1>6 DEF Chains
    <2>2. SameLists(u, w, F \cup {i})
      BY <1>8, <1>9, <2>1 DEF SameLists
    <2>3. QED
      BY <1>6, <1>7, <1>9, <1>12, <2>2, ChainsStay
  <1>14. Stored(u) /\ Idle(u)
    <2>1. u.store = t.store
      BY <1>7, <1>9
    <2>2. QED
      BY <1>1, <1>10, <1>11, <2>1 DEF Stored, Idle
  <1>15. NoPair(u)
    <2>1. ASSUME NEW j \in Lives(u), u.nodes[j].aoNext # T!NULL
          PROVE  u.nodes[j].allocated \/ u.nodes[u.nodes[j].aoNext].allocated
      <3> DEFINE x == t.nodes[j].aoNext
      <3>1. /\ j \in Lives(t) /\ j \in T!Node /\ u.nodes[j].aoNext = x /\ x # T!NULL
        BY <1>10, <1>11, <2>1 DEF Lives
      <3>2. x \in Lives(t) /\ t.nodes[x].aoPrevious = j
        BY <1>1, <3>1, LiveIs
      <3>3. t.nodes[j].allocated \/ t.nodes[x].allocated
        BY <3>1 DEF NoPair
      <3>4. j = i => t.nodes[x].allocated /\ x # i
        <4>1. j = i => t.nodes[x].allocated
          BY <3>1 DEF T!FreeNeighbour
        <4>2. x # j
          BY <1>1, <3>1, LiveIs
        <4>3. QED
          BY <4>1, <4>2
      <3>5. x = i => t.nodes[j].allocated /\ j # i
        <4>1. j # T!NULL
          BY <1>1, <3>1, LiveIs
        <4>2. x = i => t.nodes[j].allocated
          BY <3>2, <4>1 DEF T!FreeNeighbour
        <4>3. x # j
          BY <1>1, <3>1, LiveIs
        <4>4. QED
          BY <4>2, <4>3
      <3>6. x \in T!Node
        BY <3>2 DEF Lives
      <3> HIDE DEF x
      <3>7. u.nodes[j].allocated \/ u.nodes[x].allocated
        BY <1>10, <3>1, <3>3, <3>4, <3>5, <3>6
      <3>8. QED
        BY <3>1, <3>7
    <2>2. QED
      BY <2>1 DEF NoPair
  <1>16. Kept(u, t, i)
    <2>1. \A j \in Held(t) : j \in T!Node
      BY DEF Held, Lives
    <2>2. QED
      BY <1>10, <1>12, <2>1 DEF Kept
  <1>17. QED
    BY <1>9, <1>11, <1>12, <1>13, <1>14, <1>15, <1>16 DEF Good

LEMMA RemovableIs ==
  ASSUME NEW t, Good(t), NEW p \in Frees(t)
  PROVE  T!Removable(t, p)
  <1>1. ~t.nodes[p].allocated /\ t.nodes[p].offset # T!NULL
    BY DEF Frees, Lives
  <1>2. t.nodes[p].prev = T!NULL => t.heads[T!Class(t.nodes[p].size)] = p
    BY DEF Good, Chains, K
  <1>3. QED
    BY <1>1, <1>2 DEF T!Removable

(* The asserts about the neighbours of allocated blocks. *)
LEMMA ValidatedIs ==
  ASSUME NEW t, Good(t)
  PROVE  T!Validated(t)
  <1>1. ASSUME NEW i \in T!Node, t.nodes[i].offset # T!NULL
        PROVE  /\ t.nodes[i].aoNext # T!NULL =>
                    /\ t.nodes[t.nodes[i].aoNext].aoPrevious = i
                    /\ t.nodes[i].offset + t.nodes[i].size = t.nodes[t.nodes[i].aoNext].offset
               /\ t.nodes[i].aoPrevious # T!NULL =>
                    /\ t.nodes[t.nodes[i].aoPrevious].aoNext = i
                    /\ t.nodes[t.nodes[i].aoPrevious].offset
                         + t.nodes[t.nodes[i].aoPrevious].size = t.nodes[i].offset
    <2>1. i \in Lives(t) /\ Blocks(t)
      BY <1>1 DEF Lives, Good
    <2>2. QED
      BY <2>1, LiveIs
  <1>2. QED
    BY <1>1 DEF T!Validated

LEMMA KeptOn ==
  ASSUME NEW t, NEW m, NEW u, NEW i, Kept(m, t, i), Kept(u, m, i)
  PROVE  Kept(u, t, i)
  BY DEF Kept

(* A block is freed: what holds after it, and what its asserts say on the way. *)
LEMMA FreeIs ==
  ASSUME NEW t, Good(t), NoPair(t), NEW i \in Held(t),
         NEW m, m = T!MergePrevious(t, i), NEW n, n = T!MergeNext(m, i),
         NEW u, u = T!PutFree(n, i), NEW p, p = t.nodes[i].aoPrevious,
         NEW x, x = m.nodes[i].aoNext
  PROVE  /\ Good(u) /\ NoPair(u) /\ Held(u) = Held(t) \ {i} /\ Kept(u, t, i)
         /\ t.nodes[i].allocated
         /\ T!FreeNeighbour(t, p) =>
              T!Removable(t, p) /\ t.nodes[p].offset < t.nodes[i].offset
         /\ T!FreeNeighbour(m, x) =>
              T!Removable(m, x) /\ m.nodes[x].offset > m.nodes[i].offset
         /\ Len(n.store) < MaxAllocs
  <1>1. t \in TState /\ Blocks(t) /\ i \in Lives(t) /\ t.nodes[i].allocated
    BY HeldIs DEF Good
  <1>2. /\ Good(m) /\ NoPair(m) /\ Kept(m, t, i) /\ i \in Held(m)
        /\ ~T!FreeNeighbour(m, m.nodes[i].aoPrevious)
    <2>1. CASE T!FreeNeighbour(t, t.nodes[i].aoPrevious)
      BY ONLY Good(t), NoPair(t), i \in Held(t), m = T!MergePrevious(t, i), <2>1, MergeBeforeIs
    <2>2. CASE ~T!FreeNeighbour(t, t.nodes[i].aoPrevious)
      <3>1. m = t
        BY <2>2 DEF T!MergePrevious
      <3>2. QED
        BY <2>2, <3>1 DEF Kept
    <2>3. QED
      BY <2>1, <2>2
  <1>3. /\ Good(n) /\ NoPair(n) /\ Kept(n, m, i) /\ i \in Held(n)
        /\ ~T!FreeNeighbour(n, n.nodes[i].aoNext)
        /\ ~T!FreeNeighbour(n, n.nodes[i].aoPrevious)
    <2>1. CASE T!FreeNeighbour(m, m.nodes[i].aoNext)
      BY ONLY <1>2, n = T!MergeNext(m, i), <2>1, MergeBehindIs
    <2>2. CASE ~T!FreeNeighbour(m, m.nodes[i].aoNext)
      <3>1. n = m
        BY <2>2 DEF T!MergeNext
      <3>2. QED
        BY <1>2, <2>2, <3>1 DEF Kept
    <2>3. QED
      BY <2>1, <2>2
  <1>4. Good(u) /\ NoPair(u) /\ Held(u) = Held(n) \ {i} /\ Kept(u, n, i)
    BY ONLY <1>3, u = T!PutFree(n, i), PutFreeNodeIs
  <1>5. Kept(u, t, i)
    BY <1>2, <1>3, <1>4, KeptOn
  <1>6. Held(u) = Held(t) \ {i}
    BY <1>4, <1>5 DEF Kept
  <1>7. T!FreeNeighbour(t, p) => T!Removable(t, p) /\ t.nodes[p].offset < t.nodes[i].offset
    <2>1. ASSUME T!FreeNeighbour(t, p)
          PROVE  T!Removable(t, p) /\ t.nodes[p].offset < t.nodes[i].offset
      <3>1. p # T!NULL /\ ~t.nodes[p].allocated
        BY <2>1 DEF T!FreeNeighbour
      <3>2. p \in Lives(t) /\ t.nodes[p].offset + t.nodes[p].size = t.nodes[i].offset
        BY <1>1, <3>1, LiveIs
      <3>3. p \in Frees(t)
        BY <1>1, <3>1, <3>2, HeldIs
      <3>4. t.nodes[p].offset \in Nat /\ t.nodes[p].size \in Nat /\ t.nodes[p].size > 0
        BY <1>1, <3>2, LiveIs
      <3>5. QED
        BY <3>2, <3>3, <3>4, RemovableIs
    <2>2. QED
      BY <2>1
  <1>8. T!FreeNeighbour(m, x) => T!Removable(m, x) /\ m.nodes[x].offset > m.nodes[i].offset
    <2>1. ASSUME T!FreeNeighbour(m, x)
          PROVE  T!Removable(m, x) /\ m.nodes[x].offset > m.nodes[i].offset
      <3>1. x # T!NULL /\ ~m.nodes[x].allocated /\ m \in TState /\ Blocks(m) /\ i \in Lives(m)
        BY <1>2, <2>1, HeldIs DEF T!FreeNeighbour, Good
      <3>2. x \in Lives(m) /\ m.nodes[i].offset + m.nodes[i].size = m.nodes[x].offset
        BY <3>1, LiveIs
      <3>3. x \in Frees(m)
        BY <3>1, <3>2, HeldIs
      <3>4. m.nodes[i].offset \in Nat /\ m.nodes[i].size \in Nat /\ m.nodes[i].size > 0
        BY <3>1, LiveIs
      <3>5. QED
        BY <1>2, <3>2, <3>3, <3>4, RemovableIs
    <2>2. QED
      BY <2>1
  <1>9. Len(n.store) < MaxAllocs
    <2>1. n \in TState /\ Stored(n) /\ i \in Lives(n)
      BY <1>3, HeldIs DEF Good
    <2>2. QED
      BY <2>1, StoreShort
  <1>10. QED
    BY <1>1, <1>4, <1>5, <1>6, <1>7, <1>8, <1>9

-----------------------------------------------------------------------------
(* Tlsf: a free block is taken. *)
Takes(u, t, h, size) ==
  /\ Good(u) /\ NoPair(u) /\ Held(u) = Held(t) \cup {h} /\ Kept(u, t, h)
  /\ u.nodes[h].offset = t.nodes[h].offset
  /\ u.nodes[h].size >= size /\ u.nodes[h].size <= t.nodes[h].size

LEMMA TakenSet ==
  ASSUME NEW n \in TNode
  PROVE  LET m == [n EXCEPT !.allocated = TRUE]
         IN  /\ m \in TNode /\ m.offset = n.offset /\ m.size = n.size /\ m.next = n.next
             /\ m.prev = n.prev /\ m.aoPrevious = n.aoPrevious /\ m.aoNext = n.aoNext
             /\ m.allocated
  BY DEF TNode

(* The head of a list leaves it, and its block stays where it is. *)
LEMMA HeadTakenIs ==
  ASSUME NEW t, Good(t), NEW h \in Frees(t), t.nodes[h].prev = T!NULL,
         NEW w, w = T!TakeHead(t, K(t, h), t.nodes[h].next)
  PROVE  /\ w \in TState /\ w.store = t.store /\ SameBlocks(w, t, T!Node)
         /\ Chains(w, Frees(t) \ {h})
  <1>1. t \in TState /\ Chains(t, Frees(t))
    BY DEF Good
  <1>2. Unlinks(w, t, h)
    BY <1>1, TakeHeadIs
  <1>3. Chains(w, Frees(t) \ {h})
    BY <1>1, <1>2, UnlinkedIs
  <1>4. QED
    BY <1>2, <1>3 DEF Unlinks

(* The calls that take a block, as facts about the states between. *)
HeadTaken(w, t, c, h) == w = T!TakeHead(t, c, t.nodes[h].next)
Allocated(u, w, h) == u = [w EXCEPT !.nodes[h].allocated = TRUE]

LEMMA TakeWholeIs ==
  ASSUME NEW t, Good(t), NoPair(t), NEW h \in Frees(t), t.nodes[h].prev = T!NULL,
         NEW w, HeadTaken(w, t, K(t, h), h),
         NEW size, t.nodes[h].size >= size,
         NEW u, Allocated(u, w, h)
  PROVE  Takes(u, t, h, size)
  <1> DEFINE m == [w.nodes[h] EXCEPT !.allocated = TRUE]
  <1>1. /\ t \in TState /\ Chains(t, Frees(t)) /\ Blocks(t) /\ Stored(t) /\ Idle(t)
        /\ h \in Lives(t) /\ h \in T!Node /\ t.nodes[h].size \in Nat
    BY HeldIs, LiveIs DEF Good
  <1>2. /\ w \in TState /\ w.store = t.store /\ SameBlocks(w, t, T!Node)
        /\ Chains(w, Frees(t) \ {h})
    BY HeadTakenIs DEF HeadTaken
  <1>3. w.nodes[h] \in TNode
    BY <1>1, <1>2, TNodeIs
  <1>4. /\ m \in TNode /\ m.offset = w.nodes[h].offset /\ m.size = w.nodes[h].size
        /\ m.aoPrevious = w.nodes[h].aoPrevious /\ m.aoNext = w.nodes[h].aoNext /\ m.allocated
    BY <1>3, TakenSet
  <1>5. u = [w EXCEPT !.nodes[h] = m]
    BY DEF Allocated
  <1> HIDE DEF m
  <1>6. /\ u \in TState /\ u.l1 = w.l1 /\ u.l2 = w.l2 /\ u.heads = w.heads /\ u.store = w.store
        /\ u.nodes[h] = m /\ \A j \in T!Node \ {h} : u.nodes[j] = w.nodes[j]
    <2>1. w \in TState /\ h \in T!Node /\ m \in TNode
      BY <1>1, <1>2, <1>4
    <2>2. QED
      BY ONLY <1>5, <2>1, NodesSet
  <1>7. \A j \in T!Node :
          /\ u.nodes[j].offset = t.nodes[j].offset /\ u.nodes[j].size = t.nodes[j].size
          /\ u.nodes[j].aoPrevious = t.nodes[j].aoPrevious
          /\ u.nodes[j].aoNext = t.nodes[j].aoNext
          /\ u.nodes[j].allocated <=> j = h \/ t.nodes[j].allocated
    <2>1. \A j \in T!Node \ {h} :
            /\ u.nodes[j].offset = t.nodes[j].offset /\ u.nodes[j].size = t.nodes[j].size
            /\ u.nodes[j].aoPrevious = t.nodes[j].aoPrevious
            /\ u.nodes[j].aoNext = t.nodes[j].aoNext
            /\ u.nodes[j].allocated <=> t.nodes[j].allocated
      BY <1>2, <1>6 DEF SameBlocks
    <2>2. /\ u.nodes[h].offset = t.nodes[h].offset /\ u.nodes[h].size = t.nodes[h].size
          /\ u.nodes[h].aoPrevious = t.nodes[h].aoPrevious
          /\ u.nodes[h].aoNext = t.nodes[h].aoNext /\ u.nodes[h].allocated
      BY <1>1, <1>2, <1>4, <1>6 DEF SameBlocks
    <2>3. QED
      BY <2>1, <2>2
  <1>8. Blocks(u) /\ Lives(u) = Lives(t)
    BY <1>1, <1>7, BlocksStay
  <1>9. Frees(u) = Frees(t) \ {h} /\ Held(u) = Held(t) \cup {h}
    <2>1. \A j \in Lives(u) : j \in T!Node
      BY DEF Lives
    <2>2. Frees(u) = Frees(t) \ {h}
      BY <1>7, <1>8, <2>1 DEF Frees
    <2>3. QED
      BY <1>1, <1>8, <2>2 DEF Held
  <1>10. Chains(u, Frees(u))
    <2>1. SameLists(u, w, Frees(t) \ {h})
      <3>1. Frees(t) \ {h} \subseteq T!Node \ {h}
        BY DEF Frees, Lives
      <3>2. QED
        BY <1>6, <3>1 DEF SameLists
    <2>2. QED
      BY <1>2, <1>6, <1>9, <2>1, ChainsStay
  <1>11. Stored(u) /\ Idle(u)
    <2>1. u.store = t.store
      BY <1>2, <1>6
    <2>2. Stored(u)
      BY <1>1, <1>8, <2>1 DEF Stored
    <2>3. Idle(u)
      BY <1>1, <1>7, <1>8 DEF Idle
    <2>4. QED
      BY <2>2, <2>3
  <1>12. NoPair(u)
    <2>1. ASSUME NEW j \in Lives(u), u.nodes[j].aoNext # T!NULL
          PROVE  u.nodes[j].allocated \/ u.nodes[u.nodes[j].aoNext].allocated
      <3>1. /\ j \in Lives(t) /\ j \in T!Node /\ u.nodes[j].aoNext = t.nodes[j].aoNext
            /\ t.nodes[j].aoNext # T!NULL
        BY <1>7, <1>8, <2>1 DEF Lives
      <3>2. t.nodes[j].aoNext \in T!Node
        BY <1>1, <3>1, LiveIs
      <3>3. t.nodes[j].allocated \/ t.nodes[t.nodes[j].aoNext].allocated
        BY <3>1 DEF NoPair
      <3>4. QED
        BY <1>7, <3>1, <3>2, <3>3
    <2>2. QED
      BY <2>1 DEF NoPair
  <1>13. Kept(u, t, h)
    <2>1. \A j \in Held(t) : j \in T!Node
      BY DEF Held, Lives
    <2>2. QED
      BY <1>7, <1>9, <2>1 DEF Kept
  <1>14. Good(u)
    BY <1>6, <1>8, <1>10, <1>11 DEF Good
  <1>15. /\ u.nodes[h].offset = t.nodes[h].offset
         /\ u.nodes[h].size >= size /\ u.nodes[h].size <= t.nodes[h].size
    BY <1>1, <1>7
  <1>16. QED
    BY <1>9, <1>12, <1>13, <1>14, <1>15 DEF Takes

(* The head of a list and the node of its rest, after the cut. *)
HeadCut(m, n, size, behind) ==
  /\ m \in TNode /\ m.offset = n.offset /\ m.size = size /\ m.next = n.next /\ m.prev = n.prev
  /\ m.aoPrevious = n.aoPrevious /\ m.aoNext = behind /\ m.allocated

LEMMA HeadCutIs ==
  ASSUME NEW n \in TNode, NEW size \in 0 .. T!Total, NEW i \in T!Pointer
  PROVE  HeadCut([[n EXCEPT !.size = size, !.aoNext = i] EXCEPT !.allocated = TRUE], n, size, i)
  BY DEF HeadCut, TNode

LEMMA BothLinks ==
  ASSUME NEW n \in TNode, NEW p \in T!Pointer, NEW x \in T!Pointer
  PROVE  Relinked([n EXCEPT !.aoPrevious = p, !.aoNext = x], n, p, x)
  BY DEF Relinked, TNode

CutUp(l, h, i, size, x) ==
  [[l EXCEPT !.nodes[h].size = size, !.nodes[h].aoNext = i,
             !.nodes[i].aoPrevious = h, !.nodes[i].aoNext = x] EXCEPT !.nodes[h].allocated = TRUE]

LEMMA CutSet ==
  ASSUME NEW l \in TState, NEW h \in T!Node, NEW i \in T!Node, h # i,
         NEW size \in 0 .. T!Total, NEW x \in T!Pointer,
         NEW u, u = CutUp(l, h, i, size, x)
  PROVE  /\ u \in TState /\ u.l1 = l.l1 /\ u.l2 = l.l2 /\ u.heads = l.heads /\ u.store = l.store
         /\ HeadCut(u.nodes[h], l.nodes[h], size, i)
         /\ Relinked(u.nodes[i], l.nodes[i], h, x)
         /\ \A j \in T!Node \ {h, i} : u.nodes[j] = l.nodes[j]
  <1> DEFINE mh == [[l.nodes[h] EXCEPT !.size = size, !.aoNext = i] EXCEPT !.allocated = TRUE]
             mi == [l.nodes[i] EXCEPT !.aoPrevious = h, !.aoNext = x]
  <1>1. /\ l.nodes \in [T!Node -> TNode] /\ l.nodes[h] \in TNode /\ l.nodes[i] \in TNode
        /\ h \in T!Pointer /\ i \in T!Pointer
    BY TNodeIs DEF TState
  <1>2. HeadCut(mh, l.nodes[h], size, i) /\ Relinked(mi, l.nodes[i], h, x)
    BY <1>1, HeadCutIs, BothLinks
  <1> DEFINE a == [l.nodes EXCEPT ![h].size = size]
             b == [a EXCEPT ![h].aoNext = i]
             c == [b EXCEPT ![i].aoPrevious = h]
             d == [c EXCEPT ![i].aoNext = x]
             e == [d EXCEPT ![h].allocated = TRUE]
  <1>2a. PICK s : s = [l EXCEPT !.nodes[h].size = size, !.nodes[h].aoNext = i,
                             !.nodes[i].aoPrevious = h, !.nodes[i].aoNext = x]
    OBVIOUS
  <1>3. /\ s.l1 = l.l1 /\ s.l2 = l.l2 /\ s.heads = l.heads /\ s.store = l.store
        /\ s.nodes = d
        /\ s = [l1 |-> s.l1, l2 |-> s.l2, heads |-> s.heads, nodes |-> s.nodes, store |-> s.store]
    BY <1>2a DEF TState
  <1>3a. u = [s EXCEPT !.nodes[h].allocated = TRUE]
    BY <1>2a DEF CutUp
  <1> HIDE DEF d
  <1>4. /\ u.l1 = l.l1 /\ u.l2 = l.l2 /\ u.heads = l.heads /\ u.store = l.store
        /\ u.nodes = e
        /\ u = [l1 |-> u.l1, l2 |-> u.l2, heads |-> u.heads, nodes |-> u.nodes, store |-> u.store]
    BY <1>3, <1>3a
  <1>5. /\ DOMAIN e = T!Node /\ e = [j \in T!Node |-> e[j]]
        /\ e[h] = mh /\ e[i] = mi /\ \A j \in T!Node \ {h, i} : e[j] = l.nodes[j]
    BY <1>1 DEF d
  <1> HIDE DEF e, mh, mi
  <1>6. e \in [T!Node -> TNode]
    <2>1. mh \in TNode /\ mi \in TNode
      BY <1>2 DEF HeadCut, Relinked
    <2>2. \A j \in T!Node : e[j] \in TNode
      BY <1>1, <1>5, <2>1
    <2>3. QED
      BY <1>5, <2>2
  <1>7. u \in TState
    <2>1. /\ l.l1 \in SUBSET T!FirstLevel /\ l.l2 \in [T!FirstLevel -> SUBSET T!SecondLevel]
          /\ l.heads \in [Cls -> T!Pointer] /\ l.store \in Seq(T!Node)
      BY DEF TState
    <2>2. QED
      BY <1>4, <1>6, <2>1 DEF TState
  <1>8. QED
    BY <1>2, <1>4, <1>5, <1>7

LEMMA TakePartIs ==
  ASSUME NEW t, Good(t), NoPair(t), NEW h \in Frees(t), t.nodes[h].prev = T!NULL,
         NEW w, HeadTaken(w, t, K(t, h), h),
         NEW size \in T!MinSize .. T!Total, t.nodes[h].size - size >= T!MinSize,
         T!HasNode(t),
         NEW u, Allocated(u, T!Split(w, h, size), h)
  PROVE  Takes(u, t, h, size)
  <1> DEFINE F == Frees(t) \ {h}
             i == T!Last(t.store)
             x == t.nodes[h].aoNext
             rest == t.nodes[h].size - size
             place == t.nodes[h].offset + size
             f == T!InsertNode(w, rest, place)
             l == IF x = T!NULL THEN f ELSE [f EXCEPT !.nodes[x].aoPrevious = i]
             s == [l EXCEPT !.nodes[h].size = size, !.nodes[h].aoNext = i,
                            !.nodes[i].aoPrevious = h, !.nodes[i].aoNext = x]
  <1>1. /\ t \in TState /\ Chains(t, Frees(t)) /\ Blocks(t) /\ Stored(t) /\ Idle(t)
        /\ h \in Lives(t) /\ h \in T!Node /\ h # T!NULL
        /\ t.nodes[h].size \in Nat /\ t.nodes[h].offset \in Nat
        /\ t.nodes[h].offset + t.nodes[h].size <= T!Total
        /\ T!MinSize \in Nat \ {0} /\ T!Total \in Nat
    <2>1. h \in Lives(t) /\ Good(t) /\ t \in TState /\ Blocks(t)
      BY HeldIs DEF Good
    <2>2. Place(t, h)
      BY <2>1 DEF Blocks
    <2>3. t.nodes[h].size \in Nat /\ t.nodes[h].offset \in Nat /\ h \in T!Node /\ h # T!NULL
      BY <2>1, LiveIs
    <2>4. QED
      BY <2>1, <2>2, <2>3, TlsfConstantsAre DEF Good, Place
  <1>2. /\ w \in TState /\ w.store = t.store /\ SameBlocks(w, t, T!Node) /\ Chains(w, F)
    BY HeadTakenIs DEF HeadTaken
  <1>3. /\ w.nodes[h].size = t.nodes[h].size /\ w.nodes[h].offset = t.nodes[h].offset
        /\ w.nodes[h].aoNext = x
    BY <1>1, <1>2 DEF SameBlocks
  <1>4. /\ Len(t.store) > 0 /\ i \in T!Node \ Lives(t) /\ i # h /\ i \notin F
    <2>1. Len(t.store) > 0 /\ t.store \in Seq(T!Node)
      BY <1>1, LenProperties DEF T!HasNode, TState
    <2>2. i \in T!Node \ Lives(t)
      <3>1. i = t.store[Len(t.store)] /\ Len(t.store) \in 1 .. Len(t.store)
        BY <2>1, LenProperties DEF T!Last
      <3>2. QED
        BY <1>1, <3>1 DEF Stored
    <2>3. QED
      BY <1>1, <2>1, <2>2 DEF Frees
  <1>5. rest \in T!MinSize .. T!Total /\ place \in 0 .. T!Total
    BY <1>1
  <1>6. u = [s EXCEPT !.nodes[h].allocated = TRUE]
    <2>1. T!Rest(w, h, size) = rest /\ ~(rest < T!MinSize)
      BY <1>1, <1>3 DEF T!Rest
    <2>2. T!Split(w, h, size) = s
      <3> DEFINE fw == T!InsertNode(w, T!Rest(w, h, size), w.nodes[h].offset + size)
                 lw == IF w.nodes[h].aoNext = T!NULL THEN fw
                       ELSE [fw EXCEPT !.nodes[w.nodes[h].aoNext].aoPrevious = T!Last(w.store)]
                 sw == [lw EXCEPT !.nodes[h].size = size, !.nodes[h].aoNext = T!Last(w.store),
                                  !.nodes[T!Last(w.store)].aoPrevious = h,
                                  !.nodes[T!Last(w.store)].aoNext = w.nodes[h].aoNext]
      <3>1. T!Split(w, h, size) = sw
        BY <2>1 DEF T!Split
      <3>2. T!Last(w.store) = i /\ w.nodes[h].aoNext = x
        BY <1>2, <1>3
      <3>3. fw = f
        BY Zenon, <1>3, <2>1
      <3> HIDE DEF fw, f
      <3>4. lw = l
        BY Zenon, <3>2, <3>3
      <3> HIDE DEF lw, l
      <3>5. sw = s
        BY Zenon, <3>2, <3>4
      <3>6. QED
        BY <3>1, <3>5
    <2> HIDE DEF s
    <2>3. QED
      BY <2>2 DEF Allocated
  <1> HIDE DEF f, rest, place, i, F
  <1>7. Inserts(f, w, i, rest, place) /\ Chains(f, F \cup {i})
    <2>1. /\ w \in TState /\ Chains(w, F) /\ Len(w.store) > 0 /\ i = T!Last(w.store)
          /\ i \notin F /\ i \in T!Node
      BY <1>2, <1>4 DEF i
    <2>2. f = T!InsertNode(w, rest, place)
      BY DEF f
    <2>3. Inserts(f, w, i, rest, place)
      BY ONLY <1>5, <2>1, <2>2, InsertNodeIs
    <2>4. QED
      BY ONLY <1>5, <2>1, <2>3, InsertedIs
  <1>8. /\ f \in TState /\ f.store = T!Front(t.store)
        /\ f.nodes[i].offset = place /\ f.nodes[i].size = rest
        /\ f.nodes[i].allocated = t.nodes[i].allocated
        /\ SameBlocks(f, t, T!Node \ {i})
    <2>1. SameBlocks(f, w, T!Node \ {i}) /\ f.nodes[i].allocated = w.nodes[i].allocated
      BY <1>7 DEF Inserts
    <2>2. SameBlocks(f, t, T!Node \ {i}) /\ f.nodes[i].allocated = t.nodes[i].allocated
      <3>1. i \in T!Node /\ SameBlocks(w, t, T!Node)
        BY <1>2, <1>4
      <3>2. QED
        BY ONLY <2>1, <3>1 DEF SameBlocks
    <2>3. QED
      BY <1>2, <1>7, <2>2 DEF Inserts
  <1>9. /\ x \in T!Pointer /\ x # h /\ x # i
        /\ x # T!NULL => x \in Lives(t) /\ x \in T!Node /\ t.nodes[x].aoPrevious = h
    <2>1. x \in T!Pointer
      BY <1>1, TNodeIs
    <2>2. x # h /\ (x # T!NULL => x \in Lives(t) /\ t.nodes[x].aoPrevious = h)
      BY <1>1, LiveIs
    <2>3. i # T!NULL
      BY <1>4, TNodeIs
    <2>4. QED
      BY <1>4, <2>1, <2>2, <2>3 DEF Lives
  <1>10. /\ l \in TState /\ l.l1 = f.l1 /\ l.l2 = f.l2 /\ l.heads = f.heads /\ l.store = f.store
         /\ \A j \in T!Node :
              Relinked(l.nodes[j], f.nodes[j], IF j = x THEN i ELSE f.nodes[j].aoPrevious,
                       f.nodes[j].aoNext)
    <2>1. \A j \in T!Node :
            /\ f.nodes[j] \in TNode
            /\ Relinked(f.nodes[j], f.nodes[j], f.nodes[j].aoPrevious, f.nodes[j].aoNext)
      BY <1>8, TNodeIs DEF Relinked
    <2>2. CASE x = T!NULL
      <3>1. l = f /\ \A j \in T!Node : j # x
        BY <2>2, TNodeIs
      <3>2. QED
        BY <1>8, <2>1, <3>1
    <2>3. CASE x # T!NULL
      <3> DEFINE mx == [f.nodes[x] EXCEPT !.aoPrevious = i]
      <3>1. x \in T!Node /\ i \in T!Pointer /\ f \in TState
        BY <1>4, <1>8, <1>9, <2>3, TNodeIs
      <3>2. l = [f EXCEPT !.nodes[x] = mx]
        BY <2>3, <3>1
      <3>3. Relinked(mx, f.nodes[x], i, f.nodes[x].aoNext)
        BY <2>1, <3>1, RelinkIs
      <3> HIDE DEF mx, l, x
      <3>4. mx \in TNode
        BY <3>3 DEF Relinked
      <3>5. /\ l \in TState /\ l.l1 = f.l1 /\ l.l2 = f.l2 /\ l.heads = f.heads
            /\ l.store = f.store /\ l.nodes[x] = mx
            /\ \A j \in T!Node \ {x} : l.nodes[j] = f.nodes[j]
        BY ONLY <3>1, <3>2, <3>4, NodesSet
      <3>6. QED
        BY <2>1, <3>3, <3>5
    <2>4. QED
      BY <2>2, <2>3
  <1> HIDE DEF l, x
  <1>11. /\ u \in TState /\ u.l1 = f.l1 /\ u.l2 = f.l2 /\ u.heads = f.heads /\ u.store = f.store
         /\ HeadCut(u.nodes[h], l.nodes[h], size, i)
         /\ Relinked(u.nodes[i], l.nodes[i], h, x)
         /\ \A j \in T!Node \ {h, i} : u.nodes[j] = l.nodes[j]
    <2>1. /\ l \in TState /\ h \in T!Node /\ i \in T!Node /\ h # i /\ size \in 0 .. T!Total
          /\ x \in T!Pointer
      BY <1>1, <1>4, <1>9, <1>10
    <2>2. u = CutUp(l, h, i, size, x)
      BY <1>6 DEF CutUp
    <2>3. /\ u \in TState /\ u.l1 = l.l1 /\ u.l2 = l.l2 /\ u.heads = l.heads /\ u.store = l.store
          /\ HeadCut(u.nodes[h], l.nodes[h], size, i)
          /\ Relinked(u.nodes[i], l.nodes[i], h, x)
          /\ \A j \in T!Node \ {h, i} : u.nodes[j] = l.nodes[j]
      BY ONLY <2>1, <2>2, CutSet
    <2>4. QED
      BY <1>10, <2>3
  <1> HIDE DEF s
  <1>12. /\ u.nodes[h].offset = t.nodes[h].offset /\ u.nodes[h].size = size
         /\ u.nodes[h].aoPrevious = t.nodes[h].aoPrevious /\ u.nodes[h].aoNext = i
         /\ u.nodes[h].allocated
    <2>1. /\ l.nodes[h].offset = f.nodes[h].offset /\ l.nodes[h].aoPrevious = f.nodes[h].aoPrevious
      BY <1>1, <1>9, <1>10 DEF Relinked
    <2>2. f.nodes[h].offset = t.nodes[h].offset /\ f.nodes[h].aoPrevious = t.nodes[h].aoPrevious
      BY <1>1, <1>4, <1>8 DEF SameBlocks
    <2>3. QED
      BY <1>11, <2>1, <2>2 DEF HeadCut
  <1>13. /\ u.nodes[i].offset = place /\ u.nodes[i].size = rest
         /\ u.nodes[i].aoPrevious = h /\ u.nodes[i].aoNext = x /\ ~u.nodes[i].allocated
         /\ u.nodes[i].next = f.nodes[i].next /\ u.nodes[i].prev = f.nodes[i].prev
    <2>1. /\ l.nodes[i].offset = f.nodes[i].offset /\ l.nodes[i].size = f.nodes[i].size
          /\ l.nodes[i].allocated = f.nodes[i].allocated
          /\ l.nodes[i].next = f.nodes[i].next /\ l.nodes[i].prev = f.nodes[i].prev
      BY <1>4, <1>10 DEF Relinked
    <2>2. ~t.nodes[i].allocated
      BY <1>1, <1>4 DEF Idle
    <2>3. QED
      BY <1>8, <1>11, <2>1, <2>2 DEF Relinked
  <1>14. \A j \in T!Node \ {h, i} :
           /\ u.nodes[j].offset = t.nodes[j].offset /\ u.nodes[j].size = t.nodes[j].size
           /\ u.nodes[j].aoNext = t.nodes[j].aoNext
           /\ u.nodes[j].aoPrevious = IF j = x THEN i ELSE t.nodes[j].aoPrevious
           /\ u.nodes[j].allocated = t.nodes[j].allocated
           /\ u.nodes[j].next = f.nodes[j].next /\ u.nodes[j].prev = f.nodes[j].prev
           /\ u.nodes[j].size = f.nodes[j].size
    <2>1. \A j \in T!Node \ {h, i} :
            /\ l.nodes[j].offset = f.nodes[j].offset /\ l.nodes[j].size = f.nodes[j].size
            /\ l.nodes[j].aoNext = f.nodes[j].aoNext
            /\ l.nodes[j].aoPrevious = IF j = x THEN i ELSE f.nodes[j].aoPrevious
            /\ l.nodes[j].allocated = f.nodes[j].allocated
            /\ l.nodes[j].next = f.nodes[j].next /\ l.nodes[j].prev = f.nodes[j].prev
      BY <1>10 DEF Relinked
    <2>2. \A j \in T!Node \ {h, i} :
            /\ f.nodes[j].offset = t.nodes[j].offset /\ f.nodes[j].size = t.nodes[j].size
            /\ f.nodes[j].aoNext = t.nodes[j].aoNext
            /\ f.nodes[j].aoPrevious = t.nodes[j].aoPrevious
            /\ f.nodes[j].allocated = t.nodes[j].allocated
      BY <1>8 DEF SameBlocks
    <2>3. \A j \in T!Node \ {h, i} : u.nodes[j] = l.nodes[j]
      BY <1>11
    <2>4. QED
      BY ONLY <2>1, <2>2, <2>3
  <1>15. Blocks(u) /\ Lives(u) = Lives(t) \cup {i}
    <2>1. Cuts(u, t, h, i, size)
      BY <1>12, <1>13, <1>14 DEF Cuts, place, rest, x
    <2>2. /\ size \in Int /\ size >= T!MinSize /\ t.nodes[h].size - size >= T!MinSize
          /\ Blocks(t) /\ h \in Lives(t) /\ i \in T!Node \ Lives(t)
      BY <1>1, <1>4
    <2>3. QED
      BY ONLY <2>1, <2>2, CutIs
  <1>16. Stored(u)
    BY <1>1, <1>4, <1>8, <1>11, <1>15, PopIs DEF i
  <1>17. Idle(u)
    BY <1>1, <1>14, <1>15 DEF Idle
  <1>18. Frees(u) = F \cup {i} /\ Held(u) = Held(t) \cup {h} /\ F \subseteq T!Node \ {h, i}
    <2>1. F \subseteq T!Node \ {h, i}
      BY <1>4 DEF F, Frees, Lives
    <2>2. \A j \in Lives(t) : j \in T!Node
      BY DEF Lives
    <2>3. Frees(u) = F \cup {i}
      <3>1. \A j : j \in Frees(u) <=> j \in Lives(u) /\ ~u.nodes[j].allocated
        BY DEF Frees
      <3>2. \A j : j \in F <=> j \in Lives(t) /\ j # h /\ ~t.nodes[j].allocated
        BY DEF Frees, F
      <3>3. \A j \in T!Node \ {h, i} : u.nodes[j].allocated = t.nodes[j].allocated
        BY <1>14
      <3>4. /\ u.nodes[h].allocated /\ ~u.nodes[i].allocated
            /\ Lives(u) = Lives(t) \cup {i} /\ i \notin Lives(t)
        BY <1>4, <1>12, <1>13, <1>15
      <3>5. ASSUME NEW j
            PROVE  j \in Frees(u) <=> j \in F \cup {i}
        BY ONLY <2>2, <3>1, <3>2, <3>3, <3>4
      <3>6. QED
        BY ONLY <3>5
    <2>4. Held(u) = Held(t) \cup {h}
      BY <1>1, <1>4, <1>15, <2>3 DEF Held, F
    <2>5. QED
      BY <2>1, <2>3, <2>4
  <1>19. Chains(u, Frees(u))
    <2>1. SameLists(u, f, F \cup {i})
      BY <1>8, <1>11, <1>13, <1>14, <1>18 DEF SameLists
    <2>2. QED
      BY <1>7, <1>8, <1>11, <1>18, <2>1, ChainsStay
  <1>20. NoPair(u)
    <2>1. ASSUME NEW j \in Lives(u), u.nodes[j].aoNext # T!NULL
          PROVE  u.nodes[j].allocated \/ u.nodes[u.nodes[j].aoNext].allocated
      <3>1. CASE j = h
        BY <1>12, <3>1
      <3>2. CASE j = i
        <4>1. x # T!NULL /\ x \in T!Node \ {h, i}
          BY <1>9, <1>13, <2>1, <3>2
        <4>2. t.nodes[x].allocated
          <5>1. ~t.nodes[h].allocated
            BY DEF Frees
          <5>2. QED
            BY <1>1, <4>1, <5>1 DEF NoPair, x
        <4>3. QED
          BY <1>13, <1>14, <3>2, <4>1, <4>2
      <3>3. CASE j # h /\ j # i
        <4>1. j \in Lives(t) /\ j \in T!Node \ {h, i}
          BY <1>15, <3>3 DEF Lives
        <4>2. u.nodes[j].aoNext = t.nodes[j].aoNext /\ u.nodes[j].allocated = t.nodes[j].allocated
          BY <1>14, <4>1
        <4> DEFINE y == t.nodes[j].aoNext
        <4>3. y \in Lives(t) /\ y \in T!Node /\ y # i
          <5>1. y \in Lives(t)
            BY <1>1, <2>1, <4>1, <4>2, LiveIs
          <5>2. QED
            BY <1>4, <5>1 DEF Lives
        <4>4. t.nodes[j].allocated \/ t.nodes[y].allocated
          BY <2>1, <4>1, <4>2 DEF NoPair
        <4> HIDE DEF y
        <4>5. CASE y = h
          BY <1>12, <4>2, <4>5 DEF y
        <4>6. CASE y # h
          <5>1. u.nodes[y].allocated = t.nodes[y].allocated
            BY <1>14, <4>3, <4>6
          <5>2. u.nodes[j].aoNext = y
            BY <4>2 DEF y
          <5>3. QED
            BY ONLY <4>2, <4>4, <5>1, <5>2
        <4>7. QED
          BY <4>5, <4>6
      <3>4. QED
        BY <3>1, <3>2, <3>3
    <2>2. QED
      BY <2>1 DEF NoPair
  <1>21. Kept(u, t, h)
    <2>1. \A j \in Held(t) \ {h} : j \in T!Node \ {h, i}
      BY <1>4 DEF Held, Lives
    <2>2. QED
      BY <1>14, <1>18, <2>1 DEF Kept
  <1>22. Good(u)
    BY <1>11, <1>15, <1>16, <1>17, <1>19 DEF Good
  <1>23. u.nodes[h].size >= size /\ u.nodes[h].size <= t.nodes[h].size
    <2>1. /\ u.nodes[h].size = size /\ size \in Int /\ t.nodes[h].size \in Nat
          /\ T!MinSize \in Nat /\ t.nodes[h].size - size >= T!MinSize
      BY <1>1, <1>12
    <2>2. QED
      BY ONLY <2>1
  <1>24. QED
    BY <1>12, <1>18, <1>20, <1>21, <1>22, <1>23 DEF Takes

-----------------------------------------------------------------------------
(* Tlsf: its client. *)
TOwns(v) == ptr[v] # T!NoAllocation
THolder(v) == ptr[v].nodeIndex

TlsfClient ==
  /\ ptr = [v \in Var |-> ptr[v]]
  /\ \A v \in Var : TOwns(v) =>
       /\ THolder(v) \in Held(mem)
       /\ ptr[v] = [offset |-> mem.nodes[THolder(v)].offset, nodeIndex |-> THolder(v)]
  /\ \A v, w \in Var : v # w /\ TOwns(v) /\ TOwns(w) => THolder(v) # THolder(w)
  /\ \A i \in Held(mem) : \E v \in Var : TOwns(v) /\ THolder(v) = i

TlsfInv ==
  /\ Good(mem) /\ NoPair(mem) /\ TlsfClient
  /\ fault \in {"none", "memory", "nodes"}

TBlock(v) ==
  /\ ~TOwns(v) => BlockOf(v) = {}
  /\ TOwns(v) => BlockOf(v) =
       {Base + o : o \in ptr[v].offset .. ptr[v].offset + mem.nodes[THolder(v)].size - 1}

LEMMA TBlockIs ==
  ASSUME kind = "tlsf", kind' = kind, NEW v \in Var
  PROVE  TBlock(v) /\ TBlock(v)'
  <1>1. BlockOf(v) = {Base + o : o \in T!BlockOf(v)}
    BY DEF BlockOf
  <1>2. BlockOf(v)' = {Base + o : o \in T!BlockOf(v)'}
    BY DEF BlockOf
  <1>3. T!BlockOf(v) = IF TOwns(v)
                       THEN ptr[v].offset .. ptr[v].offset + mem.nodes[THolder(v)].size - 1 ELSE {}
    BY DEF T!BlockOf, TOwns, THolder
  <1>4. T!BlockOf(v)' = IF TOwns(v)' THEN ptr'[v].offset ..
                                           ptr'[v].offset + mem'.nodes[THolder(v)'].size - 1 ELSE {}
    BY DEF T!BlockOf, TOwns, THolder
  <1>5. TBlock(v)
    BY <1>1, <1>3 DEF TBlock
  <1>6. TBlock(v)'
    BY <1>2, <1>4 DEF TBlock
  <1>7. QED
    BY <1>5, <1>6

LEMMA TlsfFreeStep ==
  ASSUME kind = "tlsf", kind' = kind, TlsfInv, NEW v \in Var, T!Free(v)
  PROVE  TlsfInv' /\ AbstractStep
  <1> DEFINE t == mem
             i == ptr[v].nodeIndex
             m == T!MergePrevious(mem, i)
             n == T!MergeNext(m, i)
             u == T!PutFree(n, i)
             p == mem.nodes[i].aoPrevious
             x == m.nodes[i].aoNext
  <1>1. /\ TOwns(v) /\ i = THolder(v)
        /\ mem' = u /\ ptr' = [ptr EXCEPT ![v] = T!NoAllocation]
    BY DEF T!Free, TOwns, THolder
  <1>2. /\ Good(mem) /\ NoPair(mem) /\ TlsfClient /\ i \in Held(mem)
    BY <1>1 DEF TlsfInv, TlsfClient
  <1>3. /\ Good(u) /\ NoPair(u) /\ Held(u) = Held(mem) \ {i} /\ Kept(u, mem, i)
        /\ mem.nodes[i].allocated
        /\ T!FreeNeighbour(mem, p) =>
             T!Removable(mem, p) /\ mem.nodes[p].offset < mem.nodes[i].offset
        /\ T!FreeNeighbour(m, x) =>
             T!Removable(m, x) /\ m.nodes[x].offset > m.nodes[i].offset
        /\ Len(n.store) < MaxAllocs
    BY ONLY <1>2, FreeIs
  <1>4. T!Validated(u)
    BY <1>3, ValidatedIs
  <1>5. fault' = "none"
    BY <1>1, <1>3, <1>4 DEF T!Free
  <1> HIDE DEF u, i
  <1>6. /\ ~TOwns(v)' /\ \A w \in Var \ {v} : ptr'[w] = ptr[w]
        /\ ptr' = [w \in Var |-> ptr'[w]]
    BY <1>1, <1>2 DEF TlsfClient, TOwns
  <1>7. \A w \in Var \ {v} : /\ TOwns(w)' <=> TOwns(w)
                             /\ THolder(w)' = THolder(w)
    BY <1>6 DEF TOwns, THolder
  <1>8. \A j \in Held(mem) : j # i =>
          /\ mem'.nodes[j].offset = mem.nodes[j].offset /\ mem'.nodes[j].size = mem.nodes[j].size
          /\ j \in Held(mem')
    BY <1>1, <1>3 DEF Kept
  <1>9. \A w \in Var \ {v} : TOwns(w) => THolder(w) \in Held(mem) /\ THolder(w) # i
    BY <1>1, <1>2 DEF TlsfClient
  <1>10. TlsfClient'
    <2>1. \A w \in Var : TOwns(w)' =>
            /\ THolder(w)' \in Held(mem')
            /\ ptr'[w] = [offset |-> mem'.nodes[THolder(w)'].offset, nodeIndex |-> THolder(w)']
      <3>1. ASSUME NEW w \in Var, TOwns(w)'
            PROVE  /\ THolder(w)' \in Held(mem')
                   /\ ptr'[w] = [offset |-> mem'.nodes[THolder(w)'].offset,
                                 nodeIndex |-> THolder(w)']
        <4>1. w # v /\ TOwns(w) /\ THolder(w)' = THolder(w) /\ ptr'[w] = ptr[w]
          BY <1>6, <1>7, <3>1
        <4>2. ptr[w] = [offset |-> mem.nodes[THolder(w)].offset, nodeIndex |-> THolder(w)]
          BY <1>2, <4>1 DEF TlsfClient
        <4>3. THolder(w) \in Held(mem) /\ THolder(w) # i
          BY <1>9, <4>1
        <4>4. QED
          BY <1>8, <4>1, <4>2, <4>3
      <3>2. QED
        BY <3>1
    <2>2. \A w, y \in Var : w # y /\ TOwns(w)' /\ TOwns(y)' => THolder(w)' # THolder(y)'
      <3>1. \A w, y \in Var : w # y /\ TOwns(w) /\ TOwns(y) => THolder(w) # THolder(y)
        BY <1>2 DEF TlsfClient
      <3>2. QED
        BY <1>6, <1>7, <3>1
    <2>3. \A j \in Held(mem') : \E w \in Var : TOwns(w)' /\ THolder(w)' = j
      <3>1. ASSUME NEW j \in Held(mem')
            PROVE  \E w \in Var : TOwns(w)' /\ THolder(w)' = j
        <4>1. j \in Held(mem) /\ j # i
          BY <1>1, <1>3, <3>1
        <4>2. PICK w \in Var : TOwns(w) /\ THolder(w) = j
          BY <1>2, <4>1 DEF TlsfClient
        <4>3. w # v
          BY <1>1, <4>1, <4>2
        <4>4. QED
          BY <1>7, <4>2, <4>3
      <3>2. QED
        BY <3>1
    <2>4. QED
      BY <1>6, <2>1, <2>2, <2>3 DEF TlsfClient
  <1>11. TlsfInv'
    BY <1>1, <1>3, <1>5, <1>10 DEF TlsfInv
  <1>12. BlockOf(v)' = {}
    <2>1. TBlock(v)'
      BY TBlockIs
    <2>2. QED
      BY <1>6, <2>1 DEF TBlock
  <1>13. ASSUME NEW w \in Var \ {v}
         PROVE  BlockOf(w)' = BlockOf(w)
    <2>0. TBlock(w) /\ TBlock(w)'
      BY TBlockIs
    <2>1. CASE ~TOwns(w)
      <3>1. BlockOf(w) = {} /\ BlockOf(w)' = {}
        BY <1>7, <2>0, <2>1 DEF TBlock
      <3>2. QED
        BY <3>1
    <2>2. CASE TOwns(w)
      <3>1. /\ BlockOf(w) = {Base + o :
                 o \in ptr[w].offset .. ptr[w].offset + mem.nodes[THolder(w)].size - 1}
            /\ BlockOf(w)' = {Base + o :
                 o \in ptr'[w].offset .. ptr'[w].offset + mem'.nodes[THolder(w)'].size - 1}
        BY <1>7, <2>0, <2>2 DEF TBlock
      <3>2. /\ ptr'[w] = ptr[w] /\ THolder(w)' = THolder(w)
            /\ mem'.nodes[THolder(w)].size = mem.nodes[THolder(w)].size
        BY <1>6, <1>7, <1>8, <1>9, <2>2
      <3>3. QED
        BY <3>1, <3>2
    <2>3. QED
      BY <2>1, <2>2
  <1>14. Abstract!HForget({v})
    <2>1. \A w \in Var : BlockOf(w)' = IF w \in {v} THEN {} ELSE BlockOf(w)
      BY <1>12, <1>13
    <2>2. QED
      BY <2>1 DEF Abstract!HForget
  <1>15. QED
    BY <1>11, <1>14 DEF AbstractStep, Abstract!HNext

(* Before every block on a list comes the head of the list. *)
LEMMA HeadFor ==
  ASSUME NEW t \in TState, NEW F, Chains(t, F), NEW i \in F
  PROVE  t.heads[K(t, i)] # T!NULL
  <1> DEFINE c == K(t, i)
  <1>1. PICK r \in [T!Node -> Nat] :
          \A j \in F : t.nodes[j].next # T!NULL => r[j] < r[t.nodes[j].next]
    BY DEF Chains, Ranked
  <1> DEFINE G == {j \in F : K(t, j) = c}
             S == {r[j] : j \in G}
  <1>2. F \subseteq T!Node /\ S \in SUBSET Nat /\ S # {}
    BY <1>1 DEF Chains
  <1>3. PICK m \in S : \A y \in Nat : y < m => y \notin S
    BY <1>2, LeastIndex
  <1>4. PICK j \in G : r[j] = m
    BY <1>3
  <1> DEFINE p == t.nodes[j].prev
  <1>5. j \in F /\ j \in T!Node /\ j # T!NULL /\ K(t, j) = c
    BY <1>2, <1>4, TNodeIs
  <1>6. p = T!NULL
    <2>1. ASSUME p # T!NULL
          PROVE  FALSE
      <3>1. p \in F /\ t.nodes[p].next = j
        BY <1>5, <2>1 DEF Chains
      <3>2. K(t, j) = K(t, p) /\ r[p] < r[j]
        BY <1>1, <1>5, <3>1 DEF Chains
      <3>3. p \in G /\ r[p] \in S /\ r[p] \in Nat
        BY <1>2, <1>5, <3>1, <3>2
      <3>4. QED
        BY <1>3, <1>4, <3>2, <3>3
    <2>2. QED
      BY <2>1
  <1>7. t.heads[c] = j
    BY <1>5, <1>6 DEF Chains
  <1>8. QED
    BY <1>5, <1>7

(* What is asked for, and what is looked for. *)
LEMMA RoundedIs ==
  ASSUME NEW s \in TlsfRequests
  PROVE  /\ T!Rounded(s) \in T!MinSize .. T!Total
         /\ T!Rounded(s) <= 2 ^ Bits - 2 ^ (Bits - 1 - L2Log2) \/ T!Rounded(s) = T!MinSize
  <1> DEFINE n == T!Total
             S == {s, T!MinSize}
             q == 2 ^ (Bits - 1 - L2Log2)
  <1>1. /\ n \in Nat \ {0} /\ T!MinSize \in Nat \ {0} /\ T!MinSize <= n /\ n = 2 ^ Bits - 1
        /\ s \in 1 .. 2 ^ Bits - q
    BY TlsfConstantsAre
  <1>2. q \in Nat \ {0} /\ 2 ^ Bits \in Int
    <2> DEFINE k == Bits - 1 - L2Log2
    <2>1. k \in Nat /\ Bits \in Nat
      BY TlsfConstantsAre
    <2> HIDE DEF k
    <2>2. 2 ^ k \in Nat \ {0} /\ 2 ^ Bits \in Nat \ {0}
      BY ONLY <2>1, PowIs
    <2>3. QED
      BY <2>2 DEF k
  <1> HIDE DEF q
  <1>3. s \in 1 .. n /\ S \in SUBSET (0 .. n) /\ S # {}
    <2>1. s \in Int /\ 1 <= s /\ s <= n
      BY <1>1, <1>2
    <2>2. QED
      BY <1>1, <2>1
  <1>4. T!Max(S) \in S /\ \A y \in S : y <= T!Max(S)
    BY <1>1, <1>3, MaxIs
  <1>5. T!Rounded(s) = T!Max(S)
    BY DEF T!Rounded
  <1>6. QED
    <2>1. T!Max(S) \in T!MinSize .. n
      BY <1>1, <1>3, <1>4
    <2>2. T!Max(S) <= 2 ^ Bits - q \/ T!Max(S) = T!MinSize
      BY <1>1, <1>4
    <2>3. QED
      BY <1>5, <2>1, <2>2 DEF q

LEMMA FoundIs ==
  ASSUME NEW t, Good(t), NEW s \in TlsfRequests, NEW size, size = T!Rounded(s),
         NEW c \in T!Find(t, T!RoundUp(size)), NEW h, h = t.heads[c]
  PROVE  /\ h \in Frees(t) /\ K(t, h) = c /\ t.nodes[h].prev = T!NULL
         /\ size \in T!MinSize .. T!Total /\ t.nodes[h].size >= size
         /\ T!Find(t, T!RoundUp(size)) = {c}
         /\ T!NotAfter(T!RoundUp(size), c)
         /\ \A i \in Frees(t) : T!NotAfter(T!RoundUp(size), K(t, i)) => T!NotAfter(c, K(t, i))
  <1>1. t \in TState /\ Chains(t, Frees(t)) /\ Marked(t)
    BY DEF Good, Chains
  <1>2. /\ size \in T!MinSize .. T!Total
        /\ size <= 2 ^ Bits - 2 ^ (Bits - 1 - L2Log2) \/ size = T!MinSize
    BY RoundedIs
  <1>3. /\ T!RoundUp(size) \in Cls
        /\ \A b \in T!MinSize .. T!Total : T!NotAfter(T!RoundUp(size), T!Class(b)) => size <= b
    BY ONLY <1>2, RoundUpIs
  <1> DEFINE d == T!RoundUp(size)
  <1> HIDE DEF d
  <1>4. Finds(t, d, c) /\ T!Find(t, d) = {c}
    BY <1>1, <1>3, FindIs DEF d
  <1>5. h \in Frees(t) /\ K(t, h) = c /\ c \in Cls
    BY <1>1, <1>4 DEF Finds, Chains
  <1>6. t.nodes[h].prev = T!NULL /\ t.nodes[h].size \in T!MinSize .. T!Total
    BY <1>1, <1>5 DEF Chains
  <1>7. t.nodes[h].size >= size
    <2>1. T!NotAfter(d, T!Class(t.nodes[h].size))
      BY <1>4, <1>5 DEF Finds, K
    <2>2. size <= t.nodes[h].size
      BY <1>3, <1>6, <2>1 DEF d
    <2>3. QED
      BY ONLY <1>2, <1>6, <2>2, TlsfConstantsAre
  <1>8. ASSUME NEW i \in Frees(t), T!NotAfter(d, K(t, i))
        PROVE  T!NotAfter(c, K(t, i))
    <2>1. t.heads[K(t, i)] # T!NULL /\ K(t, i) \in Cls
      BY <1>1, HeadFor, KIs
    <2>2. QED
      BY <1>4, <1>8, <2>1 DEF Finds
  <1>9. T!NotAfter(d, c)
    BY <1>4 DEF Finds
  <1>10. QED
    BY <1>2, <1>4, <1>5, <1>6, <1>7, <1>8, <1>9 DEF d

(* And when nothing is found, nothing would have fitted. *)
LEMMA NotFoundIs ==
  ASSUME NEW t, Good(t), NEW s \in TlsfRequests, NEW size, size = T!Rounded(s),
         T!Find(t, T!RoundUp(size)) = {}
  PROVE  \A i \in Frees(t) : ~T!NotAfter(T!RoundUp(size), K(t, i))
  <1>1. t \in TState /\ Chains(t, Frees(t)) /\ Marked(t)
    BY DEF Good, Chains
  <1>2. /\ size \in T!MinSize .. T!Total
        /\ size <= 2 ^ Bits - 2 ^ (Bits - 1 - L2Log2) \/ size = T!MinSize
    BY RoundedIs
  <1>3. T!RoundUp(size) \in Cls
    BY ONLY <1>2, RoundUpIs
  <1>4. \A c \in Cls : t.heads[c] # T!NULL => ~T!NotAfter(T!RoundUp(size), c)
    BY <1>1, <1>3, FindIs
  <1>5. \A i \in Frees(t) : t.heads[K(t, i)] # T!NULL /\ K(t, i) \in Cls
    BY <1>1, HeadFor, KIs
  <1>6. QED
    BY <1>4, <1>5

(* A call of allocate() that is served. *)
LEMMA ServedIs ==
  ASSUME NEW t, Good(t), NoPair(t), NEW s \in TlsfRequests, NEW size, size = T!Rounded(s),
         NEW c \in T!Find(t, T!RoundUp(size)), NEW h, h = t.heads[c],
         NEW w, HeadTaken(w, t, c, h),
         T!Rest(t, h, size) >= T!MinSize => T!HasNode(t),
         NEW u, Allocated(u, T!Split(w, h, size), h)
  PROVE  Takes(u, t, h, size) /\ h \in Frees(t) /\ t.nodes[h].size >= size
  <1>1. /\ h \in Frees(t) /\ K(t, h) = c /\ t.nodes[h].prev = T!NULL
        /\ size \in T!MinSize .. T!Total /\ t.nodes[h].size >= size
    <2>1. /\ Good(t) /\ s \in TlsfRequests /\ size = T!Rounded(s)
          /\ c \in T!Find(t, T!RoundUp(size)) /\ h = t.heads[c]
      OBVIOUS
    <2>2. QED
      BY ONLY <2>1, FoundIs
  <1>2. /\ Good(t) /\ NoPair(t) /\ HeadTaken(w, t, K(t, h), h)
        /\ Allocated(u, T!Split(w, h, size), h)
    BY <1>1
  <1>3. T!Rest(w, h, size) = t.nodes[h].size - size /\ T!Rest(t, h, size) = t.nodes[h].size - size
    <2>1. SameBlocks(w, t, T!Node) /\ h \in T!Node
      <3>1. SameBlocks(w, t, T!Node)
        BY ONLY <1>1, <1>2, HeadTakenIs DEF HeadTaken
      <3>2. QED
        BY <1>1, <3>1 DEF Frees, Lives
    <2>2. w.nodes[h].size = t.nodes[h].size
      BY <2>1 DEF SameBlocks
    <2>3. QED
      BY <2>2 DEF T!Rest
  <1>4. CASE T!Rest(w, h, size) < T!MinSize
    <2>1. T!Split(w, h, size) = w
      BY <1>4 DEF T!Split
    <2>2. Allocated(u, w, h)
      BY <1>2, <2>1
    <2>3. Takes(u, t, h, size)
      BY ONLY <1>1, <1>2, <2>2, TakeWholeIs
    <2>4. QED
      BY <1>1, <2>3
  <1>5. CASE ~(T!Rest(w, h, size) < T!MinSize)
    <2>1. t.nodes[h].size - size >= T!MinSize
      <3>1. t.nodes[h].size \in Int /\ size \in Int /\ T!MinSize \in Int
        <4>1. h \in Lives(t) /\ Blocks(t)
          BY <1>1 DEF Frees, Good
        <4>2. t.nodes[h].size \in T!MinSize .. T!Total
          BY ONLY <4>1 DEF Blocks, Place
        <4>3. QED
          BY ONLY <1>1, <4>2, TlsfConstantsAre
      <3>2. QED
        BY ONLY <1>3, <1>5, <3>1
    <2>2. T!HasNode(t)
      BY <1>3, <2>1
    <2>3. Takes(u, t, h, size)
      BY ONLY <1>1, <1>2, <2>1, <2>2, TakePartIs
    <2>4. QED
      BY <1>1, <2>3
  <1>6. QED
    BY <1>4, <1>5

(* The variables of the client after one of them was given node h. *)
Given(v, h) ==
  /\ ~TOwns(v) /\ h \in Frees(mem)
  /\ ptr' = [ptr EXCEPT ![v] = [offset |-> mem.nodes[h].offset, nodeIndex |-> h]]

LEMMA TlsfGives ==
  ASSUME kind = "tlsf", kind' = kind, Good(mem), TlsfClient, NEW v \in Var,
         NEW h, Given(v, h), NEW size, Takes(mem', mem, h, size)
  PROVE  TlsfClient' /\ AbstractStep
  <1> DEFINE b == [offset |-> mem.nodes[h].offset, nodeIndex |-> h]
  <1>1. /\ ~TOwns(v) /\ h \in Frees(mem) /\ h \notin Held(mem) /\ h \in T!Node /\ h # T!NULL
        /\ h \in Lives(mem) /\ Blocks(mem)
    BY TNodeIs DEF Given, Held, Frees, Lives, Good
  <1>2. /\ Good(mem') /\ Held(mem') = Held(mem) \cup {h}
        /\ mem'.nodes[h].offset = mem.nodes[h].offset
        /\ \A j \in Held(mem) : /\ j \in Held(mem') /\ j # h
                                /\ mem'.nodes[j].offset = mem.nodes[j].offset
                                /\ mem'.nodes[j].size = mem.nodes[j].size
    BY <1>1 DEF Takes, Kept
  <1>3. /\ ptr'[v] = b /\ \A w \in Var \ {v} : ptr'[w] = ptr[w]
        /\ ptr' = [w \in Var |-> ptr'[w]]
    BY DEF TlsfClient, Given
  <1> HIDE DEF b
  <1>4. /\ TOwns(v)' /\ THolder(v)' = h
        /\ \A w \in Var \ {v} : (TOwns(w)' <=> TOwns(w)) /\ THolder(w)' = THolder(w)
    BY <1>1, <1>3 DEF TOwns, THolder, T!NoAllocation, b
  <1>5. \A w \in Var \ {v} : TOwns(w) =>
          /\ THolder(w) \in Held(mem)
          /\ ptr[w] = [offset |-> mem.nodes[THolder(w)].offset, nodeIndex |-> THolder(w)]
    BY DEF TlsfClient
  <1>6. TlsfClient'
    <2>1. ASSUME NEW w \in Var, TOwns(w)'
          PROVE  /\ THolder(w)' \in Held(mem')
                 /\ ptr'[w] = [offset |-> mem'.nodes[THolder(w)'].offset,
                               nodeIndex |-> THolder(w)']
      <3>1. CASE w = v
        BY <1>2, <1>3, <1>4, <3>1 DEF b
      <3>2. CASE w # v
        <4>1. TOwns(w) /\ THolder(w)' = THolder(w) /\ ptr'[w] = ptr[w]
          BY <1>3, <1>4, <2>1, <3>2
        <4>2. QED
          BY <1>2, <1>5, <3>2, <4>1
      <3>3. QED
        BY <3>1, <3>2
    <2>2. ASSUME NEW w \in Var, NEW x \in Var, w # x, TOwns(w)', TOwns(x)'
          PROVE  THolder(w)' # THolder(x)'
      <3>1. \A y \in Var \ {v} : TOwns(y)' => THolder(y)' # h
        BY <1>2, <1>4, <1>5
      <3>2. \A y, z \in Var : y # z /\ TOwns(y) /\ TOwns(z) => THolder(y) # THolder(z)
        BY DEF TlsfClient
      <3>3. CASE w = v \/ x = v
        BY <1>4, <2>2, <3>1, <3>3
      <3>4. CASE w # v /\ x # v
        BY <1>4, <2>2, <3>2, <3>4
      <3>5. QED
        BY <3>3, <3>4
    <2>3. ASSUME NEW j \in Held(mem')
          PROVE  \E w \in Var : TOwns(w)' /\ THolder(w)' = j
      <3>1. CASE j = h
        BY <1>4, <3>1
      <3>2. CASE j # h
        <4>1. j \in Held(mem)
          BY <1>2, <2>3, <3>2
        <4>2. PICK w \in Var : TOwns(w) /\ THolder(w) = j
          BY <4>1 DEF TlsfClient
        <4>3. QED
          BY <1>1, <1>4, <4>2
      <3>3. QED
        BY <3>1, <3>2
    <2>4. QED
      BY <1>3, <2>1, <2>2, <2>3 DEF TlsfClient
  <1> DEFINE o == mem'.nodes[h].offset
             n == mem'.nodes[h].size
  <1>7. BlockOf(v)' = {Base + k : k \in o .. o + n - 1}
    <2>1. TBlock(v)'
      BY TBlockIs
    <2>2. ptr'[v].offset = o
      BY <1>2, <1>3 DEF b
    <2>3. QED
      BY <1>4, <2>1, <2>2 DEF TBlock
  <1>8. /\ h \in Lives(mem') /\ h \in Held(mem')
        /\ \A j \in Held(mem) : j \in Lives(mem')
        /\ o \in Nat /\ n \in Nat /\ o + n <= T!Total
    <2>1. h \in Lives(mem') /\ h \in Held(mem') /\ \A j \in Held(mem) : j \in Lives(mem')
      BY <1>2 DEF Held
    <2>2. Place(mem', h)
      BY <1>2, <2>1 DEF Good, Blocks
    <2>3. QED
      BY <2>1, <2>2, TlsfConstantsAre DEF Place
  <1> HIDE DEF o, n
  <1>9. BlockOf(v)' \subseteq Unit
    <2>1. Base \in Nat /\ Size \in Nat /\ T!Total \in Nat /\ T!Total <= Size /\ End = Base + Size
      BY Bounds, TlsfConstantsAre
    <2>2. ASSUME NEW k \in o .. o + n - 1
          PROVE  Base + k \in Unit
      BY <1>8, <2>1 DEF Unit
    <2>3. QED
      BY <1>7, <2>2
  <1>10. ASSUME NEW w \in Var \ {v}
         PROVE  BlockOf(w)' = BlockOf(w) /\ BlockOf(v)' \cap BlockOf(w) = {}
    <2>0. TBlock(w) /\ TBlock(w)'
      BY TBlockIs
    <2>1. CASE ~TOwns(w)
      <3>1. BlockOf(w) = {} /\ BlockOf(w)' = {}
        BY <1>4, <2>0, <2>1 DEF TBlock
      <3>2. QED
        BY <3>1
    <2>2. CASE TOwns(w)
      <3> DEFINE j == THolder(w)
                 p == mem'.nodes[j].offset
                 m == mem'.nodes[j].size
      <3>1. /\ j \in Held(mem) /\ ptr[w].offset = mem.nodes[j].offset /\ ptr'[w] = ptr[w]
            /\ THolder(w)' = j /\ TOwns(w)'
        <4>1. /\ THolder(w) \in Held(mem)
              /\ ptr[w] = [offset |-> mem.nodes[THolder(w)].offset, nodeIndex |-> THolder(w)]
          BY ONLY <1>5, <2>2, w \in Var \ {v}
        <4>2. ptr[w].offset = mem.nodes[THolder(w)].offset
          BY ONLY <4>1
        <4>3. ptr'[w] = ptr[w] /\ (TOwns(w)' <=> TOwns(w)) /\ THolder(w)' = THolder(w)
          BY ONLY <1>3, <1>4, w \in Var \ {v}
        <4>4. QED
          BY <2>2, <4>1, <4>2, <4>3
      <3>2. /\ p = mem.nodes[j].offset /\ m = mem.nodes[j].size /\ j # h
        BY <1>2, <3>1
      <3>3. /\ BlockOf(w) = {Base + k : k \in p .. p + m - 1}
            /\ BlockOf(w)' = {Base + k : k \in p .. p + m - 1}
        BY <2>0, <2>2, <3>1, <3>2 DEF TBlock
      <3>4. j \in Lives(mem') /\ Disjoint(mem', h, j) /\ p \in Nat /\ m \in Nat
        <4>1. j \in Lives(mem') /\ Blocks(mem')
          BY <1>2, <1>8, <3>1 DEF Good
        <4>2. Place(mem', j)
          BY <4>1 DEF Blocks
        <4>3. Disjoint(mem', h, j)
          BY <1>8, <3>2, <4>1 DEF Blocks
        <4>4. p \in Nat /\ m \in Nat
          BY <4>2, TlsfConstantsAre DEF Place
        <4>5. QED
          BY <4>1, <4>3, <4>4
      <3>5. o + n <= p \/ p + m <= o
        BY <3>4 DEF Disjoint, o, n
      <3> HIDE DEF j, p, m
      <3>6. Base \in Nat
        BY Bounds
      <3>7. {Base + k : k \in o .. o + n - 1} \cap {Base + k : k \in p .. p + m - 1} = {}
        <4>1. ASSUME NEW k \in o .. o + n - 1, NEW l \in p .. p + m - 1, Base + k = Base + l
              PROVE  FALSE
          BY ONLY <1>8, <3>4, <3>5, <3>6, <4>1
        <4>2. QED
          BY <4>1
      <3>8. QED
        BY <1>7, <3>3, <3>7
    <2>3. QED
      BY <2>1, <2>2
  <1>11. Abstract!HChange(v)
    <2> DEFINE a == [w \in Var |-> BlockOf(w)]
               c == [w \in Var |-> BlockOf(w)']
    <2>1. c = [a EXCEPT ![v] = c[v]]
      <3>1. \A w \in Var \ {v} : c[w] = a[w]
        BY <1>10
      <3>2. QED
        BY Zenon, <3>1
    <2>2. c[v] \subseteq Unit /\ \A w \in Var \ {v} : c[v] \cap a[w] = {}
      BY <1>9, <1>10
    <2>3. QED
      BY <2>1, <2>2 DEF Abstract!HChange
  <1>12. QED
    BY <1>6, <1>11 DEF AbstractStep, Abstract!HNext

LEMMA TlsfAllocateStep ==
  ASSUME kind = "tlsf", kind' = kind, TlsfInv, NEW v \in Var, NEW s \in TlsfRequests,
         T!Allocate(v, s)
  PROVE  TlsfInv' /\ AbstractStep
  <1> DEFINE size == T!Rounded(s)
  <1>1. PICK c \in T!Find(mem, T!RoundUp(size)) :
          LET h == mem.heads[c]
              w == T!TakeHead(mem, c, mem.nodes[h].next)
              sound == mem.nodes[h].size >= size /\ ~mem.nodes[h].allocated
          IN  /\ T!Rest(mem, h, size) >= T!MinSize => T!HasNode(mem)
              /\ mem' = [T!Split(w, h, size) EXCEPT !.nodes[h].allocated = TRUE]
              /\ ptr' = [ptr EXCEPT ![v] = [offset |-> mem.nodes[h].offset, nodeIndex |-> h]]
              /\ fault' = IF sound /\ T!Validated(mem') THEN "none" ELSE "assert"
    BY DEF T!Allocate
  <1> DEFINE h == mem.heads[c]
             w == T!TakeHead(mem, c, mem.nodes[h].next)
             u == [T!Split(w, h, size) EXCEPT !.nodes[h].allocated = TRUE]
  <1>2. /\ T!Rest(mem, h, size) >= T!MinSize => T!HasNode(mem)
        /\ mem' = u
        /\ ptr' = [ptr EXCEPT ![v] = [offset |-> mem.nodes[h].offset, nodeIndex |-> h]]
        /\ fault' = IF (mem.nodes[h].size >= size /\ ~mem.nodes[h].allocated) /\ T!Validated(mem')
                    THEN "none" ELSE "assert"
    BY <1>1
  <1>3. Good(mem) /\ NoPair(mem) /\ TlsfClient
    BY DEF TlsfInv
  <1>4. Takes(u, mem, h, size) /\ h \in Frees(mem) /\ mem.nodes[h].size >= size
    <2>1. c \in T!Find(mem, T!RoundUp(size)) /\ s \in TlsfRequests
      OBVIOUS
    <2>2. T!Rest(mem, h, size) >= T!MinSize => T!HasNode(mem)
      BY <1>2
    <2>3. HeadTaken(w, mem, c, h) /\ Allocated(u, T!Split(w, h, size), h)
      BY DEF HeadTaken, Allocated
    <2> HIDE DEF w, u
    <2>4. QED
      BY ONLY <1>3, <2>1, <2>2, <2>3, ServedIs
  <1> HIDE DEF h, u, size
  <1>5. Takes(mem', mem, h, size)
    BY <1>2, <1>4
  <1>6. Given(v, h)
    BY <1>2, <1>4 DEF Given, TOwns, T!Allocate
  <1>7. TlsfClient' /\ AbstractStep
    BY <1>3, <1>5, <1>6, TlsfGives
  <1>8. Good(mem') /\ NoPair(mem')
    BY <1>5 DEF Takes
  <1>9. fault' = "none"
    <2>1. T!Validated(mem')
      BY <1>8, ValidatedIs
    <2>2. ~mem.nodes[h].allocated
      BY <1>4 DEF Frees
    <2>3. QED
      BY <1>2, <1>4, <2>1, <2>2
  <1>10. QED
    BY <1>7, <1>8, <1>9 DEF TlsfInv

LEMMA TlsfSame ==
  ASSUME kind = "tlsf", kind' = kind, TlsfInv, mem' = mem, ptr' = ptr,
         fault' \in {"none", "memory", "nodes"}
  PROVE  TlsfInv' /\ AbstractStep
  <1>1. TlsfClient'
    <2>1. \A v \in Var : (TOwns(v)' <=> TOwns(v)) /\ THolder(v)' = THolder(v)
      BY DEF TOwns, THolder
    <2>2. Held(mem') = Held(mem)
      OBVIOUS
    <2>3. QED
      BY <2>1, <2>2 DEF TlsfInv, TlsfClient
  <1>2. \A v \in Var : BlockOf(v)' = BlockOf(v)
    <2>1. \A v \in Var : T!BlockOf(v)' = T!BlockOf(v)
      BY DEF T!BlockOf
    <2>2. QED
      BY <2>1 DEF BlockOf
  <1>3. QED
    BY <1>1, <1>2 DEF TlsfInv, AbstractStep

LEMMA TlsfStep ==
  ASSUME kind = "tlsf", kind' = kind, TlsfInv, T!Next
  PROVE  TlsfInv' /\ AbstractStep
  <1>1. CASE \E v \in Var : T!Free(v)
    BY <1>1, TlsfFreeStep
  <1>2. CASE \E v \in Var, s \in TlsfRequests : T!Allocate(v, s)
    BY <1>2, TlsfAllocateStep
  <1>3. CASE \E v \in Var, s \in TlsfRequests : T!Refuse(v, s)
    <2>1. mem' = mem /\ ptr' = ptr /\ fault' \in {"none", "memory", "nodes"}
      BY <1>3 DEF T!Refuse
    <2>2. QED
      BY <2>1, TlsfSame
  <1>4. QED
    BY <1>1, <1>2, <1>3 DEF T!Next

LEMMA TlsfStays ==
  ASSUME kind = "tlsf", TlsfInv, UNCHANGED vars
  PROVE  TlsfInv' /\ AbstractStep
  <1>1. kind' = kind /\ mem' = mem /\ ptr' = ptr /\ fault' \in {"none", "memory", "nodes"}
    BY DEF vars, TlsfInv
  <1>2. QED
    BY <1>1, TlsfSame

-----------------------------------------------------------------------------
(* Tlsf: one free block to begin with. *)
Blank ==
  [l1 |-> {}, l2 |-> [l \in T!FirstLevel |-> {}], heads |-> [c \in Cls |-> T!NULL],
   nodes |-> [i \in T!Node |-> T!Unused], store |-> [k \in 1 .. MaxAllocs |-> MaxAllocs - k]]

LEMMA BlankIs ==
  /\ Blank \in TState /\ Chains(Blank, {}) /\ Lives(Blank) = {} /\ Stored(Blank)
  /\ Len(Blank.store) > 0
  /\ Blank.nodes = [i \in T!Node |-> T!Unused]
  <1>1. MaxAllocs \in Nat /\ MaxAllocs > 1 /\ T!Node = 0 .. MaxAllocs - 1
    BY TlsfConstantsAre DEF T!Node
  <1> DEFINE s == [k \in 1 .. MaxAllocs |-> MaxAllocs - k]
  <1>2. s \in Seq(T!Node) /\ Len(s) = MaxAllocs
    <2>1. s \in [1 .. MaxAllocs -> T!Node]
      BY <1>1
    <2> HIDE DEF s
    <2>2. s \in Seq(T!Node)
      BY <1>1, <2>1, IsASeq
    <2>3. DOMAIN s = 1 .. MaxAllocs
      BY <2>1
    <2>4. QED
      BY <1>1, <2>2, <2>3, LenProperties
  <1>3. \A k \in 1 .. MaxAllocs : s[k] = MaxAllocs - k
    OBVIOUS
  <1> HIDE DEF s
  <1>4. /\ Blank.l1 = {} /\ Blank.l2 = [l \in T!FirstLevel |-> {}]
        /\ Blank.heads = [c \in Cls |-> T!NULL]
        /\ Blank.nodes = [i \in T!Node |-> T!Unused] /\ Blank.store = s
    BY DEF Blank, s
  <1>5. Blank \in TState
    <2>1. /\ {} \in SUBSET T!FirstLevel
          /\ [l \in T!FirstLevel |-> {}] \in [T!FirstLevel -> SUBSET T!SecondLevel]
      OBVIOUS
    <2>2. /\ [c \in Cls |-> T!NULL] \in [Cls -> T!Pointer]
          /\ [i \in T!Node |-> T!Unused] \in [T!Node -> TNode]
      BY TNodeIs, UnusedIs
    <2>3. QED
      BY <1>2, <2>1, <2>2 DEF Blank, s, TState
  <1>6. Lives(Blank) = {}
    BY <1>4, UnusedIs DEF Lives
  <1>7. Chains(Blank, {})
    <2>1. Marked(Blank)
      <3>1. \A c \in Cls : c[1] \in T!FirstLevel
        BY ClsIs
      <3>2. \A c \in Cls : c[2] \in Blank.l2[c[1]] <=> Blank.heads[c] # T!NULL
        BY <1>4, <3>1
      <3>3. \A l \in T!FirstLevel : l \in Blank.l1 <=> Blank.l2[l] # {}
        BY <1>4
      <3>4. QED
        BY <3>2, <3>3 DEF Marked
    <2>2. Ranked(Blank, {})
      <3>1. [i \in T!Node |-> 0] \in [T!Node -> Nat]
        OBVIOUS
      <3>2. QED
        BY <3>1 DEF Ranked
    <2>3. \A c \in Cls : Blank.heads[c] = T!NULL
      BY <1>4
    <2>4. QED
      BY <2>1, <2>2, <2>3 DEF Chains
  <1>8. Stored(Blank)
    <2>1. \A k, l \in 1 .. MaxAllocs : s[k] = s[l] => k = l
      BY <1>1, <1>3
    <2>2. \A k \in 1 .. MaxAllocs : s[k] \in T!Node
      BY <1>1, <1>3
    <2>3. ASSUME NEW i \in T!Node
          PROVE  \E k \in 1 .. MaxAllocs : s[k] = i
      <3>1. MaxAllocs - i \in 1 .. MaxAllocs /\ MaxAllocs - (MaxAllocs - i) = i
        BY <1>1
      <3>2. s[MaxAllocs - i] = i
        BY <1>3, <3>1
      <3>3. QED
        BY <3>1, <3>2
    <2>4. QED
      BY <1>2, <1>4, <1>6, <2>1, <2>2, <2>3 DEF Stored
  <1>9. QED
    BY <1>1, <1>2, <1>4, <1>5, <1>6, <1>7, <1>8

LEMMA TlsfBegins ==
  ASSUME T!Init
  PROVE  TlsfInv
  <1> DEFINE i == T!Last(Blank.store)
  <1>1. mem = T!InsertNode(Blank, T!Total, 0)
    BY DEF T!Init, Blank, Cls
  <1>2. T!Total \in T!MinSize .. T!Total /\ 0 \in 0 .. T!Total /\ T!NULL = -1
        /\ T!Total \in Nat
    BY TlsfConstantsAre
  <1>3. i \in T!Node /\ Inserts(mem, Blank, i, T!Total, 0)
    <2>1. /\ Blank \in TState /\ Chains(Blank, {}) /\ Len(Blank.store) > 0 /\ i \notin {}
      BY BlankIs
    <2>2. QED
      BY ONLY <1>1, <1>2, <2>1, InsertNodeIs
  <1> HIDE DEF i
  <1>4. Chains(mem, {i})
    <2>1. Chains(mem, {} \cup {i})
      <3>1. Blank \in TState /\ Chains(Blank, {}) /\ i \notin {}
        BY BlankIs
      <3>2. QED
        BY ONLY <1>2, <1>3, <3>1, InsertedIs
    <2>2. QED
      BY <2>1
  <1>5. /\ mem \in TState /\ mem.store = T!Front(Blank.store)
        /\ mem.nodes[i].size = T!Total /\ mem.nodes[i].offset = 0
        /\ SameBlocks(mem, Blank, T!Node \ {i})
        /\ mem.nodes[i].aoPrevious = Blank.nodes[i].aoPrevious
        /\ mem.nodes[i].aoNext = Blank.nodes[i].aoNext
        /\ mem.nodes[i].allocated = Blank.nodes[i].allocated
    BY <1>3 DEF Inserts
  <1>6. /\ mem.nodes[i].aoPrevious = T!NULL /\ mem.nodes[i].aoNext = T!NULL
        /\ ~mem.nodes[i].allocated
        /\ \A j \in T!Node \ {i} : mem.nodes[j].offset = T!NULL /\ ~mem.nodes[j].allocated
    <2>1. \A j \in T!Node : Blank.nodes[j] = T!Unused
      BY BlankIs
    <2>2. QED
      BY <1>3, <1>5, <2>1 DEF T!Unused, SameBlocks
  <1>7. Lives(mem) = {i} /\ Frees(mem) = {i} /\ Held(mem) = {}
    <2>1. mem.nodes[i].offset # T!NULL
      BY <1>2, <1>5
    <2>2. Lives(mem) = {i}
      BY <1>3, <1>6, <2>1 DEF Lives
    <2>3. QED
      BY <1>6, <2>2 DEF Frees, Held
  <1>8. Blocks(mem)
    <2>1. Place(mem, i) /\ Behind(mem, i) /\ Before(mem, i)
      BY <1>2, <1>5, <1>6 DEF Place, Behind, Before
    <2>2. QED
      BY <1>5, <1>6, <1>7, <2>1 DEF Blocks
  <1>9. Stored(mem)
    <2>1. /\ Blank \in TState /\ Stored(Blank) /\ Len(Blank.store) > 0 /\ Lives(Blank) = {}
      BY BlankIs
    <2>2. Lives(mem) = Lives(Blank) \cup {T!Last(Blank.store)}
      BY <1>7, <2>1 DEF i
    <2>3. QED
      BY ONLY <1>5, <2>1, <2>2, PopIs
  <1>10. Good(mem) /\ NoPair(mem)
    BY <1>4, <1>5, <1>6, <1>7, <1>8, <1>9 DEF Good, NoPair, Idle
  <1>11. TlsfClient
    <2>1. ptr = [v \in Var |-> T!NoAllocation]
      BY DEF T!Init
    <2>2. ptr = [v \in Var |-> ptr[v]] /\ \A v \in Var : ~TOwns(v)
      BY <2>1 DEF TOwns
    <2>3. QED
      BY <1>7, <2>2 DEF TlsfClient
  <1>12. fault = "none"
    BY DEF T!Init
  <1>13. QED
    BY <1>10, <1>11, <1>12 DEF TlsfInv

-----------------------------------------------------------------------------
(* Tlsf: what its properties say. *)
LEMMA TlsfIsTyped ==
  ASSUME TlsfInv
  PROVE  T!TypeOK
  <1>1. mem \in TState /\ Blocks(mem) /\ TlsfClient
    BY DEF TlsfInv, Good
  <1>2. /\ mem.l1 \subseteq T!FirstLevel
        /\ mem.l2 \in [T!FirstLevel -> SUBSET T!SecondLevel]
        /\ mem.heads \in [T!FirstLevel \X T!SecondLevel -> T!Pointer]
        /\ mem.nodes \in [T!Node -> [offset : 0 .. T!Total \cup {T!NULL}, size : 0 .. T!Total,
                              next : T!Pointer, prev : T!Pointer, aoPrevious : T!Pointer,
                              aoNext : T!Pointer, allocated : BOOLEAN]]
        /\ mem.store \in Seq(T!Node)
    BY <1>1 DEF TState, TNode, Cls
  <1>3. ASSUME NEW v \in Var
        PROVE  ptr[v] = T!NoAllocation \/ ptr[v] \in [offset : 0 .. T!Total, nodeIndex : T!Node]
    <2>1. CASE TOwns(v)
      <3>1. /\ THolder(v) \in Held(mem)
            /\ ptr[v] = [offset |-> mem.nodes[THolder(v)].offset, nodeIndex |-> THolder(v)]
        BY <1>1, <2>1 DEF TlsfClient
      <3>2. THolder(v) \in Lives(mem)
        BY <3>1 DEF Held
      <3>3. Place(mem, THolder(v)) /\ THolder(v) \in T!Node
        BY <1>1, <3>2 DEF Blocks, Lives
      <3>4. QED
        BY <3>1, <3>3 DEF Place
    <2>2. CASE ~TOwns(v)
      BY <2>2 DEF TOwns
    <2>3. QED
      BY <2>1, <2>2
  <1>4. fault \in {"none", "memory", "nodes"}
    BY DEF TlsfInv
  <1>5. QED
    BY <1>2, <1>3, <1>4 DEF T!TypeOK

LEMMA TlsfLive ==
  T!Live = Lives(mem) /\ T!FreeNodes = Frees(mem) /\ \A i : T!ClassOf(i) = K(mem, i)
  BY DEF T!Live, T!FreeNodes, T!ClassOf, Lives, Frees, K

LEMMA TlsfIsTiled ==
  ASSUME TlsfInv
  PROVE  T!Tiled
  <1>1. Good(mem) /\ NoPair(mem) /\ Blocks(mem) /\ TlsfClient
    BY DEF TlsfInv, Good
  <1>2. \E i \in T!Live : mem.nodes[i].offset = 0 /\ mem.nodes[i].aoPrevious = T!NULL
    BY <1>1, TlsfLive DEF Blocks
  <1>3. ASSUME NEW i \in T!Live
        PROVE  LET n == mem.nodes[i] IN
               /\ n.size >= T!MinSize
               /\ IF n.aoNext = T!NULL THEN n.offset + n.size = T!Total
                  ELSE LET x == mem.nodes[n.aoNext] IN
                       /\ n.aoNext \in T!Live /\ x.aoPrevious = i /\ n.offset + n.size = x.offset
                       /\ n.allocated \/ x.allocated
    <2>1. i \in Lives(mem) /\ Place(mem, i) /\ Behind(mem, i)
      BY <1>1, TlsfLive DEF Blocks
    <2>2. mem.nodes[i].size >= T!MinSize
      BY <2>1, TlsfConstantsAre DEF Place
    <2>3. mem.nodes[i].aoNext # T!NULL =>
            mem.nodes[i].allocated \/ mem.nodes[mem.nodes[i].aoNext].allocated
      BY <1>1, <2>1 DEF NoPair
    <2>4. QED
      BY <2>1, <2>2, <2>3, TlsfLive DEF Behind
  <1>4. ASSUME NEW i \in T!Live, NEW j \in T!Live, i # j
        PROVE  mem.nodes[i].offset # mem.nodes[j].offset
    <2>1. Disjoint(mem, i, j) /\ i \in Lives(mem) /\ j \in Lives(mem)
      BY <1>1, <1>4, TlsfLive DEF Blocks
    <2>2. /\ mem.nodes[i].offset \in Nat /\ mem.nodes[i].size \in Nat /\ mem.nodes[i].size > 0
          /\ mem.nodes[j].offset \in Nat /\ mem.nodes[j].size \in Nat /\ mem.nodes[j].size > 0
      BY <1>1, <2>1, LiveIs
    <2>3. QED
      BY <2>1, <2>2 DEF Disjoint
  <1>5. ASSUME NEW v \in Var, NEW w \in Var, v # w, ptr[v] # T!NoAllocation
        PROVE  ptr[v] # ptr[w]
    <2>1. CASE TOwns(w)
      <3>1. THolder(v) # THolder(w)
        BY <1>1, <1>5, <2>1 DEF TlsfClient, TOwns
      <3>2. QED
        BY <3>1 DEF THolder
    <2>2. CASE ~TOwns(w)
      BY <1>5, <2>2 DEF TOwns
    <2>3. QED
      BY <2>1, <2>2
  <1>6. {[offset |-> mem.nodes[i].offset, nodeIndex |-> i] : i \in T!Live \ T!FreeNodes}
          = {ptr[v] : v \in Var} \ {T!NoAllocation}
    <2>1. T!Live \ T!FreeNodes = Held(mem)
      BY TlsfLive DEF Held
    <2>2. \A v \in Var : TOwns(v) =>
            /\ THolder(v) \in Held(mem)
            /\ ptr[v] = [offset |-> mem.nodes[THolder(v)].offset, nodeIndex |-> THolder(v)]
      BY <1>1 DEF TlsfClient
    <2>3. \A i \in Held(mem) : \E v \in Var : TOwns(v) /\ THolder(v) = i
      BY <1>1 DEF TlsfClient
    <2>4. ASSUME NEW v \in Var, TOwns(v)
          PROVE  ptr[v] \in {[offset |-> mem.nodes[i].offset, nodeIndex |-> i] : i \in Held(mem)}
      BY <2>2, <2>4
    <2>5. ASSUME NEW i \in Held(mem)
          PROVE  [offset |-> mem.nodes[i].offset, nodeIndex |-> i]
                   \in {ptr[v] : v \in Var} \ {T!NoAllocation}
      <3>1. PICK v \in Var : TOwns(v) /\ THolder(v) = i
        BY <2>3
      <3>2. ptr[v] = [offset |-> mem.nodes[i].offset, nodeIndex |-> i]
        BY <2>2, <3>1
      <3>3. ptr[v] # T!NoAllocation
        BY <3>1 DEF TOwns
      <3>4. QED
        BY <3>2, <3>3
    <2>6. QED
      BY <2>1, <2>4, <2>5 DEF TOwns
  <1>7. QED
    BY <1>2, <1>3, <1>4, <1>5, <1>6 DEF T!Tiled

(* Sets that grow, one after the other, from the sets of n things. *)
GrowsUp(f, n) == \A k \in 1 .. n : f[k - 1] \subseteq f[k]

LEMMA GrowsUpTo ==
  ASSUME NEW n \in Nat, NEW f, GrowsUp(f, n), NEW k \in 0 .. n
  PROVE  f[k] \subseteq f[n]
  <1> DEFINE S == {d \in k .. n : ~(f[k] \subseteq f[d])}
  <1>1. CASE S # {}
    <2>1. PICK d \in S : \A x \in Nat : x < d => x \notin S
      <3>1. S \in SUBSET Nat
        OBVIOUS
      <3>2. QED
        BY Zenon, <1>1, <3>1, LeastIndex
    <2>2. d # k
      BY <2>1
    <2>3. d \in 1 .. n /\ d - 1 \in k .. n /\ d - 1 \in Nat /\ d - 1 < d
      BY <2>1, <2>2
    <2>4. f[k] \subseteq f[d - 1]
      BY <2>1, <2>3
    <2>5. f[d - 1] \subseteq f[d]
      BY <2>3 DEF GrowsUp
    <2>6. QED
      BY <2>1, <2>4, <2>5
  <1>2. QED
    BY <1>1

LEMMA GrowsUpUntil ==
  ASSUME NEW n \in Nat, NEW X, IsFiniteSet(X), Cardinality(X) = n,
         NEW f \in [0 .. n -> SUBSET X], GrowsUp(f, n), \A k \in 1 .. n : f[k] # f[k - 1]
  PROVE  f[n] = X
  <1>1. \A k \in 0 .. n : f[k] \in SUBSET X /\ IsFiniteSet(f[k]) /\ Cardinality(f[k]) \in Nat
    <2>1. ASSUME NEW k \in 0 .. n
          PROVE  f[k] \in SUBSET X /\ IsFiniteSet(f[k]) /\ Cardinality(f[k]) \in Nat
      <3>1. f[k] \in SUBSET X
        OBVIOUS
      <3>2. IsFiniteSet(f[k])
        BY <3>1, FS_Subset
      <3>3. QED
        BY <3>1, <3>2, FS_CardinalityType
    <2>2. QED
      BY <2>1
  <1> DEFINE S == {k \in 0 .. n : ~(Cardinality(f[k]) >= k)}
  <1>2. CASE S # {}
    <2>1. PICK k \in S : \A x \in Nat : x < k => x \notin S
      <3>1. S \in SUBSET Nat
        OBVIOUS
      <3>2. QED
        BY Zenon, <1>2, <3>1, LeastIndex
    <2>2. k # 0
      BY <1>1, <2>1
    <2>3. k \in 1 .. n /\ k - 1 \in 0 .. n /\ k - 1 \in Nat /\ k - 1 < k /\ k \in 0 .. n
      BY <2>1, <2>2
    <2>4. Cardinality(f[k - 1]) >= k - 1
      BY <2>1, <2>3
    <2>5. f[k - 1] \in SUBSET f[k] /\ f[k] # f[k - 1]
      BY <2>3 DEF GrowsUp
    <2>6. Cardinality(f[k - 1]) <= Cardinality(f[k]) /\ Cardinality(f[k]) # Cardinality(f[k - 1])
      <3>1. IsFiniteSet(f[k])
        BY <1>1, <2>3
      <3>2. QED
        BY ONLY <2>5, <3>1, FS_Subset
    <2>7. Cardinality(f[k - 1]) \in Nat /\ Cardinality(f[k]) \in Nat
      BY <1>1, <2>3
    <2>8. QED
      BY <2>1, <2>3, <2>4, <2>6, <2>7
  <1>3. CASE S = {}
    <2>1. n \in 0 .. n
      OBVIOUS
    <2>2. Cardinality(f[n]) >= n /\ f[n] \in SUBSET X /\ Cardinality(f[n]) \in Nat
      BY <1>1, <1>3, <2>1
    <2>3. Cardinality(f[n]) <= n
      BY <2>2, FS_Subset
    <2>4. Cardinality(f[n]) = Cardinality(X)
      BY <2>2, <2>3
    <2>5. QED
      BY ONLY IsFiniteSet(X), <2>2, <2>4, FS_Subset
  <1>4. QED
    BY <1>2, <1>3

(* What Listed() adds up. *)
Nexts(t, X) == X \cup ({t.nodes[i].next : i \in X} \ {T!NULL})
Walks(f, t, c) ==
  /\ f[0] = {t.heads[c]} \ {T!NULL}
  /\ \A k \in 1 .. MaxAllocs : f[k] = Nexts(t, f[k - 1])

LEMMA ListedFrom ==
  ASSUME mem \in TState, NEW c \in Cls
  PROVE  \E f \in [0 .. MaxAllocs -> SUBSET T!Node] :
           Walks(f, mem, c) /\ T!Listed(c) = f[MaxAllocs]
  <1> DEFINE n == MaxAllocs
             P == SUBSET T!Node
             x0 == {mem.heads[c]} \ {T!NULL}
             E(f) == f = [k \in 0 .. n |->
                            IF k = 0 THEN x0
                            ELSE f[k - 1] \cup ({mem.nodes[i].next : i \in f[k - 1]} \ {T!NULL})]
             G == [k \in 1 .. n |-> [X \in P |-> Nexts(mem, X)]]
  <1>1. n \in Nat /\ x0 \in P
    <2>1. mem.heads[c] \in T!Pointer
      BY DEF TState
    <2>2. QED
      BY <2>1, TlsfConstantsAre, TNodeIs
  <1>2. ASSUME NEW X \in P
        PROVE  Nexts(mem, X) \in P
    <2>1. \A i \in X : mem.nodes[i].next \in T!Pointer
      BY TNodeIs
    <2>2. QED
      BY <2>1, TNodeIs DEF Nexts
  <1>3. \A k \in 1 .. n, X \in P : G[k][X] = Nexts(mem, X) /\ G[k][X] \in P
    BY <1>2
  <1> HIDE DEF G, x0, n, P
  <1>4. PICK g \in [0 .. n -> P] : g = [k \in 0 .. n |-> IF k = 0 THEN x0 ELSE G[k][g[k - 1]]]
    <2>1. Closed(G, n, P)
      BY <1>3 DEF Closed
    <2>2. \E g \in [0 .. n -> P] : Iterates(g, n, x0, G)
      BY Zenon, <1>1, <2>1, Recursion
    <2>3. QED
      BY <2>2 DEF Iterates
  <1>5. \A k \in 0 .. n : g[k] = IF k = 0 THEN x0 ELSE Nexts(mem, g[k - 1])
    <2>1. ASSUME NEW k \in 0 .. n
          PROVE  g[k] = IF k = 0 THEN x0 ELSE Nexts(mem, g[k - 1])
      <3>1. k # 0 => k \in 1 .. n /\ k - 1 \in 0 .. n
        BY <1>1
      <3>2. k # 0 => G[k][g[k - 1]] = Nexts(mem, g[k - 1])
        BY <1>3, <3>1
      <3>3. g[k] = IF k = 0 THEN x0 ELSE G[k][g[k - 1]]
        BY <1>4
      <3>4. QED
        BY <3>2, <3>3
    <2>2. QED
      BY <2>1
  <1>6. E(g)
    <2>1. g = [k \in 0 .. n |-> g[k]]
      OBVIOUS
    <2>2. QED
      BY Zenon, <1>5, <2>1 DEF Nexts
  <1> DEFINE f == CHOOSE h : E(h)
  <1>7. E(f)
    BY Zenon, <1>6
  <1>8. T!Listed(c) = f[n]
    BY DEF T!Listed, n, x0
  <1> HIDE DEF f
  <1>9. /\ \A k \in 0 .. n : f[k] = IF k = 0 THEN x0 ELSE Nexts(mem, f[k - 1])
        /\ f = [k \in 0 .. n |-> f[k]]
    BY Zenon, <1>7 DEF Nexts
  <1> DEFINE N == 1 .. n
  <1>10. 0 \in 0 .. n /\ \A k \in N : k \in 0 .. n /\ k # 0
    BY <1>1
  <1> HIDE DEF N
  <1>11. f[0] = x0 /\ \A k \in N : f[k] = Nexts(mem, f[k - 1])
    BY <1>10, <1>9, Zenon
  <1>12. g[0] = x0 /\ \A k \in N : g[k] = Nexts(mem, g[k - 1])
    BY <1>10, <1>5, Zenon
  <1>13. \A k \in 0 .. n : f[k] = g[k]
    <2>1. StepAlike(f, g, n)
      BY <1>11, <1>12, Zenon DEF N, StepAlike
    <2>2. Alike(f, g, n)
      BY <1>1, <2>1, SameRecursion
    <2>3. QED
      BY <2>2 DEF Alike
  <1>14. f \in [0 .. n -> P]
    BY <1>9, <1>13
  <1>15. QED
    BY <1>8, <1>11, <1>14, Zenon DEF N, Walks, n, x0, P

LEMMA NodesAre ==
  IsFiniteSet(T!Node) /\ Cardinality(T!Node) = MaxAllocs /\ MaxAllocs \in Nat
  <1>1. MaxAllocs \in Nat /\ MaxAllocs > 0
    BY TlsfConstantsAre
  <1>2. /\ IsFiniteSet(0 .. MaxAllocs - 1)
        /\ Cardinality(0 .. MaxAllocs - 1) = IF 0 > MaxAllocs - 1 THEN 0 ELSE MaxAllocs - 1 - 0 + 1
    <2>1. 0 \in Int /\ MaxAllocs - 1 \in Int
      BY <1>1
    <2>2. QED
      BY ONLY <2>1, FS_Interval
  <1>3. QED
    BY <1>1, <1>2 DEF T!Node

(* A list has the free blocks of its class. *)
LEMMA ListedIs ==
  ASSUME mem \in TState, NEW F, Chains(mem, F), NEW c \in Cls
  PROVE  T!Listed(c) = {i \in F : K(mem, i) = c}
  <1> DEFINE n == MaxAllocs
             L == {i \in F : K(mem, i) = c}
  <1>1. PICK f \in [0 .. n -> SUBSET T!Node] : Walks(f, mem, c) /\ T!Listed(c) = f[n]
    BY ListedFrom
  <1>2. n \in Nat /\ 0 \in 0 .. n /\ n \in 0 .. n
    BY NodesAre
  <1>3. /\ f[0] = {mem.heads[c]} \ {T!NULL}
        /\ \A k \in 1 .. n : f[k] = Nexts(mem, f[k - 1])
    BY <1>1 DEF Walks
  <1> HIDE DEF n
  <1>4. /\ F \subseteq T!Node /\ \A i \in F : i # T!NULL
        /\ \A i \in F : mem.nodes[i].next # T!NULL =>
             mem.nodes[i].next \in F /\ K(mem, mem.nodes[i].next) = K(mem, i)
        /\ \A i \in F : mem.nodes[i].prev # T!NULL =>
             mem.nodes[i].prev \in F /\ mem.nodes[mem.nodes[i].prev].next = i
        /\ \A i \in F : mem.nodes[i].prev = T!NULL => mem.heads[K(mem, i)] = i
        /\ mem.heads[c] # T!NULL => mem.heads[c] \in F /\ K(mem, mem.heads[c]) = c
    BY TNodeIs DEF Chains
  <1>5. GrowsUp(f, n)
    BY <1>3 DEF GrowsUp, Nexts
  (* What is found on the way is of the class. *)
  <1>6. f[n] \subseteq L
    <2> DEFINE S == {k \in 0 .. n : ~(f[k] \subseteq L)}
    <2>1. CASE S # {}
      <3>1. PICK k \in S : \A x \in Nat : x < k => x \notin S
        <4>1. S \in SUBSET Nat
          OBVIOUS
        <4>2. QED
          BY Zenon, <2>1, <4>1, LeastIndex
      <3>2. k # 0
        BY <1>3, <1>4, <3>1
      <3>3. k \in 1 .. n /\ k - 1 \in 0 .. n /\ k - 1 \in Nat /\ k - 1 < k
        BY <1>2, <3>1, <3>2
      <3>4. f[k - 1] \subseteq L
        BY <3>1, <3>3
      <3>5. f[k] = Nexts(mem, f[k - 1])
        BY <1>3, <3>3
      <3>6. f[k] \subseteq L
        BY <1>4, <3>4, <3>5 DEF Nexts
      <3>7. QED
        BY <3>1, <3>6
    <2>2. QED
      BY <1>2, <2>1
  (* And nothing of the class is missed. *)
  <1>7. L \subseteq f[n]
    <2>1. CASE \A k \in 1 .. n : f[k] # f[k - 1]
      <3>1. /\ IsFiniteSet(T!Node) /\ Cardinality(T!Node) = n
            /\ n \in Nat /\ f \in [0 .. n -> SUBSET T!Node] /\ GrowsUp(f, n)
        BY <1>1, <1>2, <1>5, NodesAre DEF n
      <3>2. f[n] = T!Node
        BY ONLY <2>1, <3>1, GrowsUpUntil
      <3>3. QED
        BY <1>4, <3>2
    <2>2. CASE \E k \in 1 .. n : f[k] = f[k - 1]
      <3>1. PICK k \in 1 .. n : f[k] = f[k - 1]
        BY <2>2
      <3> DEFINE X == f[k]
      <3>2. X \subseteq f[n] /\ f[0] \subseteq X
        <4>1. k \in 0 .. n
          BY <1>2
        <4>2. f[k] \subseteq f[n]
          BY <1>2, <1>5, <4>1, GrowsUpTo
        <4>3. k \in Nat /\ 0 \in 0 .. k /\ GrowsUp(f, k)
          BY <1>2, <1>5 DEF GrowsUp
        <4>4. f[0] \subseteq f[k]
          BY <4>3, GrowsUpTo
        <4>5. QED
          BY <4>2, <4>4
      <3>3. \A i \in X : mem.nodes[i].next # T!NULL => mem.nodes[i].next \in X
        <4>1. X = Nexts(mem, X)
          BY <1>3, <3>1
        <4> HIDE DEF X
        <4>2. QED
          BY <4>1 DEF Nexts
      <3>4. mem.heads[c] # T!NULL => mem.heads[c] \in X
        BY <1>3, <3>2
      <3> HIDE DEF X
      <3>5. PICK r \in [T!Node -> Nat] :
              \A i \in F : mem.nodes[i].next # T!NULL => r[i] < r[mem.nodes[i].next]
        BY DEF Chains, Ranked
      <3> DEFINE S == {r[i] : i \in L \ X}
      <3>6. CASE L \ X # {}
        <4>1. S \in SUBSET Nat /\ S # {}
          BY <1>4, <3>6
        <4>2. PICK m \in S : \A y \in Nat : y < m => y \notin S
          BY <4>1, LeastIndex
        <4>3. PICK i \in L \ X : r[i] = m
          BY <4>2
        <4> DEFINE p == mem.nodes[i].prev
        <4>4. i \in F /\ K(mem, i) = c /\ i \notin X /\ i # T!NULL
          BY <1>4, <4>3
        <4>5. p # T!NULL
          BY <1>4, <3>4, <4>4
        <4>6. p \in F /\ mem.nodes[p].next = i
          BY <1>4, <4>4, <4>5
        <4>7. K(mem, p) = c /\ r[p] < r[i] /\ r[p] \in Nat
          BY <1>4, <3>5, <4>4, <4>6
        <4>8. p \in X
          BY <4>2, <4>3, <4>6, <4>7
        <4>9. QED
          BY <3>3, <4>4, <4>6, <4>8
      <3>7. QED
        BY <3>2, <3>6
    <2>3. QED
      BY <2>1, <2>2
  <1>8. QED
    BY <1>1, <1>6, <1>7

LEMMA TlsfListsAgree ==
  ASSUME TlsfInv
  PROVE  T!ListsAgree
  <1>1. /\ mem \in TState /\ Chains(mem, Frees(mem)) /\ Stored(mem) /\ Marked(mem)
    BY DEF TlsfInv, Good, Chains
  <1>2. ASSUME NEW c \in T!FirstLevel \X T!SecondLevel
        PROVE  /\ T!Listed(c) = {i \in T!FreeNodes : T!ClassOf(i) = c}
               /\ c[2] \in mem.l2[c[1]] <=> mem.heads[c] # T!NULL
    <2>1. c \in Cls
      BY DEF Cls
    <2>2. T!Listed(c) = {i \in Frees(mem) : K(mem, i) = c}
      BY <1>1, <2>1, ListedIs
    <2>3. QED
      BY <1>1, <2>1, <2>2, TlsfLive DEF Marked
  <1>3. \A l \in T!FirstLevel : l \in mem.l1 <=> mem.l2[l] # {}
    BY <1>1 DEF Marked
  <1>4. ASSUME NEW i \in T!FreeNodes
        PROVE  LET n == mem.nodes[i] IN
               /\ n.prev = T!NULL <=> mem.heads[T!ClassOf(i)] = i
               /\ n.next # T!NULL => mem.nodes[n.next].prev = i
    <2>1. i \in Frees(mem) /\ T!ClassOf(i) = K(mem, i)
      BY TlsfLive
    <2>2. QED
      BY <1>1, <2>1 DEF Chains
  <1> DEFINE s == mem.store
  <1>5. /\ DOMAIN s = 1 .. Len(s)
        /\ \A k, l \in 1 .. Len(s) : s[k] = s[l] => k = l
        /\ \A k \in 1 .. Len(s) : s[k] \in T!Node \ Lives(mem)
        /\ \A i \in T!Node \ Lives(mem) : \E k \in 1 .. Len(s) : s[k] = i
    BY <1>1, LenProperties DEF Stored, TState
  <1> HIDE DEF s
  <1>6. T!Node \ T!Live = T!ToSet(s)
    BY <1>5, TlsfLive DEF T!ToSet
  <1>7. T!IsInjective(s)
    BY <1>5 DEF T!IsInjective
  <1>8. QED
    BY <1>2, <1>3, <1>4, <1>6, <1>7 DEF T!ListsAgree, s

LEMMA TlsfFits ==
  ASSUME TlsfInv
  PROVE  T!FitStep
  <1>1. Good(mem) /\ TlsfClient
    BY DEF TlsfInv
  <1>2. ASSUME NEW v \in Var, NEW s \in TlsfRequests, T!Refuse(v, s), fault' = "memory"
        PROVE  T!Fitting(s) = {}
    <2> DEFINE size == T!Rounded(s)
    <2>1. T!Find(mem, T!RoundUp(size)) = {}
      BY <1>2 DEF T!Refuse
    <2>2. s \in TlsfRequests /\ size = T!Rounded(s)
      OBVIOUS
    <2>3. \A i \in Frees(mem) : ~T!NotAfter(T!RoundUp(size), K(mem, i))
      BY ONLY <1>1, <2>1, <2>2, NotFoundIs
    <2>4. QED
      BY <2>3, TlsfLive DEF T!Fitting
  <1>3. ASSUME NEW v \in Var, NEW s \in TlsfRequests, T!Allocate(v, s)
        PROVE  LET h == ptr'[v].nodeIndex
               IN  /\ h \in T!Fitting(s)
                   /\ \A i \in T!Fitting(s) : T!NotAfter(T!ClassOf(h), T!ClassOf(i))
    <2> DEFINE size == T!Rounded(s)
    <2>1. PICK c \in T!Find(mem, T!RoundUp(size)) :
            ptr' = [ptr EXCEPT ![v] = [offset |-> mem.nodes[mem.heads[c]].offset,
                                       nodeIndex |-> mem.heads[c]]]
      BY <1>3 DEF T!Allocate
    <2> DEFINE h == mem.heads[c]
    <2>2. ptr'[v].nodeIndex = h
      <3>1. ptr'[v] = [offset |-> mem.nodes[h].offset, nodeIndex |-> h]
        BY <1>1, <2>1 DEF TlsfClient
      <3>2. QED
        BY <3>1
    <2>3. s \in TlsfRequests /\ size = T!Rounded(s) /\ c \in T!Find(mem, T!RoundUp(size))
          /\ h = mem.heads[c]
      OBVIOUS
    <2>4. /\ h \in Frees(mem) /\ K(mem, h) = c /\ T!NotAfter(T!RoundUp(size), c)
          /\ \A i \in Frees(mem) : T!NotAfter(T!RoundUp(size), K(mem, i)) => T!NotAfter(c, K(mem, i))
      BY ONLY <1>1, <2>3, FoundIs
    <2> HIDE DEF h
    <2>5. h \in T!Fitting(s)
      BY <2>4, TlsfLive DEF T!Fitting
    <2>6. ASSUME NEW i \in T!Fitting(s)
          PROVE  T!NotAfter(T!ClassOf(h), T!ClassOf(i))
      <3>1. i \in Frees(mem) /\ T!NotAfter(T!RoundUp(size), K(mem, i))
        BY <2>6, TlsfLive DEF T!Fitting
      <3>2. QED
        BY <2>4, <3>1, TlsfLive
    <2>7. QED
      BY <2>2, <2>5, <2>6
  <1>4. QED
    BY <1>2, <1>3 DEF T!FitStep
=============================================================================
