-------------------------- MODULE MerkleTree_proof ---------------------------
(***************************************************************************)
(* What a Merkle tree promises, for every depth and every leaf: a branch   *)
(* folds to the root if it is made of the siblings on the way up, and only *)
(* then, so that no other leaf is accepted at an index.                    *)
(***************************************************************************)
EXTENDS MerkleTree, FunctionTheorems, FiniteSetTheorems, SequenceTheorems, WellFoundedInduction, TLAPS

(* Induction over the naturals, for a property given as the set of those that
   have it: the least number without it would have a predecessor with it. *)
LEMMA SetInduction ==
  ASSUME NEW P, 0 \in P, \A n \in Nat : n \in P => n + 1 \in P
  PROVE  \A n \in Nat : n \in P
<1>. SUFFICES ASSUME Nat \ P # {} PROVE FALSE
  OBVIOUS
<1>. DEFINE Less == {r \in Nat \X Nat : r[1] < r[2]}
<1>1. IsWellFoundedOn(Less, Nat)
  BY NatLessThanWellFounded, Zenon DEF OpToRel
<1>2. PICK n \in Nat \ P : \A m \in Nat \ P : <<m, n>> \notin Less
  <2>. HIDE DEF Less
  <2>. QED  BY <1>1, WFMin
<1>3. n - 1 \in Nat
  BY <1>2
<1>4. <<n - 1, n>> \in Less
  BY <1>3
<1>5. n - 1 \in P
  BY <1>2, <1>3, <1>4
<1>. QED  BY <1>3, <1>5

-----------------------------------------------------------------------------
(* Powers of two, of which the prover knows nothing: 2^n is the number of
   subsets of n things, and one thing more gives every subset a twin. *)

(* The subsets of 1..n+1 with and without the last number are equally many. *)
LEMMA PowerStep ==
  ASSUME NEW n \in Nat
  PROVE  2^(n + 1) = 2 * 2^n /\ 2^n \in Nat
<1>. DEFINE Without == SUBSET (1..n)
            With    == {T \cup {n + 1} : T \in Without}
<1>1. IsFiniteSet(1..n) /\ Cardinality(1..n) = n
  BY FS_Interval
<1>2. IsFiniteSet(1..(n + 1)) /\ Cardinality(1..(n + 1)) = n + 1
  BY FS_Interval
<1>3. IsFiniteSet(Without) /\ Cardinality(Without) = 2^n
  BY <1>1, FS_SUBSET
<1>4. Cardinality(SUBSET (1..(n + 1))) = 2^(n + 1)
  BY <1>2, FS_SUBSET
<1>5. IsFiniteSet(With) /\ Cardinality(With) = Cardinality(Without)
  <2>. DEFINE twin == [T \in Without |-> T \cup {n + 1}]
  <2>1. twin \in [Without -> With]
    OBVIOUS
  <2>2. \A T, U \in Without : twin[T] = twin[U] => T = U
    <3>. SUFFICES ASSUME NEW T \in Without, NEW U \in Without, T \cup {n + 1} = U \cup {n + 1}
                  PROVE  T = U
      OBVIOUS
    <3>1. n + 1 \notin T /\ n + 1 \notin U
      OBVIOUS
    <3>. QED  BY <3>1
  <2>3. \A V \in With : \E T \in Without : twin[T] = V
    OBVIOUS
  <2>4. ExistsBijection(Without, With)
    <3>. HIDE DEF twin, Without, With
    <3>1. twin \in Bijection(Without, With)
      BY <2>1, <2>2, <2>3, Fun_IsBij
    <3>. QED  BY <3>1 DEF ExistsBijection
  <2>. QED  BY <1>3, <2>4, FS_Bijection
<1>6. SUBSET (1..(n + 1)) = Without \cup With
  <2>1. ASSUME NEW T \in SUBSET (1..(n + 1))
        PROVE  T \in Without \cup With
    <3>1. CASE n + 1 \in T
      <4>1. T = (T \ {n + 1}) \cup {n + 1} /\ T \ {n + 1} \in Without
        BY <3>1
      <4>. QED  BY <4>1
    <3>2. CASE n + 1 \notin T
      <4>1. T \in Without
        BY <3>2
      <4>. QED  BY <4>1
    <3>. QED  BY <3>1, <3>2
  <2>2. ASSUME NEW T \in Without \cup With
        PROVE  T \in SUBSET (1..(n + 1))
    OBVIOUS
  <2>. QED  BY <2>1, <2>2
<1>7. Without \cap With = {}
  OBVIOUS
<1>8. Cardinality(Without) \in Nat
  BY <1>3, FS_CardinalityType
<1>. HIDE DEF Without, With
<1>9. Cardinality(Without \cup With)
        = Cardinality(Without) + Cardinality(With) - Cardinality(Without \cap With)
  BY <1>3, <1>5, FS_Union
<1>10. Cardinality(Without \cap With) = 0
  BY <1>7, FS_EmptySet
<1>11. Cardinality(SUBSET (1..(n + 1))) = Cardinality(Without \cup With)
  BY <1>6, Zenon
<1>12. Cardinality(Without \cup With) = 2 * Cardinality(Without)
  BY <1>5, <1>8, <1>9, <1>10
<1>13. 2^(n + 1) = 2 * 2^n
  BY <1>3, <1>4, <1>11, <1>12, Zenon
<1>14. 2^n \in Nat
  BY <1>3, <1>8, Zenon
<1>. QED  BY <1>13, <1>14

(* Every power of two is a positive number, and larger than its exponent. *)
LEMMA PowerPositive ==
  ASSUME NEW n \in Nat
  PROVE  2^n \in Nat /\ n < 2^n
<1>. DEFINE P == {m \in Nat : 2^m \in Nat /\ m < 2^m}
<1>1. 0 \in P
  <2>1. 2^0 = 1
    OBVIOUS
  <2>. QED  BY <2>1
<1>2. ASSUME NEW m \in Nat, m \in P
      PROVE  m + 1 \in P
  <2>1. 2^(m + 1) = 2 * 2^m /\ 2^m \in Nat /\ m < 2^m
    BY <1>2, PowerStep
  <2>. QED  BY <2>1
<1>3. n \in P
  <2>. HIDE DEF P
  <2>. QED  BY <1>1, <1>2, SetInduction
<1>. QED  BY <1>3

(* Exponents add up. *)
LEMMA PowerSum ==
  ASSUME NEW m \in Nat, NEW n \in Nat
  PROVE  2^(m + n) = 2^m * 2^n
<1>. DEFINE P == {k \in Nat : 2^(m + k) = 2^m * 2^k}
<1>1. 0 \in P
  <2>1. 2^0 = 1 /\ 2^m \in Nat
    BY PowerStep
  <2>2. 2^(m + 0) = 2^m
    OBVIOUS
  <2>. QED  BY <2>1, <2>2
<1>2. ASSUME NEW k \in Nat, k \in P
      PROVE  k + 1 \in P
  <2>1. 2^(m + k) = 2^m * 2^k
    BY <1>2
  <2>2. 2^(k + 1) = 2 * 2^k /\ 2^k \in Nat /\ 2^m \in Nat
    BY PowerStep
  <2>3. 2^((m + k) + 1) = 2 * 2^(m + k)
    BY PowerStep
  <2>4. 2^(m + (k + 1)) = 2^((m + k) + 1)
    OBVIOUS
  <2>5. 2 * (2^m * 2^k) = 2^m * (2 * 2^k)
    BY <2>2
  <2>. QED  BY <2>1, <2>2, <2>3, <2>4, <2>5
<1>3. n \in P
  <2>. HIDE DEF P
  <2>. QED  BY <1>1, <1>2, SetInduction
<1>. QED  BY <1>3

(* A larger exponent at least doubles the power. *)
LEMMA PowerIncreasing ==
  ASSUME NEW m \in Nat, NEW n \in Nat, m < n
  PROVE  2 * 2^m <= 2^n
<1>1. 2^n = 2^(m + 1) * 2^(n - (m + 1))
  <2>1. n - (m + 1) \in Nat /\ n = (m + 1) + (n - (m + 1))
    OBVIOUS
  <2>. QED  BY <2>1, PowerSum
<1>2. 2^(n - (m + 1)) \in Nat /\ 2^(n - (m + 1)) >= 1
  BY PowerPositive
<1>3. 2^(m + 1) = 2 * 2^m /\ 2^m \in Nat
  BY PowerStep
<1>4. \A a, b \in Nat : b >= 1 => a <= a * b
  OBVIOUS
<1>. QED  BY <1>1, <1>2, <1>3, <1>4

-----------------------------------------------------------------------------
(* Shifts: index >> k is index \div 2^k. *)

(* Quotient and remainder are determined by their equation. *)
LEMMA DivUnique ==
  ASSUME NEW a \in Nat, NEW m \in Nat \ {0}, NEW q \in Nat, NEW r \in 0..(m - 1),
         a = m * q + r
  PROVE  a \div m = q
<1>1. a \div m \in Nat /\ a % m \in 0..(m - 1) /\ a = m * (a \div m) + (a % m)
  OBVIOUS
<1>2. \A x, y \in Nat : x < y => m * x + m <= m * y
  <2>. TAKE x \in Nat, y \in Nat
  <2>. HAVE x < y
  <2>1. y - x >= 1 /\ y - x \in Nat
    OBVIOUS
  <2>2. \A d \in Nat : d >= 1 => m * d >= m
    OBVIOUS
  <2>3. m * (y - x) >= m
    BY <2>1, <2>2
  <2>4. m * y = m * x + m * (y - x)
    OBVIOUS
  <2>. QED  BY <2>3, <2>4
<1>3. ~ (a \div m < q) /\ ~ (q < a \div m)
  BY <1>1, <1>2
<1>. QED  BY <1>1, <1>3

(* One shift more is one halving more. *)
LEMMA ShiftStep ==
  ASSUME NEW index \in Nat, NEW k \in Nat
  PROVE  /\ index \div 2^k \in Nat
         /\ index \div 2^(k + 1) = (index \div 2^k) \div 2
<1>. DEFINE m == 2^k
            q == index \div m
            r == index % m
<1>1. m \in Nat \ {0} /\ 2^(k + 1) = 2 * m
  BY PowerStep, PowerPositive
<1>. HIDE DEF m
<1>2. q \in Nat /\ r \in 0..(m - 1) /\ index = m * q + r
  BY <1>1
<1>. HIDE DEF q, r
<1>3. q = 2 * (q \div 2) + (q % 2) /\ q \div 2 \in Nat /\ q % 2 \in 0..1
  BY <1>2
<1>4. m * (q % 2) \in 0..m
  BY <1>1, <1>3
<1>5. m * (q % 2) + r \in 0..(2 * m - 1)
  BY <1>1, <1>2, <1>4
<1>6. m * q = (2 * m) * (q \div 2) + m * (q % 2)
  BY <1>1, <1>2, <1>3
<1>7. index = (2 * m) * (q \div 2) + (m * (q % 2) + r)
  BY <1>1, <1>2, <1>3, <1>4, <1>6
<1>8. index \div (2 * m) = q \div 2
  <2>. DEFINE v == 2 * m
              h == q \div 2
              s == m * (q % 2) + r
  <2>1. v \in Nat \ {0} /\ h \in Nat
    BY <1>1, <1>3
  <2>2. s \in 0..(v - 1) /\ index = v * h + s
    BY <1>5, <1>7, Zenon
  <2>. HIDE DEF v, h, s
  <2>3. index \div v = h
    BY <2>1, <2>2, DivUnique, Zenon
  <2>. QED  BY <2>3, Zenon DEF v, h
<1>. QED  BY <1>1, <1>2, <1>8 DEF q, m

(* No shift leaves an index as it is. *)
LEMMA ShiftZero ==
  ASSUME NEW index \in Nat
  PROVE  index \div 2^0 = index
OBVIOUS

(* Every bit is 0 or 1. *)
LEMMA BitType ==
  ASSUME NEW index \in Nat, NEW k \in Nat
  PROVE  IthBit(index, k) \in 0..1
BY ShiftStep DEF IthBit

(* An index below the capacity, shifted, is below the capacity of the level. *)
LEMMA ShiftBound ==
  ASSUME NEW d \in Nat, NEW k \in 0..d, NEW index \in 0..(2^d - 1)
  PROVE  index \div 2^k \in 0..(2^(d - k) - 1)
<1>. DEFINE m == 2^k
            n == 2^(d - k)
            q == index \div m
<1>1. m \in Nat \ {0} /\ n \in Nat /\ 2^d \in Nat
  BY PowerPositive
<1>2. 2^d = m * n
  <2>1. d - k \in Nat /\ k + (d - k) = d
    OBVIOUS
  <2>. QED  BY <2>1, PowerSum
<1>. HIDE DEF m, n
<1>3. q \in Nat /\ m * q <= index
  BY <1>1
<1>. HIDE DEF q
<1>4. ASSUME n <= q
      PROVE  FALSE
  <2>1. q - n \in Nat /\ q = n + (q - n)
    BY <1>1, <1>3, <1>4
  <2>2. m * q = m * n + m * (q - n) /\ m * (q - n) >= 0
    BY <1>1, <1>3, <2>1
  <2>. QED  BY <1>1, <1>2, <1>3, <2>2
<1>5. q \in 0..(n - 1)
  BY <1>1, <1>3, <1>4
<1>. QED  BY <1>5 DEF q, m, n

(* A generalized index: a multiple of the capacity of a tree, above the index
   of a leaf in it. *)
Gindex(c, depth, index) == c * 2^depth + index

(* A generalized index is one number. *)
LEMMA GindexType ==
  ASSUME NEW c \in Nat, NEW depth \in Nat, NEW index \in Nat
  PROVE  Gindex(c, depth, index) \in Nat
<1>1. 2^depth \in Nat
  BY PowerStep
<1>. QED  BY <1>1 DEF Gindex

(* The multiple and the index are shifted apart. *)
LEMMA ShiftedSum ==
  ASSUME NEW c \in Nat, NEW d \in Nat, NEW k \in 0..d, NEW index \in Nat
  PROVE  Gindex(c, d, index) \div 2^k = Gindex(c, d - k, index \div 2^k)
<1>. DEFINE m == 2^k
            n == 2^(d - k)
            q == index \div m
            r == index % m
<1>1. m \in Nat \ {0} /\ n \in Nat
  BY PowerPositive
<1>2. 2^d = m * n
  <2>1. d - k \in Nat /\ k + (d - k) = d
    OBVIOUS
  <2>. QED  BY <2>1, PowerSum
<1>. HIDE DEF m, n
<1>3. q \in Nat /\ r \in 0..(m - 1) /\ index = m * q + r
  BY <1>1
<1>. HIDE DEF q, r
<1>4. c * n \in Nat /\ c * n + q \in Nat
  BY <1>1, <1>3
<1>5. c * (m * n) = m * (c * n)
  BY <1>1
<1>6. m * (c * n + q) = m * (c * n) + m * q
  BY <1>1, <1>3, <1>4
<1>7. c * (m * n) + index = m * (c * n + q) + r
  BY <1>1, <1>3, <1>4, <1>5, <1>6
<1>8. c * (m * n) + index \in Nat
  BY <1>1, <1>3, <1>4, <1>5
<1>9. (c * (m * n) + index) \div m = c * n + q
  BY <1>1, <1>3, <1>4, <1>7, <1>8, DivUnique
<1>. QED  BY <1>2, <1>9, Zenon DEF q, m, n, Gindex

(* The bits below the capacity are those of the index. *)
LEMMA BitOfSum ==
  ASSUME NEW c \in Nat, NEW d \in Nat, NEW k \in 0..(d - 1), NEW index \in Nat
  PROVE  IthBit(Gindex(c, d, index), k) = IthBit(index, k)
<1>. DEFINE e == d - k - 1
            x == c * 2^e
            y == index \div 2^k
<1>1. k \in 0..d /\ e \in Nat /\ d - k = e + 1
  OBVIOUS
<1>2. Gindex(c, d, index) \div 2^k = c * 2^(d - k) + y
  <2>1. Gindex(c, d, index) \div 2^k = Gindex(c, d - k, y)
    <3>1. \A i \in Nat : \A j \in 0..d :
            Gindex(c, d, i) \div 2^j = Gindex(c, d - j, i \div 2^j)
      BY ShiftedSum
    <3>. QED  BY <1>1, <3>1, Zenon
  <2>. QED  BY <2>1, Zenon DEF Gindex
<1>3. y \in Nat
  BY ShiftStep
<1>. HIDE DEF e, y
<1>4. 2^(e + 1) = 2 * 2^e /\ 2^e \in Nat
  BY <1>1, PowerStep
<1>5. c * (2 * 2^e) = 2 * x /\ x \in Nat
  BY <1>4
<1>. HIDE DEF x
<1>6. (2 * x + y) % 2 = y % 2
  BY <1>3, <1>5
<1>7. Gindex(c, d, index) \div 2^k = 2 * x + y
  BY <1>1, <1>2, <1>4, <1>5
<1>. QED  BY <1>6, <1>7, Zenon DEF IthBit, y

-----------------------------------------------------------------------------
(* The recursive functions are what their equations say.  A function defined
   by recursion is a CHOOSE, so that one satisfying the equation must be shown
   to exist, by induction over its domain. *)

(* ZERO_HASHES: each is the hash of two of the one before. *)
LEMMA ZeroHashUnfolds ==
  /\ ZeroHash[0] = ZeroLeaf
  /\ \A d \in Nat : ZeroHash[d + 1] = Hash(ZeroHash[d], ZeroHash[d])
<1>. DEFINE IsTable(z, n) ==
              z = [d \in 0..n |-> IF d = 0 THEN ZeroLeaf ELSE Hash(z[d - 1], z[d - 1])]
            Tables == {n \in Nat : \E z : IsTable(z, n)}
            Table(n) == CHOOSE z : IsTable(z, n)
            zero == [d \in Nat |-> Table(d)[d]]
<1>1. 0 \in Tables
  <2>1. IsTable([d \in 0..0 |-> ZeroLeaf], 0)
    OBVIOUS
  <2>. QED  BY <2>1
<1>2. ASSUME NEW n \in Nat, n \in Tables
      PROVE  n + 1 \in Tables
  <2>1. PICK z : IsTable(z, n)
    BY <1>2
  <2>. DEFINE longer == [d \in 0..(n + 1) |-> IF d <= n THEN z[d] ELSE Hash(z[n], z[n])]
  <2>2. ASSUME NEW d \in 0..(n + 1)
        PROVE  longer[d] = IF d = 0 THEN ZeroLeaf ELSE Hash(longer[d - 1], longer[d - 1])
    <3>1. CASE d <= n
      <4>1. z[d] = IF d = 0 THEN ZeroLeaf ELSE Hash(z[d - 1], z[d - 1])
        BY <2>1, <3>1
      <4>. QED  BY <3>1, <4>1
    <3>2. CASE d = n + 1
      BY <3>2
    <3>. QED  BY <3>1, <3>2
  <2>3. IsTable(longer, n + 1)
    BY <2>2
  <2>4. \E y : IsTable(y, n + 1)
    <3>. HIDE DEF longer, IsTable
    <3>. QED  BY <2>3
  <2>. QED  BY <2>4
<1>3. \A n \in Nat : n \in Tables
  <2>. HIDE DEF Tables
  <2>. QED  BY <1>1, <1>2, SetInduction
<1>4. \A n \in Nat : IsTable(Table(n), n)
  BY <1>3
<1>5. ASSUME NEW m \in Nat, NEW n \in Nat, m <= n
      PROVE  \A d \in 0..m : Table(m)[d] = Table(n)[d]
  <2>. DEFINE Same == {d \in Nat : d <= m => Table(m)[d] = Table(n)[d]}
  <2>1. IsTable(Table(m), m) /\ IsTable(Table(n), n)
    BY <1>4
  <2>. HIDE DEF Table
  <2>2. 0 \in Same
    BY <2>1, <1>5
  <2>3. ASSUME NEW d \in Nat, d \in Same
        PROVE  d + 1 \in Same
    <3>. SUFFICES ASSUME d + 1 <= m
                  PROVE  Table(m)[d + 1] = Table(n)[d + 1]
      OBVIOUS
    <3>1. Table(m)[d] = Table(n)[d]
      BY <2>3
    <3>2. Table(m)[d + 1] = Hash(Table(m)[d], Table(m)[d])
      BY <2>1
    <3>3. Table(n)[d + 1] = Hash(Table(n)[d], Table(n)[d])
      BY <2>1, <1>5
    <3>. QED  BY <3>1, <3>2, <3>3
  <2>4. \A d \in Nat : d \in Same
    <3>. HIDE DEF Same
    <3>. QED  BY <2>2, <2>3, SetInduction
  <2>. QED  BY <2>4
<1>6. ASSUME NEW d \in Nat
      PROVE  zero[d] = IF d = 0 THEN ZeroLeaf ELSE Hash(zero[d - 1], zero[d - 1])
  <2>1. IsTable(Table(d), d)
    BY <1>4
  <2>. HIDE DEF Table
  <2>2. Table(d)[d] = IF d = 0 THEN ZeroLeaf ELSE Hash(Table(d)[d - 1], Table(d)[d - 1])
    BY <2>1
  <2>3. d # 0 => Table(d - 1)[d - 1] = Table(d)[d - 1]
    BY <1>5
  <2>. QED  BY <2>2, <2>3
<1>7. zero = [d \in Nat |-> IF d = 0 THEN ZeroLeaf ELSE Hash(zero[d - 1], zero[d - 1])]
  <2>. HIDE DEF Table
  <2>1. zero = [d \in Nat |-> zero[d]]
    OBVIOUS
  <2>. HIDE DEF zero
  <2>. QED  BY <1>6, <2>1
<1>8. ZeroHash = [d \in Nat |-> IF d = 0 THEN ZeroLeaf
                               ELSE Hash(ZeroHash[d - 1], ZeroHash[d - 1])]
  <2>. HIDE DEF zero
  <2>. QED  BY <1>7, Zenon DEF ZeroHash
<1>9. ASSUME NEW d \in Nat
      PROVE  ZeroHash[d + 1] = Hash(ZeroHash[d], ZeroHash[d])
  BY <1>8
<1>. QED  BY <1>8, <1>9

(* The levels of a tree: the padded leaves, and each of the others the pairs
   of the one below. *)
LEMMA LevelsUnfold ==
  ASSUME NEW leaves, NEW depth \in Nat
  PROVE  /\ Levels(leaves, depth)[0] = Pad(leaves, depth)
         /\ \A k \in 0..(depth - 1) :
              Levels(leaves, depth)[k + 1] = PairUp(Levels(leaves, depth)[k])
<1>. DEFINE IsLevels(l, n) ==
              l = [k \in 0..n |-> IF k = 0 THEN Pad(leaves, depth) ELSE PairUp(l[k - 1])]
            Built == {n \in Nat : \E l : IsLevels(l, n)}
<1>1. 0 \in Built
  <2>1. IsLevels([k \in 0..0 |-> Pad(leaves, depth)], 0)
    OBVIOUS
  <2>. QED  BY <2>1
<1>2. ASSUME NEW n \in Nat, n \in Built
      PROVE  n + 1 \in Built
  <2>1. PICK l : IsLevels(l, n)
    BY <1>2
  <2>. DEFINE longer == [k \in 0..(n + 1) |-> IF k <= n THEN l[k] ELSE PairUp(l[n])]
  <2>2. ASSUME NEW k \in 0..(n + 1)
        PROVE  longer[k] = IF k = 0 THEN Pad(leaves, depth) ELSE PairUp(longer[k - 1])
    <3>1. CASE k <= n
      <4>1. l[k] = IF k = 0 THEN Pad(leaves, depth) ELSE PairUp(l[k - 1])
        BY <2>1, <3>1
      <4>. QED  BY <3>1, <4>1
    <3>2. CASE k = n + 1
      BY <3>2
    <3>. QED  BY <3>1, <3>2
  <2>3. IsLevels(longer, n + 1)
    BY <2>2
  <2>4. \E y : IsLevels(y, n + 1)
    <3>. HIDE DEF longer, IsLevels
    <3>. QED  BY <2>3
  <2>. QED  BY <2>4
<1>3. depth \in Built
  <2>. HIDE DEF Built
  <2>. QED  BY <1>1, <1>2, SetInduction
<1>4. IsLevels(Levels(leaves, depth), depth)
  BY <1>3, Zenon DEF Levels
<1>5. ASSUME NEW k \in 0..(depth - 1)
      PROVE  Levels(leaves, depth)[k + 1] = PairUp(Levels(leaves, depth)[k])
  BY <1>4
<1>. QED  BY <1>4, <1>5

(* The root a branch leads to: the leaf, hashed with one sibling after the
   other, on the side that the index says. *)
LEMMA MerkleRootUnfolds ==
  ASSUME NEW leaf, NEW branch, NEW index, Len(branch) \in Nat
  PROVE  \E root :
           /\ root[0] = leaf
           /\ \A i \in 1..Len(branch) :
                root[i] = IF IthBit(index, i - 1) = 1 THEN Hash(branch[i], root[i - 1])
                          ELSE Hash(root[i - 1], branch[i])
           /\ MerkleRootFromBranch(leaf, branch, index) = root[Len(branch)]
<1>. DEFINE Up(r, i) == IF IthBit(index, i - 1) = 1 THEN Hash(branch[i], r)
                        ELSE Hash(r, branch[i])
            IsClimb(r, n) == r = [i \in 0..n |-> IF i = 0 THEN leaf ELSE Up(r[i - 1], i)]
            Climbed == {n \in Nat : \E r : IsClimb(r, n)}
            climb == CHOOSE r : IsClimb(r, Len(branch))
<1>1. 0 \in Climbed
  <2>1. IsClimb([i \in 0..0 |-> leaf], 0)
    OBVIOUS
  <2>. QED  BY <2>1
<1>2. ASSUME NEW n \in Nat, n \in Climbed
      PROVE  n + 1 \in Climbed
  <2>1. PICK r : IsClimb(r, n)
    BY <1>2
  <2>. HIDE DEF Up
  <2>. DEFINE longer == [i \in 0..(n + 1) |-> IF i <= n THEN r[i] ELSE Up(r[n], n + 1)]
  <2>2. ASSUME NEW i \in 0..(n + 1)
        PROVE  longer[i] = IF i = 0 THEN leaf ELSE Up(longer[i - 1], i)
    <3>1. CASE i <= n
      <4>1. r[i] = IF i = 0 THEN leaf ELSE Up(r[i - 1], i)
        BY <2>1, <3>1
      <4>. QED  BY <3>1, <4>1
    <3>2. CASE i = n + 1
      BY <3>2
    <3>. QED  BY <3>1, <3>2
  <2>3. IsClimb(longer, n + 1)
    BY <2>2
  <2>4. \E y : IsClimb(y, n + 1)
    <3>. HIDE DEF longer, IsClimb
    <3>. QED  BY <2>3
  <2>. QED  BY <2>4
<1>3. Len(branch) \in Climbed
  <2>. HIDE DEF Climbed
  <2>. QED  BY <1>1, <1>2, SetInduction
<1>4. IsClimb(climb, Len(branch))
  <2>. HIDE DEF IsClimb
  <2>. QED  BY <1>3
<1>5. MerkleRootFromBranch(leaf, branch, index) = climb[Len(branch)]
  BY Zenon DEF MerkleRootFromBranch
<1>. HIDE DEF climb
<1>6. climb[0] = leaf
  BY <1>4
<1>7. ASSUME NEW i \in 1..Len(branch)
      PROVE  climb[i] = Up(climb[i - 1], i)
  <2>. HIDE DEF Up
  <2>. QED  BY <1>4
<1>. QED  BY <1>5, <1>6, <1>7, Zenon

-----------------------------------------------------------------------------
(* A level has half as many nodes as the one below, and ends in one root. *)

(* A function on 1..n is a sequence of length n, of whatever its values are. *)
LEMMA IsSequence ==
  ASSUME NEW n \in Nat, NEW f, f = [i \in 1..n |-> f[i]]
  PROVE  Len(f) = n /\ \E S : f \in Seq(S)
<1>. DEFINE S == {f[i] : i \in 1..n}
<1>1. f \in [1..n -> S]
  <2>1. \A i \in 1..n : f[i] \in S
    OBVIOUS
  <2>. HIDE DEF S
  <2>. QED  BY <2>1
<1>2. f \in Seq(S)
  <2>. HIDE DEF S
  <2>. QED  BY <1>1, SeqDef
<1>3. Len(f) \in Nat /\ DOMAIN f = 1..Len(f)
  <2>. HIDE DEF S
  <2>. QED  BY <1>2, LenProperties
<1>4. DOMAIN f = 1..n
  <2>. HIDE DEF S
  <2>. QED  BY <1>1
<1>5. Len(f) = n
  BY <1>3, <1>4
<1>. QED  BY <1>2, <1>5

(* Every level is as wide as its height allows. *)
LEMMA LevelWidth ==
  ASSUME NEW leaves, NEW depth \in Nat, NEW k \in 0..depth
  PROVE  LET level == Levels(leaves, depth)[k]
         IN  /\ level = [j \in 1..2^(depth - k) |-> level[j]]
             /\ Len(level) = 2^(depth - k)
<1>. DEFINE level(i) == Levels(leaves, depth)[i]
            Wide(i) == level(i) = [j \in 1..2^(depth - i) |-> level(i)[j]]
            P == {i \in Nat : i <= depth => Wide(i)}
<1>1. 0 \in P
  <2>1. level(0) = Pad(leaves, depth) /\ depth - 0 = depth
    BY LevelsUnfold
  <2>2. Wide(0)
    BY <2>1 DEF Pad
  <2>. QED  BY <2>2
<1>2. ASSUME NEW i \in Nat, i \in P
      PROVE  i + 1 \in P
  <2>. SUFFICES ASSUME i + 1 <= depth
                PROVE  Wide(i + 1)
    OBVIOUS
  <2>. DEFINE e == depth - (i + 1)
  <2>1. e \in Nat /\ depth - i = e + 1 /\ i \in 0..(depth - 1)
    OBVIOUS
  <2>2. 2^(e + 1) = 2 * 2^e /\ 2^e \in Nat
    BY <2>1, PowerStep
  <2>3. Wide(i)
    BY <1>2
  <2>4. Len(level(i)) = 2 * 2^e
    <3>1. level(i) = [j \in 1..(2 * 2^e) |-> level(i)[j]] /\ 2 * 2^e \in Nat
      BY <2>1, <2>2, <2>3
    <3>. HIDE DEF level
    <3>. QED  BY <3>1, IsSequence
  <2>5. level(i + 1) = PairUp(level(i))
    BY <2>1, LevelsUnfold
  <2>6. Len(level(i)) \div 2 = 2^e
    BY <2>2, <2>4
  <2>. HIDE DEF level, e
  <2>7. level(i + 1) = [j \in 1..2^e |-> level(i + 1)[j]]
    BY <2>5, <2>6 DEF PairUp
  <2>. QED  BY <2>7 DEF e
<1>3. k \in P
  <2>. HIDE DEF P
  <2>. QED  BY <1>1, <1>2, SetInduction
<1>4. depth - k \in Nat /\ 2^(depth - k) \in Nat
  BY PowerPositive
<1>5. Wide(k)
  BY <1>3
<1>6. Len(level(k)) = 2^(depth - k)
  <2>. HIDE DEF level
  <2>. QED  BY <1>4, <1>5, IsSequence
<1>. QED  BY <1>5, <1>6

(* A node above the leaves is the hash of its two children. *)
LEMMA ParentNode ==
  ASSUME NEW leaves, NEW depth \in Nat, NEW k \in 0..(depth - 1),
         NEW j \in 1..2^(depth - (k + 1))
  PROVE  Levels(leaves, depth)[k + 1][j]
           = Hash(Levels(leaves, depth)[k][2 * j - 1], Levels(leaves, depth)[k][2 * j])
<1>. DEFINE e == depth - (k + 1)
            level == Levels(leaves, depth)[k]
<1>1. e \in Nat /\ depth - k = e + 1 /\ k \in 0..depth
  OBVIOUS
<1>2. 2^(e + 1) = 2 * 2^e /\ 2^e \in Nat
  BY <1>1, PowerStep
<1>3. Len(level) = 2^(depth - k)
  BY <1>1, LevelWidth
<1>4. Levels(leaves, depth)[k + 1] = PairUp(level)
  BY LevelsUnfold
<1>. HIDE DEF level
<1>5. Len(level) \div 2 = 2^e
  BY <1>1, <1>2, <1>3
<1>6. PairUp(level)[j] = Hash(level[2 * j - 1], level[2 * j])
  BY <1>5 DEF PairUp
<1>. QED  BY <1>4, <1>6, Zenon DEF level

(* On the way up from an index, a node and its sibling hash to their parent,
   in the order that the bit of the index says. *)
LEMMA ParentOnTheWay ==
  ASSUME NEW leaves, NEW depth \in Nat, NEW k \in 0..(depth - 1),
         NEW index \in 0..(2^depth - 1)
  PROVE  LET level   == Levels(leaves, depth)[k]
             node    == level[1 + (index \div 2^k)]
             sibling == level[1 + Sibling(index \div 2^k)]
         IN  Levels(leaves, depth)[k + 1][1 + (index \div 2^(k + 1))]
               = IF IthBit(index, k) = 1 THEN Hash(sibling, node) ELSE Hash(node, sibling)
<1>. DEFINE p == index \div 2^k
            q == index \div 2^(k + 1)
            level == Levels(leaves, depth)[k]
<1>1. 2^depth \in Nat /\ index \in Nat /\ k \in Nat /\ k + 1 \in 0..depth
  BY PowerPositive
<1>2. p \in Nat /\ q = p \div 2
  BY <1>1, ShiftStep
<1>3. q \in 0..(2^(depth - (k + 1)) - 1) /\ 2^(depth - (k + 1)) \in Nat
  <2>1. depth - (k + 1) \in Nat
    OBVIOUS
  <2>2. 2^(depth - (k + 1)) \in Nat
    BY <2>1, PowerPositive
  <2>3. q \in 0..(2^(depth - (k + 1)) - 1)
    BY <1>1, ShiftBound
  <2>. QED  BY <2>2, <2>3
<1>4. 1 + q \in 1..2^(depth - (k + 1))
  BY <1>3
<1>5. Levels(leaves, depth)[k + 1][1 + q]
        = Hash(level[2 * (1 + q) - 1], level[2 * (1 + q)])
  BY <1>4, ParentNode
<1>6. IthBit(index, k) = p % 2
  BY DEF IthBit
<1>. HIDE DEF p, q, level
<1>7. CASE p % 2 = 1
  <2>1. 2 * (1 + q) - 1 = 1 + Sibling(p) /\ 2 * (1 + q) = 1 + p
    BY <1>2, <1>7 DEF Sibling
  <2>2. Levels(leaves, depth)[k + 1][1 + q] = Hash(level[1 + Sibling(p)], level[1 + p])
    BY <1>5, <2>1, Zenon
  <2>. QED  BY <1>6, <1>7, <2>2 DEF p, q, level
<1>8. CASE p % 2 = 0
  <2>1. 2 * (1 + q) - 1 = 1 + p /\ 2 * (1 + q) = 1 + Sibling(p)
    BY <1>2, <1>8 DEF Sibling
  <2>2. Levels(leaves, depth)[k + 1][1 + q] = Hash(level[1 + p], level[1 + Sibling(p)])
    BY <1>5, <2>1, Zenon
  <2>. QED  BY <1>6, <1>8, <2>2 DEF p, q, level
<1>. QED  BY <1>2, <1>7, <1>8

-----------------------------------------------------------------------------
(* A part of a climb, `from` rounds after its start: `depth` rounds that turn
   as the bits of the index say. *)
Climbs(root, branch, index, depth, from) ==
  \A k \in 0..(depth - 1) :
    root[from + k + 1] = IF IthBit(index, k) = 1
                         THEN Hash(branch[from + k + 1], root[from + k])
                         ELSE Hash(root[from + k], branch[from + k + 1])

(* That part of the branch holds the siblings of the way up from the index. *)
HoldsSiblings(branch, leaves, index, depth, from) ==
  \A k \in 0..(depth - 1) :
    branch[from + k + 1] = Levels(leaves, depth)[k][1 + Sibling(index \div 2^k)]

(* Two hashes are equal only if both of their inputs are: hash32_concat has no
   collisions. *)
LEMMA HashInjective ==
  ASSUME NEW a, NEW b, NEW c, NEW d, Hash(a, b) = Hash(c, d)
  PROVE  a = c /\ b = d
BY DEF Hash

(* The leaf below an index, padded like the tree. *)
LeafBelow(leaves, index) == IF index + 1 <= Len(leaves) THEN leaves[index + 1] ELSE ZeroLeaf

(* The lowest level is the leaves, and the highest is the root alone. *)
LEMMA FirstAndLastLevel ==
  ASSUME NEW leaves, NEW depth \in Nat, NEW index \in 0..(2^depth - 1)
  PROVE  /\ Levels(leaves, depth)[0][1 + (index \div 2^0)] = LeafBelow(leaves, index)
         /\ Levels(leaves, depth)[depth][1 + (index \div 2^depth)] = TreeHashRoot(leaves, depth)
<1>1. 2^depth \in Nat /\ index \in Nat
  BY PowerPositive
<1>2. index \div 2^0 = index /\ 1 + index \in 1..2^depth /\ 1 + index = index + 1
  BY <1>1, ShiftZero
<1>3. Levels(leaves, depth)[0][1 + index] = LeafBelow(leaves, index)
  <2>1. Levels(leaves, depth)[0] = Pad(leaves, depth)
    BY LevelsUnfold
  <2>2. Pad(leaves, depth)[1 + index] = LeafBelow(leaves, index)
    BY <1>2 DEF Pad, LeafBelow
  <2>. QED  BY <2>1, <2>2, Zenon
<1>4. 1 + (index \div 2^depth) = 1
  <2>1. index \div 2^depth \in 0..(2^(depth - depth) - 1)
    BY ShiftBound
  <2>2. depth - depth = 0 /\ 2^0 = 1
    OBVIOUS
  <2>. QED  BY <2>1, <2>2
<1>. QED  BY <1>2, <1>3, <1>4, Zenon DEF TreeHashRoot

(* The siblings on the way up from a leaf lead to the root. *)
LEMMA SiblingsLeadToTheRoot ==
  ASSUME NEW leaves, NEW depth \in Nat, NEW index \in 0..(2^depth - 1),
         NEW root, NEW branch, NEW from \in Nat,
         Climbs(root, branch, index, depth, from),
         HoldsSiblings(branch, leaves, index, depth, from),
         root[from] = LeafBelow(leaves, index)
  PROVE  root[from + depth] = TreeHashRoot(leaves, depth)
<1>. DEFINE node(k) == Levels(leaves, depth)[k][1 + (index \div 2^k)]
            P == {k \in Nat : k <= depth => root[from + k] = node(k)}
<1>1. 0 \in P
  <2>1. node(0) = LeafBelow(leaves, index)
    BY FirstAndLastLevel
  <2>. HIDE DEF node
  <2>. QED  BY <2>1
<1>2. ASSUME NEW k \in Nat, k \in P
      PROVE  k + 1 \in P
  <2>. SUFFICES ASSUME k + 1 <= depth
                PROVE  root[from + (k + 1)] = node(k + 1)
    OBVIOUS
  <2>. DEFINE sibling == Levels(leaves, depth)[k][1 + Sibling(index \div 2^k)]
  <2>1. k \in 0..(depth - 1)
    OBVIOUS
  <2>2. node(k + 1) = IF IthBit(index, k) = 1 THEN Hash(sibling, node(k))
                      ELSE Hash(node(k), sibling)
    BY <2>1, ParentOnTheWay
  <2>3. branch[from + k + 1] = sibling
    BY <2>1 DEF HoldsSiblings
  <2>. HIDE DEF node, sibling
  <2>4. root[from + k] = node(k)
    BY <1>2
  <2>5. root[from + k + 1] = IF IthBit(index, k) = 1
                             THEN Hash(branch[from + k + 1], root[from + k])
                             ELSE Hash(root[from + k], branch[from + k + 1])
    BY <2>1 DEF Climbs
  <2>6. root[from + k + 1] = node(k + 1)
    BY <2>2, <2>3, <2>4, <2>5, Zenon
  <2>. QED  BY <2>6
<1>3. depth \in P
  <2>. HIDE DEF P
  <2>. QED  BY <1>1, <1>2, SetInduction
<1>4. node(depth) = TreeHashRoot(leaves, depth)
  BY FirstAndLastLevel
<1>. HIDE DEF node
<1>. QED  BY <1>3, <1>4

(* Nothing else does: a climb that ends in the root of the tree started at the
   leaf below the index, and met its siblings. *)
LEMMA OnlySiblingsLeadToTheRoot ==
  ASSUME NEW leaves, NEW depth \in Nat, NEW index \in 0..(2^depth - 1),
         NEW root, NEW branch, NEW from \in Nat,
         Climbs(root, branch, index, depth, from),
         root[from + depth] = TreeHashRoot(leaves, depth)
  PROVE  /\ root[from] = LeafBelow(leaves, index)
         /\ HoldsSiblings(branch, leaves, index, depth, from)
<1>. DEFINE node(k) == Levels(leaves, depth)[k][1 + (index \div 2^k)]
            sibling(k) == Levels(leaves, depth)[k][1 + Sibling(index \div 2^k)]
            P == {n \in Nat : n <= depth => root[from + (depth - n)] = node(depth - n)}
<1>1. ASSUME NEW k \in 0..(depth - 1), root[from + k + 1] = node(k + 1)
      PROVE  root[from + k] = node(k) /\ branch[from + k + 1] = sibling(k)
  <2>1. node(k + 1) = IF IthBit(index, k) = 1 THEN Hash(sibling(k), node(k))
                      ELSE Hash(node(k), sibling(k))
    BY ParentOnTheWay
  <2>. HIDE DEF node, sibling
  <2>2. root[from + k + 1] = IF IthBit(index, k) = 1
                             THEN Hash(branch[from + k + 1], root[from + k])
                             ELSE Hash(root[from + k], branch[from + k + 1])
    BY DEF Climbs
  <2>3. CASE IthBit(index, k) = 1
    <3>1. Hash(branch[from + k + 1], root[from + k]) = Hash(sibling(k), node(k))
      BY <1>1, <2>1, <2>2, <2>3, Zenon
    <3>. QED  BY <3>1, HashInjective
  <2>4. CASE IthBit(index, k) # 1
    <3>1. Hash(root[from + k], branch[from + k + 1]) = Hash(node(k), sibling(k))
      BY <1>1, <2>1, <2>2, <2>4, Zenon
    <3>. QED  BY <3>1, HashInjective
  <2>. QED  BY <2>3, <2>4
<1>2. 0 \in P
  <2>1. node(depth) = TreeHashRoot(leaves, depth)
    BY FirstAndLastLevel
  <2>. HIDE DEF node
  <2>. QED  BY <2>1
<1>3. ASSUME NEW n \in Nat, n \in P
      PROVE  n + 1 \in P
  <2>. SUFFICES ASSUME n + 1 <= depth
                PROVE  root[from + (depth - (n + 1))] = node(depth - (n + 1))
    OBVIOUS
  <2>. DEFINE k == depth - (n + 1)
  <2>1. k \in 0..(depth - 1) /\ depth - n = k + 1
    OBVIOUS
  <2>2. root[from + (k + 1)] = node(k + 1)
    <3>. HIDE DEF node
    <3>. QED  BY <1>3, <2>1
  <2>. HIDE DEF node, k
  <2>3. from + (k + 1) = from + k + 1
    BY <2>1
  <2>4. root[from + k] = node(k)
    BY <1>1, <2>1, <2>2, <2>3
  <2>. QED  BY <2>4 DEF k
<1>. HIDE DEF node, sibling
<1>4. ASSUME NEW k \in 0..depth
      PROVE  root[from + k] = node(k)
  <2>1. depth - k \in Nat /\ depth - (depth - k) = k /\ depth - k <= depth
    OBVIOUS
  <2>2. depth - k \in P
    <3>. HIDE DEF P
    <3>. QED  BY <1>2, <1>3, <2>1, SetInduction
  <2>. QED  BY <2>1, <2>2
<1>5. root[from] = LeafBelow(leaves, index)
  <2>1. node(0) = LeafBelow(leaves, index)
    BY FirstAndLastLevel DEF node
  <2>2. root[from + 0] = node(0) /\ from + 0 = from
    BY <1>4
  <2>. QED  BY <2>1, <2>2
<1>6. ASSUME NEW k \in 0..(depth - 1)
      PROVE  branch[from + k + 1] = sibling(k)
  <2>1. k + 1 \in 0..depth /\ from + (k + 1) = from + k + 1
    OBVIOUS
  <2>2. root[from + k + 1] = node(k + 1)
    BY <1>4, <2>1
  <2>. QED  BY <1>1, <2>2
<1>. QED  BY <1>5, <1>6 DEF HoldsSiblings, sibling

-----------------------------------------------------------------------------
(* Branches as sequences: their lengths, and what a concatenation holds. *)

IsBranch(branch, n) == branch = [i \in 1..n |-> branch[i]]

(* Two branches, one after the other. *)
Joins(branch, p, m, q, n) ==
  /\ IsBranch(branch, m + n)
  /\ Len(branch) = m + n
  /\ \A i \in 1..m : branch[i] = p[i]
  /\ \A i \in 1..n : branch[m + i] = q[i]

(* Their concatenation is that. *)
LEMMA ConcatBranches ==
  ASSUME NEW m \in Nat, NEW n \in Nat, NEW p, NEW q, IsBranch(p, m), IsBranch(q, n)
  PROVE  Joins(p \o q, p, m, q, n)
<1>1. PICK S : p \in Seq(S)
  BY IsSequence DEF IsBranch
<1>2. PICK T : q \in Seq(T)
  BY IsSequence DEF IsBranch
<1>3. Len(p) = m /\ Len(q) = n
  BY IsSequence DEF IsBranch
<1>4. p \in Seq(S \cup T) /\ q \in Seq(S \cup T)
  <2>1. S \subseteq S \cup T /\ T \subseteq S \cup T
    OBVIOUS
  <2>. QED  BY <1>1, <1>2, <2>1, SeqMonotonic
<1>5. /\ p \o q \in Seq(S \cup T)
      /\ Len(p \o q) = m + n
      /\ \A i \in 1..(m + n) : (p \o q)[i] = IF i <= m THEN p[i] ELSE q[i - m]
  BY <1>3, <1>4, ConcatProperties
<1>6. p \o q \in [1..(m + n) -> S \cup T]
  BY <1>5, LenProperties
<1>7. IsBranch(p \o q, m + n)
  BY <1>6 DEF IsBranch
<1>8. ASSUME NEW i \in 1..n
      PROVE  (p \o q)[m + i] = q[i]
  <2>1. m + i \in 1..(m + n) /\ ~ (m + i <= m) /\ (m + i) - m = i
    OBVIOUS
  <2>. QED  BY <1>5, <2>1
<1>. QED  BY <1>5, <1>7, <1>8 DEF Joins

(* A branch and one node more. *)
LEMMA AppendToBranch ==
  ASSUME NEW m \in Nat, NEW n \in Nat, n = m + 1, NEW p, NEW x, IsBranch(p, m)
  PROVE  /\ IsBranch(Append(p, x), n)
         /\ Len(Append(p, x)) = n
         /\ \A i \in 1..m : Append(p, x)[i] = p[i]
         /\ Append(p, x)[n] = x
<1>1. PICK S : p \in Seq(S)
  BY IsSequence DEF IsBranch
<1>2. Len(p) = m
  BY IsSequence DEF IsBranch
<1>3. p \in Seq(S \cup {x}) /\ x \in S \cup {x}
  <2>1. S \subseteq S \cup {x}
    OBVIOUS
  <2>. QED  BY <1>1, <2>1, SeqMonotonic
<1>4. /\ Append(p, x) \in Seq(S \cup {x})
      /\ Len(Append(p, x)) = n
      /\ \A i \in 1..m : Append(p, x)[i] = p[i]
      /\ Append(p, x)[n] = x
  BY <1>2, <1>3, AppendProperties
<1>5. Append(p, x) \in [1..n -> S \cup {x}]
  BY <1>4, LenProperties
<1>. QED  BY <1>4, <1>5 DEF IsBranch

(* One node alone is a branch. *)
LEMMA SingleBranch ==
  ASSUME NEW x
  PROVE  IsBranch(<<x>>, 1) /\ <<x>>[1] = x
BY DEF IsBranch

-----------------------------------------------------------------------------
(* build_merkle_proof_for_index *)

(* next_power_of_two: a depth whose tree is large enough, and half of it not,
   is the one. *)
LEMMA DepthForIs ==
  ASSUME NEW n \in Nat, NEW depth \in 0..n, 2^depth >= n,
         depth = 0 \/ 2^(depth - 1) < n
  PROVE  DepthFor(n) = depth
<1>. DEFINE Fits(d) == 2^d >= n /\ (d = 0 \/ 2^(d - 1) < n)
<1>1. ASSUME NEW d \in Nat, NEW e \in Nat, d < e, Fits(d), Fits(e)
      PROVE  FALSE
  <2>1. e - 1 \in Nat /\ d <= e - 1
    BY <1>1
  <2>2. 2^d <= 2^(e - 1)
    <3>1. 2^d \in Nat /\ 2^(e - 1) \in Nat
      BY <2>1, PowerPositive
    <3>2. CASE d = e - 1
      BY <3>1, <3>2
    <3>3. CASE d < e - 1
      <4>1. 2 * 2^d <= 2^(e - 1)
        BY <2>1, <3>3, PowerIncreasing
      <4>. QED  BY <3>1, <4>1
    <3>. QED  BY <2>1, <3>2, <3>3
  <2>3. 2^d \in Nat /\ 2^(e - 1) \in Nat
    BY <2>1, PowerPositive
  <2>. QED  BY <1>1, <2>2, <2>3
<1>2. Fits(depth)
  OBVIOUS
<1>3. \A d \in 0..n : Fits(d) => d = depth
  <2>. TAKE d \in 0..n
  <2>. HIDE DEF Fits
  <2>. QED  BY <1>1, <1>2
<1>. HIDE DEF Fits
<1>4. depth = CHOOSE d \in 0..n : Fits(d)
  BY <1>2, <1>3
<1>. QED  BY <1>4, Zenon DEF DepthFor, Fits

(* A full list needs no padding. *)
LEMMA DepthForPower ==
  ASSUME NEW depth \in Nat
  PROVE  DepthFor(2^depth) = depth
<1>1. 2^depth \in Nat /\ depth <= 2^depth /\ 2^depth >= 2^depth
  BY PowerPositive
<1>2. depth = 0 \/ 2^(depth - 1) < 2^depth
  <2>. SUFFICES ASSUME depth # 0
                PROVE  2^(depth - 1) < 2^depth
    OBVIOUS
  <2>. DEFINE e == depth - 1
  <2>1. e \in Nat /\ depth = e + 1
    OBVIOUS
  <2>. HIDE DEF e
  <2>2. 2^(e + 1) = 2 * 2^e /\ 2^e \in Nat /\ 0 < 2^e
    BY <2>1, PowerStep, PowerPositive
  <2>3. 2^e < 2^(e + 1)
    BY <2>2
  <2>. QED  BY <2>1, <2>3 DEF e
<1>. QED  BY <1>1, <1>2, DepthForIs

(* build_merkle_proof_for_index gives the siblings on the way up. *)
LEMMA BuildsSiblings ==
  ASSUME NEW leaves, NEW depth \in Nat, NEW index, DepthFor(Len(leaves)) = depth
  PROVE  /\ IsBranch(BuildMerkleProofForIndex(leaves, index), depth)
         /\ HoldsSiblings(BuildMerkleProofForIndex(leaves, index), leaves, index, depth, 0)
<1>. DEFINE sibling(k) == Levels(leaves, depth)[k - 1][1 + Sibling(index \div 2^(k - 1))]
            branch == BuildMerkleProofForIndex(leaves, index)
<1>1. branch = [k \in 1..depth |-> sibling(k)]
  BY Zenon DEF BuildMerkleProofForIndex
<1>2. \A k \in 1..depth : branch[k] = sibling(k)
  <2>. HIDE DEF branch, sibling
  <2>. QED  BY <1>1
<1>3. IsBranch(branch, depth)
  <2>. HIDE DEF branch, sibling
  <2>. QED  BY <1>1 DEF IsBranch
<1>4. ASSUME NEW k \in 0..(depth - 1)
      PROVE  branch[0 + k + 1] = Levels(leaves, depth)[k][1 + Sibling(index \div 2^k)]
  <2>1. k + 1 \in 1..depth /\ (k + 1) - 1 = k /\ 0 + k + 1 = k + 1
    OBVIOUS
  <2>2. branch[k + 1] = sibling(k + 1)
    BY <1>2, <2>1
  <2>. HIDE DEF branch
  <2>. QED  BY <2>1, <2>2, Zenon
<1>. QED  BY <1>3, <1>4 DEF HoldsSiblings

-----------------------------------------------------------------------------
(* MerkleTree::create and generate_proof *)

(* The tree over one slice of the leaves, given those of one depth less. *)
Subtree(leaves, below, slice, d) ==
  IF slice[1] = slice[2] THEN ZeroTree(d)
  ELSE IF d = 0 THEN [kind |-> "Leaf", hash |-> leaves[slice[1] + 1]]
  ELSE Node(below[<<slice[1], SplitAt(slice, d)>>], below[<<SplitAt(slice, d), slice[2]>>])

(* create: a tree over a slice is made of the trees over its two parts. *)
LEMMA CreateUnfolds ==
  ASSUME NEW leaves, NEW depth \in Nat
  PROVE  \E tree :
           /\ \A d \in 0..depth, slice \in Slices(Len(leaves)) :
                tree[d][slice] = Subtree(leaves, tree[d - 1], slice, d)
           /\ Create(leaves, depth) = tree[depth][<<0, Len(leaves)>>]
<1>. DEFINE Row(below, d) ==
              [slice \in Slices(Len(leaves)) |-> Subtree(leaves, below, slice, d)]
            IsRows(t, n) == t = [d \in 0..n |-> Row(t[d - 1], d)]
            Grown == {n \in Nat : \E t : IsRows(t, n)}
            trees == CHOOSE t : IsRows(t, depth)
<1>0. ASSUME NEW b, NEW c, NEW d, d = 0
      PROVE  Row(b, d) = Row(c, d)
  BY <1>0 DEF Subtree
<1>1. 0 \in Grown
  <2>. DEFINE first == [d \in 0..0 |-> Row(<<>>, 0)]
  <2>1. ASSUME NEW d \in 0..0
        PROVE  first[d] = Row(first[d - 1], d)
    <3>1. d = 0 /\ first[d] = Row(<<>>, 0)
      OBVIOUS
    <3>. HIDE DEF first, Row
    <3>2. Row(<<>>, 0) = Row(first[d - 1], 0)
      BY <1>0
    <3>. QED  BY <3>1, <3>2
  <2>2. IsRows(first, 0)
    <3>. HIDE DEF Row
    <3>. QED  BY <2>1
  <2>3. \E y : IsRows(y, 0)
    <3>. HIDE DEF first, IsRows
    <3>. QED  BY <2>2
  <2>. QED  BY <2>3
<1>2. ASSUME NEW n \in Nat, n \in Grown
      PROVE  n + 1 \in Grown
  <2>1. PICK t : IsRows(t, n)
    BY <1>2
  <2>. HIDE DEF Row
  <2>. DEFINE longer == [d \in 0..(n + 1) |-> IF d <= n THEN t[d] ELSE Row(t[n], n + 1)]
  <2>2. ASSUME NEW d \in 0..(n + 1)
        PROVE  longer[d] = Row(longer[d - 1], d)
    <3>1. CASE d = 0
      <4>1. longer[d] = t[0] /\ t[0] = Row(t[0 - 1], 0)
        BY <2>1, <3>1
      <4>. HIDE DEF longer
      <4>2. Row(t[0 - 1], 0) = Row(longer[d - 1], 0)
        BY <1>0
      <4>. QED  BY <3>1, <4>1, <4>2
    <3>2. CASE d \in 1..n
      <4>1. t[d] = Row(t[d - 1], d)
        BY <2>1, <3>2
      <4>. QED  BY <3>2, <4>1
    <3>3. CASE d = n + 1
      BY <3>3
    <3>. QED  BY <3>1, <3>2, <3>3
  <2>3. IsRows(longer, n + 1)
    BY <2>2
  <2>4. \E y : IsRows(y, n + 1)
    <3>. HIDE DEF longer, IsRows
    <3>. QED  BY <2>3
  <2>. QED  BY <2>4
<1>3. depth \in Grown
  <2>. HIDE DEF Grown
  <2>. QED  BY <1>1, <1>2, SetInduction
<1>4. IsRows(trees, depth)
  <2>. HIDE DEF IsRows
  <2>. QED  BY <1>3
<1>5. Create(leaves, depth) = trees[depth][<<0, Len(leaves)>>]
  BY Zenon DEF Create, Subtree
<1>. HIDE DEF trees
<1>6. ASSUME NEW d \in 0..depth, NEW slice \in Slices(Len(leaves))
      PROVE  trees[d][slice] = Subtree(leaves, trees[d - 1], slice, d)
  <2>1. trees[d] = Row(trees[d - 1], d)
    <3>. HIDE DEF Row
    <3>. QED  BY <1>4
  <2>. QED  BY <2>1
<1>. QED  BY <1>5, <1>6, Zenon

(* The walk of generate_proof: at every step, into the branch the bit tells. *)
WalksDown(node, index, depth) ==
  \A k \in 0..(depth - 1) :
    node[k + 1] = LeftAndRightBranches(node[k])[1 + IthBit(index, depth - (k + 1))]

(* The nodes it leaves aside, in the order of the branch. *)
LeftAside(node, index, depth) ==
  [i \in 1..depth |-> LeftAndRightBranches(node[depth - i])[2 - IthBit(index, i - 1)].hash]

(* generate_proof: current_node on the way down, and the branch read off it. *)
LEMMA GenerateProofUnfolds ==
  ASSUME NEW tree, NEW index, NEW depth \in Nat
  PROVE  \E node : /\ node[0] = tree
                   /\ WalksDown(node, index, depth)
                   /\ GenerateProof(tree, index, depth).proof = LeftAside(node, index, depth)
<1>. DEFINE Down(n, k) == LeftAndRightBranches(n)[1 + IthBit(index, depth - k)]
            IsWalk(w, n) == w = [k \in 0..n |-> IF k = 0 THEN tree ELSE Down(w[k - 1], k)]
            Walked == {n \in Nat : \E w : IsWalk(w, n)}
            walk == CHOOSE w : IsWalk(w, depth)
<1>1. 0 \in Walked
  <2>. HIDE DEF Down
  <2>1. IsWalk([k \in 0..0 |-> tree], 0)
    OBVIOUS
  <2>. QED  BY <2>1
<1>2. ASSUME NEW n \in Nat, n \in Walked
      PROVE  n + 1 \in Walked
  <2>1. PICK w : IsWalk(w, n)
    BY <1>2
  <2>. HIDE DEF Down
  <2>. DEFINE longer == [k \in 0..(n + 1) |-> IF k <= n THEN w[k] ELSE Down(w[n], n + 1)]
  <2>2. ASSUME NEW k \in 0..(n + 1)
        PROVE  longer[k] = IF k = 0 THEN tree ELSE Down(longer[k - 1], k)
    <3>1. CASE k <= n
      <4>1. w[k] = IF k = 0 THEN tree ELSE Down(w[k - 1], k)
        BY <2>1, <3>1
      <4>. QED  BY <3>1, <4>1
    <3>2. CASE k = n + 1
      BY <3>2
    <3>. QED  BY <3>1, <3>2
  <2>3. IsWalk(longer, n + 1)
    BY <2>2
  <2>4. \E y : IsWalk(y, n + 1)
    <3>. HIDE DEF longer, IsWalk
    <3>. QED  BY <2>3
  <2>. QED  BY <2>4
<1>3. depth \in Walked
  <2>. HIDE DEF Walked
  <2>. QED  BY <1>1, <1>2, SetInduction
<1>4. IsWalk(walk, depth)
  <2>. HIDE DEF IsWalk
  <2>. QED  BY <1>3
<1>5. GenerateProof(tree, index, depth)
        = [leaf  |-> walk[depth].hash,
           proof |-> [i \in 1..depth |->
                        LeftAndRightBranches(walk[depth - i])[2 - IthBit(index, i - 1)].hash]]
  BY Zenon DEF GenerateProof
<1>. HIDE DEF walk
<1>6. walk[0] = tree
  <2>. HIDE DEF Down
  <2>. QED  BY <1>4
<1>7. ASSUME NEW k \in 0..(depth - 1)
      PROVE  walk[k + 1] = LeftAndRightBranches(walk[k])[1 + IthBit(index, depth - (k + 1))]
  <2>1. walk[k + 1] = Down(walk[k], k + 1)
    <3>. HIDE DEF Down
    <3>. QED  BY <1>4
  <2>. QED  BY <2>1, Zenon
<1>8. GenerateProof(tree, index, depth).proof
        = [i \in 1..depth |->
             LeftAndRightBranches(walk[depth - i])[2 - IthBit(index, i - 1)].hash]
  <2>. DEFINE pushed == [i \in 1..depth |->
                           LeftAndRightBranches(walk[depth - i])[2 - IthBit(index, i - 1)].hash]
  <2>. HIDE DEF pushed
  <2>. QED  BY <1>5 DEF pushed
<1>. QED  BY <1>6, <1>7, <1>8, Zenon DEF WalksDown, LeftAside

(* Where the j-th subtree of a depth begins in a list of n leaves. *)
Cut(n, j, d) == IF j * 2^d <= n THEN j * 2^d ELSE n

(* The leaves of the j-th subtree of a depth, counted from 0. *)
SliceOf(n, j, d) == <<Cut(n, j, d), Cut(n, j + 1, d)>>

(* Every such slice is one. *)
LEMMA SliceOfIsSlice ==
  ASSUME NEW n \in Nat, NEW j \in Nat, NEW d \in Nat
  PROVE  SliceOf(n, j, d) \in Slices(n)
<1>1. 2^d \in Nat
  BY PowerPositive
<1>2. j * 2^d \in Nat /\ (j + 1) * 2^d \in Nat /\ j * 2^d <= (j + 1) * 2^d
  <2>1. \A w \in Nat : j * w \in Nat /\ (j + 1) * w \in Nat /\ j * w <= (j + 1) * w
    OBVIOUS
  <2>. QED  BY <1>1, <2>1
<1>3. /\ Cut(n, j, d) \in 0..n /\ Cut(n, j + 1, d) \in 0..n
      /\ Cut(n, j, d) <= Cut(n, j + 1, d)
  BY <1>2 DEF Cut
<1>. QED  BY <1>3 DEF SliceOf, Slices

(* Where create cuts the leaves of a subtree, its two halves begin and end; an
   empty subtree has empty halves. *)
CutsInHalves(slice, lower, upper, depth) ==
  /\ slice[1] = lower[1] /\ lower[2] = upper[1] /\ upper[2] = slice[2]
  /\ slice[1] # slice[2] => SplitAt(slice, depth) = lower[2]
  /\ slice[1] = slice[2] => lower[1] = lower[2] /\ upper[1] = upper[2]

(* The halves of the j-th subtree are the two next to each other below it. *)
LEMMA CutInHalves ==
  ASSUME NEW n \in Nat, NEW j \in Nat, NEW d \in Nat
  PROVE  CutsInHalves(SliceOf(n, j, d + 1), SliceOf(n, 2 * j, d), SliceOf(n, 2 * j + 1, d), d + 1)
<1>. DEFINE w == 2^d
            a == j * (2 * w)
<1>1. w \in Nat /\ w >= 1 /\ 2^(d + 1) = 2 * w
  BY PowerPositive, PowerStep
<1>2. (d + 1) - 1 = d
  OBVIOUS
<1>. HIDE DEF w
<1>3. /\ (2 * j) * w = a /\ (2 * j + 1) * w = a + w /\ ((2 * j + 1) + 1) * w = a + 2 * w
      /\ (j + 1) * (2 * w) = a + 2 * w /\ a \in Nat
  BY <1>1
<1>. HIDE DEF a
<1>4. /\ Cut(n, j, d + 1) = IF a <= n THEN a ELSE n
      /\ Cut(n, j + 1, d + 1) = IF a + 2 * w <= n THEN a + 2 * w ELSE n
  BY <1>1, <1>3, Zenon DEF Cut, a
<1>5. /\ Cut(n, 2 * j, d) = IF a <= n THEN a ELSE n
      /\ Cut(n, 2 * j + 1, d) = IF a + w <= n THEN a + w ELSE n
      /\ Cut(n, (2 * j + 1) + 1, d) = IF a + 2 * w <= n THEN a + 2 * w ELSE n
  BY <1>3, Zenon DEF Cut, w
<1>. DEFINE from == Cut(n, j, d + 1)
            to == Cut(n, j + 1, d + 1)
            mid == Cut(n, 2 * j + 1, d)
<1>6. SplitAt(SliceOf(n, j, d + 1), d + 1) = IF to - from <= w THEN to ELSE from + w
  BY <1>2 DEF SplitAt, SliceOf, w
<1>7. from # to => (IF to - from <= w THEN to ELSE from + w) = mid
  BY <1>1, <1>3, <1>4, <1>5
<1>8. from = to => from = mid /\ mid = to
  BY <1>1, <1>3, <1>4, <1>5
<1>9. from = Cut(n, 2 * j, d) /\ to = Cut(n, (2 * j + 1) + 1, d)
  BY <1>4, <1>5
<1>10. /\ SliceOf(n, j, d + 1) = <<from, to>>
       /\ SliceOf(n, 2 * j, d) = <<from, mid>>
       /\ SliceOf(n, 2 * j + 1, d) = <<mid, to>>
  BY <1>9, Zenon DEF SliceOf
<1>. HIDE DEF from, to, mid
<1>11. /\ SliceOf(n, j, d + 1)[1] = from /\ SliceOf(n, j, d + 1)[2] = to
       /\ SliceOf(n, 2 * j, d)[1] = from /\ SliceOf(n, 2 * j, d)[2] = mid
       /\ SliceOf(n, 2 * j + 1, d)[1] = mid /\ SliceOf(n, 2 * j + 1, d)[2] = to
  BY <1>10
<1>. QED  BY <1>6, <1>7, <1>8, <1>11, Zenon DEF CutsInHalves

(* The trees over all slices of n leaves, of every depth up to one. *)
Grown(tree, leaves, n, depth) ==
  \A d \in 0..depth, slice \in Slices(n) :
    tree[d][slice] = Subtree(leaves, tree[d - 1], slice, d)

(* What the branches of a tree are, and its hash. *)
HasBranches(sub, left, right) ==
  LeftAndRightBranches(sub) = <<left, right>> /\ sub.hash = Hash(left.hash, right.hash)

(* The branches of a subtree that is no leaf are its two halves, whether it
   is a Node or an empty Zero. *)
LEMMA BranchesOfSubtree ==
  ASSUME NEW leaves, NEW n \in Nat, NEW depth \in Nat, NEW tree,
         Grown(tree, leaves, n, depth),
         NEW d \in 0..(depth - 1), NEW j \in Nat
  PROVE  HasBranches(tree[d + 1][SliceOf(n, j, d + 1)],
                     tree[d][SliceOf(n, 2 * j, d)], tree[d][SliceOf(n, 2 * j + 1, d)])
<1>. DEFINE slice == SliceOf(n, j, d + 1)
            lower == SliceOf(n, 2 * j, d)
            upper == SliceOf(n, 2 * j + 1, d)
            sub   == tree[d + 1][slice]
            left  == tree[d][lower]
            right == tree[d][upper]
<1>1. /\ 2 * j \in Nat /\ 2 * j + 1 \in Nat
      /\ d \in 0..depth /\ d + 1 \in 0..depth /\ (d + 1) - 1 = d /\ d \in Nat /\ d + 1 \in Nat
  OBVIOUS
<1>2. slice \in Slices(n) /\ lower \in Slices(n) /\ upper \in Slices(n)
  BY <1>1, SliceOfIsSlice
<1>3. sub = Subtree(leaves, tree[d], slice, d + 1)
  <2>1. sub = Subtree(leaves, tree[(d + 1) - 1], slice, d + 1)
    <3>. HIDE DEF slice
    <3>. QED  BY <1>1, <1>2 DEF Grown
  <2>. QED  BY <1>1, <2>1
<1>4. /\ slice[1] = lower[1] /\ lower[2] = upper[1] /\ upper[2] = slice[2]
      /\ slice[1] # slice[2] => SplitAt(slice, d + 1) = lower[2]
      /\ slice[1] = slice[2] => lower[1] = lower[2] /\ upper[1] = upper[2]
  <2>1. CutsInHalves(slice, lower, upper, d + 1)
    BY <1>1, CutInHalves, Zenon
  <2>. QED  BY <2>1, Zenon DEF CutsInHalves
<1>5. lower = <<lower[1], lower[2]>> /\ upper = <<upper[1], upper[2]>>
  BY DEF SliceOf
<1>6. left = Subtree(leaves, tree[d - 1], lower, d) /\ right = Subtree(leaves, tree[d - 1], upper, d)
  <2>. HIDE DEF lower, upper
  <2>. QED  BY <1>1, <1>2 DEF Grown
<1>. HIDE DEF slice, lower, upper
<1>7. CASE slice[1] = slice[2]
  <2>1. sub = ZeroTree(d + 1) /\ left = ZeroTree(d) /\ right = ZeroTree(d)
    <3>. HIDE DEF sub, left, right
    <3>. QED  BY <1>3, <1>4, <1>6, <1>7, Zenon DEF Subtree
  <2>. HIDE DEF sub, left, right
  <2>2. ZeroHash[d + 1] = Hash(ZeroHash[d], ZeroHash[d])
    BY <1>1, ZeroHashUnfolds
  <2>3. /\ sub.kind = "Zero" /\ sub.depth = d + 1 /\ sub.hash = ZeroHash[d + 1]
        /\ left.hash = ZeroHash[d] /\ right.hash = ZeroHash[d]
    BY <2>1 DEF ZeroTree
  <2>4. LeftAndRightBranches(sub) = <<left, right>>
    <3>1. sub.depth - 1 = d
      BY <1>1, <2>3
    <3>. QED  BY <2>1, <2>3, <3>1, Zenon DEF LeftAndRightBranches
  <2>5. sub.hash = Hash(left.hash, right.hash)
    BY <2>2, <2>3, Zenon
  <2>. QED  BY <2>4, <2>5, Zenon DEF HasBranches, sub, left, right, slice, lower, upper
<1>8. CASE slice[1] # slice[2]
  <2>1. <<slice[1], SplitAt(slice, d + 1)>> = lower /\ <<SplitAt(slice, d + 1), slice[2]>> = upper
    BY <1>4, <1>5, <1>8, Zenon
  <2>2. d + 1 # 0
    BY <1>1
  <2>3. sub = Node(left, right)
    <3>. HIDE DEF sub
    <3>. QED  BY <1>3, <1>8, <2>1, <2>2, Zenon DEF Subtree
  <2>. HIDE DEF sub, left, right
  <2>4. /\ sub.kind = "Node" /\ sub.hash = Hash(left.hash, right.hash)
        /\ sub.left = left /\ sub.right = right
    BY <2>3 DEF Node
  <2>5. LeftAndRightBranches(sub) = <<left, right>>
    BY <2>4 DEF LeftAndRightBranches
  <2>. QED  BY <2>4, <2>5, Zenon DEF HasBranches, sub, left, right, slice, lower, upper
<1>. QED  BY <1>7, <1>8

(* The hash of a subtree is the node of the padded tree at its place: what
   MerkleTree::create builds is what tree_hash derives. *)
LEMMA SubtreeHash ==
  ASSUME NEW leaves, NEW n \in Nat, Len(leaves) = n, NEW depth \in Nat, NEW tree,
         Grown(tree, leaves, n, depth),
         NEW d \in 0..depth, NEW j \in 0..(2^(depth - d) - 1)
  PROVE  tree[d][SliceOf(n, j, d)].hash = Levels(leaves, depth)[d][1 + j]
<1>. DEFINE Right(e) == \A i \in 0..(2^(depth - e) - 1) :
                          tree[e][SliceOf(n, i, e)].hash = Levels(leaves, depth)[e][1 + i]
            P == {e \in Nat : e <= depth => Right(e)}
<1>1. 0 \in P
  <2>. SUFFICES ASSUME NEW i \in 0..(2^depth - 1)
                PROVE  tree[0][SliceOf(n, i, 0)].hash = Levels(leaves, depth)[0][1 + i]
    <3>1. depth - 0 = depth
      OBVIOUS
    <3>. QED  BY <3>1
  <2>. DEFINE slice == SliceOf(n, i, 0)
  <2>1. 2^depth \in Nat /\ i \in Nat /\ 0 \in 0..depth /\ 2^0 = 1
    BY PowerPositive
  <2>2. slice = <<IF i <= n THEN i ELSE n, IF i + 1 <= n THEN i + 1 ELSE n>>
    <3>1. i * 1 = i /\ (i + 1) * 1 = i + 1
      BY <2>1
    <3>. QED  BY <2>1, <3>1, Zenon DEF SliceOf, Cut
  <2>3. slice \in Slices(n)
    BY <2>1, SliceOfIsSlice
  <2>4. tree[0][slice] = Subtree(leaves, tree[0 - 1], slice, 0)
    <3>. HIDE DEF slice
    <3>. QED  BY <2>1, <2>3 DEF Grown
  <2>5. Levels(leaves, depth)[0][1 + i] = IF 1 + i <= n THEN leaves[1 + i] ELSE ZeroLeaf
    <3>1. 1 + i \in 1..2^depth
      BY <2>1
    <3>2. Levels(leaves, depth)[0] = Pad(leaves, depth)
      BY LevelsUnfold
    <3>3. Pad(leaves, depth)[1 + i] = IF 1 + i <= n THEN leaves[1 + i] ELSE ZeroLeaf
      BY <3>1 DEF Pad
    <3>. QED  BY <3>2, <3>3, Zenon
  <2>. HIDE DEF slice
  <2>6. CASE i < n
    <3>1. slice[1] = i /\ slice[2] = i + 1 /\ slice[1] # slice[2] /\ i + 1 = 1 + i /\ 1 + i <= n
      BY <2>1, <2>2, <2>6
    <3>2. tree[0][slice] = [kind |-> "Leaf", hash |-> leaves[1 + i]]
      BY <2>4, <3>1, Zenon DEF Subtree
    <3>3. tree[0][slice].hash = leaves[1 + i]
      BY <3>2
    <3>. QED  BY <2>5, <3>1, <3>3, Zenon DEF slice
  <2>7. CASE ~ (i < n)
    <3>1. slice[1] = slice[2] /\ ~ (1 + i <= n)
      BY <2>1, <2>2, <2>7
    <3>2. tree[0][slice] = ZeroTree(0)
      BY <2>4, <3>1, Zenon DEF Subtree
    <3>3. tree[0][slice].hash = ZeroLeaf
      BY <3>2, ZeroHashUnfolds DEF ZeroTree
    <3>. QED  BY <2>5, <3>1, <3>3, Zenon DEF slice
  <2>. QED  BY <2>6, <2>7
<1>2. ASSUME NEW e \in Nat, e \in P
      PROVE  e + 1 \in P
  <2>. SUFFICES ASSUME e + 1 <= depth, NEW i \in 0..(2^(depth - (e + 1)) - 1)
                PROVE  tree[e + 1][SliceOf(n, i, e + 1)].hash
                         = Levels(leaves, depth)[e + 1][1 + i]
    OBVIOUS
  <2>. DEFINE c     == depth - (e + 1)
              left  == tree[e][SliceOf(n, 2 * i, e)]
              right == tree[e][SliceOf(n, 2 * i + 1, e)]
              level == Levels(leaves, depth)[e]
  <2>1. c \in Nat /\ depth - e = c + 1 /\ e \in 0..(depth - 1)
    OBVIOUS
  <2>2. 2^(c + 1) = 2 * 2^c /\ 2^c \in Nat
    BY <2>1, PowerStep
  <2>3. i \in Nat /\ i < 2^c /\ 1 + i \in 1..2^(depth - (e + 1))
    BY <2>2
  <2>4. tree[e + 1][SliceOf(n, i, e + 1)].hash = Hash(left.hash, right.hash)
    <3>1. HasBranches(tree[e + 1][SliceOf(n, i, e + 1)], left, right)
      BY <2>1, <2>3, BranchesOfSubtree
    <3>. QED  BY <3>1, Zenon DEF HasBranches
  <2>5. Levels(leaves, depth)[e + 1][1 + i] = Hash(level[2 * (1 + i) - 1], level[2 * (1 + i)])
    BY <2>1, <2>3, ParentNode
  <2>6. 2 * (1 + i) - 1 = 1 + 2 * i /\ 2 * (1 + i) = 1 + (2 * i + 1)
    BY <2>3
  <2>7. 2 * i \in 0..(2^(depth - e) - 1) /\ 2 * i + 1 \in 0..(2^(depth - e) - 1)
    <3>. HIDE DEF c
    <3>. QED  BY <2>1, <2>2, <2>3
  <2>8. left.hash = level[1 + 2 * i] /\ right.hash = level[1 + (2 * i + 1)]
    <3>1. Right(e)
      <4>1. e <= depth
        OBVIOUS
      <4>. HIDE DEF Right
      <4>. QED  BY <1>2, <4>1
    <3>. QED  BY <2>7, <3>1
  <2>. HIDE DEF left, right, level
  <2>. QED  BY <2>4, <2>5, <2>6, <2>8, Zenon
<1>3. \A e \in Nat : e \in P
  <2>. HIDE DEF P
  <2>. QED  BY <1>1, <1>2, SetInduction, Zenon
<1>4. Right(d)
  <2>1. d \in Nat /\ d <= depth
    OBVIOUS
  <2>. HIDE DEF Right
  <2>. QED  BY <1>3, <2>1
<1>. QED  BY <1>4, Zenon

(* The subtree that holds a leaf, and the one beside it. *)
Towards(tree, n, index, d) == tree[d][SliceOf(n, index \div 2^d, d)]
Beside(tree, n, index, d)  == tree[d][SliceOf(n, Sibling(index \div 2^d), d)]

(* Of the two branches of a subtree, the bit of the index tells the one that
   holds the leaf, and the other is beside it. *)
TurnsRight(tree, n, index, d) ==
  LET both == LeftAndRightBranches(Towards(tree, n, index, d + 1))
  IN  /\ both[1 + IthBit(index, d)] = Towards(tree, n, index, d)
      /\ both[2 - IthBit(index, d)] = Beside(tree, n, index, d)

(* It does, in every subtree that is no leaf. *)
LEMMA BranchOnTheWay ==
  ASSUME NEW leaves, NEW n \in Nat, NEW depth \in Nat, NEW tree,
         Grown(tree, leaves, n, depth),
         NEW index \in Nat, NEW d \in 0..(depth - 1)
  PROVE  TurnsRight(tree, n, index, d)
<1>. DEFINE p == index \div 2^d
            q == index \div 2^(d + 1)
            both  == LeftAndRightBranches(Towards(tree, n, index, d + 1))
            sub(j) == tree[d][SliceOf(n, j, d)]
<1>1. d \in Nat /\ d + 1 \in Nat
  OBVIOUS
<1>2. p \in Nat /\ q \in Nat /\ q = p \div 2
  BY <1>1, ShiftStep
<1>3. IthBit(index, d) = p % 2
  BY Zenon DEF IthBit
<1>4. ASSUME NEW j \in Nat
      PROVE  HasBranches(tree[d + 1][SliceOf(n, j, d + 1)], sub(2 * j), sub(2 * j + 1))
  BY BranchesOfSubtree
<1>5. both = <<sub(2 * q), sub(2 * q + 1)>>
  <2>. HIDE DEF sub
  <2>1. both = LeftAndRightBranches(tree[d + 1][SliceOf(n, q, d + 1)])
    BY Zenon DEF Towards
  <2>. HIDE DEF both, q
  <2>. QED  BY <1>2, <1>4, <2>1, Zenon DEF HasBranches
<1>6. Towards(tree, n, index, d) = sub(p) /\ Beside(tree, n, index, d) = sub(Sibling(p))
  BY Zenon DEF Towards, Beside
<1>. HIDE DEF both, sub, p, q
<1>7. CASE p % 2 = 0
  <2>1. 2 * q = p /\ 2 * q + 1 = Sibling(p) /\ 1 + IthBit(index, d) = 1 /\ 2 - IthBit(index, d) = 2
    BY <1>2, <1>3, <1>7 DEF Sibling
  <2>2. both[1] = sub(p) /\ both[2] = sub(Sibling(p))
    BY <1>5, <2>1
  <2>. QED  BY <1>6, <2>1, <2>2, Zenon DEF both, TurnsRight
<1>8. CASE p % 2 = 1
  <2>1. 2 * q + 1 = p /\ 2 * q = Sibling(p) /\ 1 + IthBit(index, d) = 2 /\ 2 - IthBit(index, d) = 1
    BY <1>2, <1>3, <1>8 DEF Sibling
  <2>2. both[2] = sub(p) /\ both[1] = sub(Sibling(p))
    BY <1>5, <2>1
  <2>. QED  BY <1>6, <2>1, <2>2, Zenon DEF both, TurnsRight
<1>. QED  BY <1>2, <1>7, <1>8

(* The walk meets, at every depth, the subtree that holds the leaf: it never
   meets a leaf before the last step. *)
LEMMA WalkMeetsTheLeaf ==
  ASSUME NEW leaves, NEW n \in Nat, NEW depth \in Nat, NEW tree,
         Grown(tree, leaves, n, depth),
         NEW index \in Nat, NEW node, WalksDown(node, index, depth),
         node[0] = Towards(tree, n, index, depth),
         NEW k \in 0..depth
  PROVE  node[k] = Towards(tree, n, index, depth - k)
<1>. DEFINE P == {i \in Nat : i <= depth => node[i] = Towards(tree, n, index, depth - i)}
<1>1. 0 \in P
  <2>1. depth - 0 = depth
    OBVIOUS
  <2>. QED  BY <2>1
<1>2. ASSUME NEW i \in Nat, i \in P
      PROVE  i + 1 \in P
  <2>. SUFFICES ASSUME i + 1 <= depth
                PROVE  node[i + 1] = Towards(tree, n, index, depth - (i + 1))
    OBVIOUS
  <2>. DEFINE d == depth - (i + 1)
  <2>1. d \in 0..(depth - 1) /\ depth - i = d + 1 /\ i \in 0..(depth - 1) /\ i <= depth
    OBVIOUS
  <2>2. node[i] = Towards(tree, n, index, d + 1)
    BY <1>2, <2>1
  <2>3. node[i + 1] = LeftAndRightBranches(node[i])[1 + IthBit(index, d)]
    BY <2>1 DEF WalksDown
  <2>. HIDE DEF d
  <2>4. LeftAndRightBranches(Towards(tree, n, index, d + 1))[1 + IthBit(index, d)]
          = Towards(tree, n, index, d)
    <3>1. TurnsRight(tree, n, index, d)
      BY <2>1, BranchOnTheWay
    <3>. QED  BY <3>1, Zenon DEF TurnsRight
  <2>5. node[i + 1] = Towards(tree, n, index, d)
    BY <2>2, <2>3, <2>4, Zenon
  <2>. QED  BY <2>5 DEF d
<1>3. k \in P
  <2>. HIDE DEF P
  <2>. QED  BY <1>1, <1>2, SetInduction
<1>. QED  BY <1>3

(* generate_proof, on a tree that create built from no more leaves than it has
   room for, returns the siblings on the way up from the index. *)
LEMMA GeneratesSiblings ==
  ASSUME NEW leaves, NEW n \in Nat, Len(leaves) = n, NEW depth \in Nat, n <= 2^depth,
         NEW index \in 0..(2^depth - 1)
  PROVE  LET branch == GenerateProof(Create(leaves, depth), index, depth).proof
         IN  IsBranch(branch, depth) /\ HoldsSiblings(branch, leaves, index, depth, 0)
<1>. DEFINE branch == GenerateProof(Create(leaves, depth), index, depth).proof
            at(d)  == index \div 2^d
<1>1. 2^depth \in Nat /\ index \in Nat
  BY PowerPositive
<1>2. PICK tree : Grown(tree, leaves, n, depth) /\ Create(leaves, depth) = tree[depth][<<0, n>>]
  BY CreateUnfolds, Zenon DEF Grown
<1>3. PICK node : /\ node[0] = Create(leaves, depth)
                  /\ WalksDown(node, index, depth)
                  /\ branch = LeftAside(node, index, depth)
  <2>1. \A t : \E node : /\ node[0] = t
                         /\ WalksDown(node, index, depth)
                         /\ GenerateProof(t, index, depth).proof = LeftAside(node, index, depth)
    BY GenerateProofUnfolds
  <2>. QED  BY <2>1
<1>. DEFINE pushed(i) == LeftAndRightBranches(node[depth - i])[2 - IthBit(index, i - 1)].hash
<1>4. node[0] = Towards(tree, n, index, depth)
  <2>1. at(depth) = 0
    <3>1. depth \in 0..depth /\ depth - depth = 0 /\ 2^0 = 1
      OBVIOUS
    <3>2. at(depth) \in 0..(2^(depth - depth) - 1)
      BY <3>1, ShiftBound
    <3>. QED  BY <3>1, <3>2
  <2>2. SliceOf(n, 0, depth) = <<0, n>>
    <3>1. 0 * 2^depth = 0 /\ (0 + 1) * 2^depth = 2^depth
      BY <1>1
    <3>2. 0 <= n /\ (2^depth <= n => 2^depth = n)
      BY <1>1
    <3>. QED  BY <3>1, <3>2, Zenon DEF SliceOf, Cut
  <2>3. Towards(tree, n, index, depth) = tree[depth][SliceOf(n, at(depth), depth)]
    BY Zenon DEF Towards
  <2>. QED  BY <1>2, <1>3, <2>1, <2>2, <2>3, Zenon
<1>. HIDE DEF branch
<1>5. ASSUME NEW d \in 0..(depth - 1)
      PROVE  branch[0 + d + 1] = Levels(leaves, depth)[d][1 + Sibling(index \div 2^d)]
  <2>1. /\ d + 1 \in 1..depth /\ depth - (d + 1) \in 0..depth
        /\ depth - (depth - (d + 1)) = d + 1 /\ (d + 1) - 1 = d /\ 0 + d + 1 = d + 1
        /\ d \in 0..depth /\ d + 1 \in 0..depth /\ d \in Nat
    OBVIOUS
  <2>2. node[depth - (d + 1)] = Towards(tree, n, index, depth - (depth - (d + 1)))
    BY <1>1, <1>2, <1>3, <1>4, <2>1, WalkMeetsTheLeaf
  <2>3. branch[d + 1] = pushed(d + 1)
    <3>1. branch = [i \in 1..depth |-> pushed(i)]
      BY <1>3, Zenon DEF LeftAside
    <3>. HIDE DEF pushed
    <3>. QED  BY <2>1, <3>1
  <2>4. branch[d + 1]
          = LeftAndRightBranches(Towards(tree, n, index, d + 1))[2 - IthBit(index, d)].hash
    BY <2>1, <2>2, <2>3, Zenon
  <2>5. LeftAndRightBranches(Towards(tree, n, index, d + 1))[2 - IthBit(index, d)]
          = Beside(tree, n, index, d)
    <3>1. TurnsRight(tree, n, index, d)
      BY <1>1, <1>2, BranchOnTheWay
    <3>. QED  BY <3>1, Zenon DEF TurnsRight
  <2>6. at(d) \in 0..(2^(depth - d) - 1) /\ at(d + 1) \in 0..(2^(depth - (d + 1)) - 1)
    BY <2>1, ShiftBound
  <2>7. 2^(depth - d) = 2 * 2^(depth - (d + 1)) /\ 2^(depth - (d + 1)) \in Nat
    <3>. DEFINE c == depth - (d + 1)
    <3>1. c \in Nat /\ depth - d = c + 1
      OBVIOUS
    <3>. HIDE DEF c
    <3>2. 2^(c + 1) = 2 * 2^c /\ 2^c \in Nat
      BY <3>1, PowerStep
    <3>. QED  BY <3>1, <3>2 DEF c
  <2>. HIDE DEF at
  <2>8. Sibling(at(d)) \in 0..(2^(depth - d) - 1)
    BY <2>6, <2>7 DEF Sibling
  <2>9. tree[d][SliceOf(n, Sibling(at(d)), d)].hash = Levels(leaves, depth)[d][1 + Sibling(at(d))]
    BY <1>2, <2>1, <2>8, SubtreeHash
  <2>. QED  BY <2>1, <2>4, <2>5, <2>9, Zenon DEF at, Beside
<1>6. IsBranch(branch, depth)
  <2>1. branch = [i \in 1..depth |-> pushed(i)]
    BY <1>3, Zenon DEF LeftAside
  <2>. HIDE DEF pushed
  <2>. QED  BY <2>1 DEF IsBranch
<1>. QED  BY <1>5, <1>6 DEF HoldsSiblings, branch

=============================================================================
