--------------------------- MODULE ThumbALUProofs ----------------------------
(***************************************************************************)
(* What the data processing of the interpreter means, for words of every   *)
(* width.  Carry and overflow are computed from halves of the operands     *)
(* (do_cflag, do_vflag); here they are shown to be those of the whole sum, *)
(* and a comparison followed by a conditional branch to decide an order.   *)
(* The logical operations are those of the bits, and shifts, computed by   *)
(* cases on the amount, multiply, divide and rotate.                       *)
(***************************************************************************)
EXTENDS ThumbALU, FiniteSetTheorems, FunctionTheorems, WellFoundedInduction, TLAPS

\* A word of Modulus possible values, read as a signed number.
Signed(x) == IF x >= Half THEN x - Modulus ELSE x

-----------------------------------------------------------------------------
(* Powers of two.  The provers know nothing of them: 2^n is counted as the *)
(* number of subsets of n elements.                                        *)

\* A power of two counts the subsets of a set of that many elements.
LEMMA PowerCounts ==
  ASSUME NEW a \in Int, NEW b \in Int, NEW n \in Nat, n = b - a + 1
  PROVE  /\ IsFiniteSet(SUBSET (a .. b))
         /\ Cardinality(SUBSET (a .. b)) = 2 ^ n
<1>1. /\ IsFiniteSet(a .. b)
      /\ Cardinality(a .. b) = IF a > b THEN 0 ELSE b - a + 1
  BY FS_Interval
<1>2. Cardinality(a .. b) = n
  BY <1>1
<1>3. QED
  BY <1>1, <1>2, FS_SUBSET

\* A subset of m + n elements is a subset of the first m and one of the last n.
LEMMA PowerSum ==
  ASSUME NEW m \in Nat, NEW n \in Nat
  PROVE  2 ^ (m + n) = 2 ^ m * 2 ^ n
<1>. DEFINE S == 1 .. m
            T == m + 1 .. m + n
            U == 1 .. m + n
            f == [A \in SUBSET U |-> <<A \cap S, A \cap T>>]
<1>1. U = S \cup T /\ S \cap T = {}
  OBVIOUS
<1>2. /\ IsFiniteSet(SUBSET S) /\ Cardinality(SUBSET S) = 2 ^ m
      /\ IsFiniteSet(SUBSET T) /\ Cardinality(SUBSET T) = 2 ^ n
      /\ IsFiniteSet(SUBSET U) /\ Cardinality(SUBSET U) = 2 ^ (m + n)
  <2>1. m = m - 1 + 1 /\ n = (m + n) - (m + 1) + 1 /\ 1 \in Int /\ m \in Int
    OBVIOUS
  <2>2. m + 1 \in Int /\ m + n \in Nat
    OBVIOUS
  <2>3. IsFiniteSet(SUBSET S) /\ Cardinality(SUBSET S) = 2 ^ m
    BY Zenon, <2>1, PowerCounts
  <2>4. PICK l \in Int, h \in Nat : l = m + 1 /\ h = m + n
    OBVIOUS
  <2>5. n = h - l + 1 /\ h = h - 1 + 1 /\ 1 \in Int /\ h \in Int
    BY <2>4
  <2>6. IsFiniteSet(SUBSET (l .. h)) /\ Cardinality(SUBSET (l .. h)) = 2 ^ n
    BY Zenon, <2>4, <2>5, PowerCounts
  <2>7. IsFiniteSet(SUBSET (1 .. h)) /\ Cardinality(SUBSET (1 .. h)) = 2 ^ h
    BY Zenon, <2>4, <2>5, PowerCounts
  <2>8. QED
    BY <2>3, <2>4, <2>6, <2>7
<1>. HIDE DEF S, T, U
<1>3. f \in Bijection(SUBSET U, (SUBSET S) \X (SUBSET T))
  <2>1. f \in [SUBSET U -> (SUBSET S) \X (SUBSET T)]
    OBVIOUS
  <2>2. ASSUME NEW A \in SUBSET U, NEW B \in SUBSET U, f[A] = f[B] PROVE A = B
    BY <1>1, <2>2
  <2>3. ASSUME NEW p \in (SUBSET S) \X (SUBSET T) PROVE \E A \in SUBSET U : f[A] = p
    <3>1. p[1] \cup p[2] \in SUBSET U
      BY <1>1
    <3>2. (p[1] \cup p[2]) \cap S = p[1] /\ (p[1] \cup p[2]) \cap T = p[2]
      BY <1>1
    <3>3. f[p[1] \cup p[2]] = p
      BY <3>1, <3>2
    <3>4. QED
      BY <3>1, <3>3
  <2>4. QED
    BY <2>1, <2>2, <2>3, Fun_IsBij
<1>4. ExistsBijection(SUBSET U, (SUBSET S) \X (SUBSET T))
  BY <1>3, Fun_ExistsBij
<1>5. Cardinality((SUBSET S) \X (SUBSET T)) = Cardinality(SUBSET U)
  BY <1>2, <1>4, FS_Bijection
<1>6. Cardinality((SUBSET S) \X (SUBSET T)) = Cardinality(SUBSET S) * Cardinality(SUBSET T)
  BY <1>2, FS_Product
<1>7. QED
  BY <1>2, <1>5, <1>6

\* A power of two is a positive number.
LEMMA PowerIsNatural ==
  ASSUME NEW n \in Nat
  PROVE  2 ^ n \in Nat \ {0}
<1>0. n = n - 1 + 1 /\ 1 \in Int /\ n \in Int
  OBVIOUS
<1>1. /\ IsFiniteSet(SUBSET (1 .. n))
      /\ Cardinality(SUBSET (1 .. n)) = 2 ^ n
  BY Zenon, <1>0, PowerCounts
<1>2. SUBSET (1 .. n) # {}
  OBVIOUS
<1>3. QED
  BY <1>1, <1>2, FS_CardinalityType, FS_EmptySet

\* Twice the power before.
LEMMA PowerStep ==
  ASSUME NEW n \in Nat \ {0}
  PROVE  2 ^ n = 2 * 2 ^ (n - 1) /\ n - 1 \in Nat
<1>1. PICK m \in Nat : m = n - 1 /\ n = m + 1
  OBVIOUS
<1>2. 2 ^ (m + 1) = 2 ^ m * 2 ^ 1
  BY PowerSum
<1>3. 2 ^ 1 = 2
  OBVIOUS
<1>4. QED
  BY <1>1, <1>2, <1>3, PowerIsNatural

\* The word has 2^W values.
LEMMA WordSize == W \in Nat \ {0} /\ Half \in Nat \ {0} /\ Modulus = 2 ^ W /\ Modulus \in Nat \ {0}
BY WidthAssumption, HalfAssumption, PowerStep DEF Modulus

-----------------------------------------------------------------------------
(* Division. *)

\* A quotient with a remainder in range is the quotient.
LEMMA DivUnique ==
  ASSUME NEW p \in Nat \ {0}, NEW d \in Int, NEW r \in 0 .. p - 1, NEW x \in Int, x = p * d + r
  PROVE  x \div p = d /\ x % p = r
OBVIOUS

\* There are such a quotient and remainder.
LEMMA DivExists ==
  ASSUME NEW p \in Nat \ {0}, NEW x \in Int
  PROVE  x \div p \in Int /\ x % p \in 0 .. p - 1 /\ x = p * (x \div p) + (x % p)
OBVIOUS

\* Adding a multiple of the divisor.
LEMMA DivShift ==
  ASSUME NEW p \in Nat \ {0}, NEW x \in Int, NEW q \in Int
  PROVE  (x + p * q) \div p = (x \div p) + q
OBVIOUS

\* The quotient of a number below a multiple of the divisor.
LEMMA DivBound ==
  ASSUME NEW p \in Nat \ {0}, NEW q \in Nat, NEW x \in Nat, x < p * q
  PROVE  x \div p \in 0 .. q - 1
OBVIOUS

\* A common factor of both operands cancels out.
LEMMA DivCancel ==
  ASSUME NEW p \in Nat \ {0}, NEW q \in Nat \ {0}, NEW x \in Int
  PROVE  (x * p) \div (p * q) = x \div q /\ (x * p) % (p * q) = (x % q) * p
<1>1. PICK d \in Int, r \in 0 .. q - 1 : d = x \div q /\ r = x % q /\ x = q * d + r
  BY DivExists
<1>2. x * p = (p * q) * d + r * p
  <2>1. x = q * d + r
    BY <1>1
  <2>2. (q * d + r) * p = (p * q) * d + r * p
    OBVIOUS
  <2>3. QED
    BY <2>1, <2>2
<1>3. r * p \in 0 .. p * q - 1
  <2>1. r * p >= 0 /\ r * p <= (q - 1) * p
    BY <1>1
  <2>2. QED
    BY <2>1
<1>4. PICK m \in Nat \ {0}, y \in Int, t \in Int : /\ m = p * q /\ y = x * p /\ t = r * p
                                                     /\ t \in 0 .. m - 1
  BY <1>3
<1>5. y \div m = d /\ y % m = t
  <2>1. y = m * d + t
    BY <1>2, <1>4
  <2>2. d \in Int /\ y \in Int /\ m \in Nat \ {0} /\ t \in 0 .. m - 1
    BY <1>1, <1>4
  <2>3. QED
    BY ONLY <2>1, <2>2, DivUnique
<1>6. QED
  BY <1>1, <1>4, <1>5

\* Dividing twice is dividing by the product.
LEMMA DivTwice ==
  ASSUME NEW p \in Nat \ {0}, NEW q \in Nat \ {0}, NEW x \in Int
  PROVE  x \div (p * q) = (x \div p) \div q
<1>1. PICK d \in Int, r \in 0 .. p - 1 : d = x \div p /\ x = p * d + r
  BY DivExists
<1>2. PICK e \in Int, s \in 0 .. q - 1 : e = d \div q /\ d = q * e + s
  BY DivExists
<1>3. x = (p * q) * e + (p * s + r)
  BY <1>1, <1>2
<1>4. p * s + r \in 0 .. p * q - 1
  <2>1. p * s >= 0 /\ p * s <= p * (q - 1)
    BY <1>2
  <2>2. QED
    BY <1>1, <2>1
<1>5. PICK m \in Nat \ {0}, t \in Int : m = p * q /\ t = p * s + r /\ t \in 0 .. m - 1
  BY <1>4
<1>6. x \div m = e
  BY <1>3, <1>5, DivUnique
<1>7. QED
  BY <1>1, <1>2, <1>5, <1>6

-----------------------------------------------------------------------------
(* Bits. *)

\* A set of natural numbers that is not empty has a least element.
LEMMA HasLeast ==
  ASSUME NEW T \in SUBSET Nat, T # {}
  PROVE  \E m \in T : \A n \in T : m <= n
<1>1. PICK m \in T : \A n \in T : ~(<<n, m>> \in OpToRel(<, Nat))
  BY NatLessThanWellFounded, WFMin
<1>2. \A n \in T : ~(n < m)
  BY <1>1 DEF OpToRel
<1>3. QED
  BY <1>2

\* Adding a multiple of the next power leaves the bits below it alone.
LEMMA LowBitsStay ==
  ASSUME NEW n \in Nat, NEW k \in 0 .. n - 1, NEW y \in Int, NEW b \in Int
  PROVE  BitOf(y + 2 ^ n * b, k) = BitOf(y, k)
<1>1. PICK q \in Nat : 2 ^ n = 2 ^ k * (2 * q)
  <2>1. PICK j \in Nat : j = n - k - 1
    OBVIOUS
  <2>2. n = k + (j + 1) /\ k \in Nat /\ j + 1 \in Nat
    BY <2>1
  <2>3. 2 ^ (k + (j + 1)) = 2 ^ k * 2 ^ (j + 1)
    BY <2>2, PowerSum
  <2>4. 2 ^ (j + 1) = 2 * 2 ^ j
    <3>1. (j + 1) - 1 = j /\ j + 1 \in Nat \ {0}
      OBVIOUS
    <3>2. QED
      BY <3>1, PowerStep
  <2>5. QED
    BY <2>2, <2>3, <2>4, PowerIsNatural
<1>2. PICK p \in Nat \ {0} : p = 2 ^ k
  BY PowerIsNatural
<1>3. y + 2 ^ n * b = y + p * (2 * q * b)
  BY <1>1, <1>2, PowerIsNatural
<1>4. (y + p * (2 * q * b)) \div p = (y \div p) + 2 * q * b
  BY DivShift
<1>5. (y \div p) \in Int
  BY <1>2
<1>6. ((y \div p) + 2 * (q * b)) % 2 = (y \div p) % 2
  BY <1>5
<1>7. QED
  BY <1>2, <1>3, <1>4, <1>6 DEF BitOf

\* Any n bits are those of a number below 2^n.
LEMMA BitsMakeNumber ==
  \A n \in Nat : \A s \in [0 .. n - 1 -> {0, 1}] :
    \E x \in 0 .. 2 ^ n - 1 : \A k \in 0 .. n - 1 : BitOf(x, k) = s[k]
<1>. DEFINE Good(n) == \A s \in [0 .. n - 1 -> {0, 1}] :
                         \E x \in 0 .. 2 ^ n - 1 : \A k \in 0 .. n - 1 : BitOf(x, k) = s[k]
            T == {n \in Nat : ~Good(n)}
<1>. SUFFICES ASSUME T # {} PROVE FALSE
  OBVIOUS
<1>1. PICK n \in T : \A m \in T : n <= m
  BY HasLeast
<1>2. n # 0
  <2>1. 0 \in 0 .. 2 ^ 0 - 1 /\ 0 .. 0 - 1 = {}
    OBVIOUS
  <2>2. Good(0)
    BY <2>1
  <2>3. 0 \notin T
    BY <2>2
  <2>4. QED
    BY <1>1, <2>3
<1>3. n \in Nat \ {0} /\ ~Good(n)
  BY <1>1, <1>2
<1>4. PICK m \in Nat : n = m + 1 /\ Good(m)
  <2>1. n - 1 \in Nat /\ ~(n <= n - 1) /\ n = (n - 1) + 1
    BY <1>3
  <2>2. n - 1 \notin T
    BY <1>1, <2>1
  <2>3. QED
    BY <2>1, <2>2
<1>. HIDE DEF T
<1>5. ASSUME NEW s \in [0 .. n - 1 -> {0, 1}]
      PROVE  \E x \in 0 .. 2 ^ n - 1 : \A k \in 0 .. n - 1 : BitOf(x, k) = s[k]
  <2>1. [k \in 0 .. m - 1 |-> s[k]] \in [0 .. m - 1 -> {0, 1}]
    BY <1>4
  <2>2. PICK y \in 0 .. 2 ^ m - 1 : \A k \in 0 .. m - 1 : BitOf(y, k) = s[k]
    BY <1>4, <2>1
  <2>3. PICK p \in Nat \ {0}, b \in {0, 1} : p = 2 ^ m /\ b = s[m]
    BY <1>4, PowerIsNatural
  <2>4. 2 ^ n = 2 * p
    <3>1. n - 1 = m
      BY <1>4
    <3>2. QED
      BY <1>3, <2>3, <3>1, PowerStep
  <2>5. PICK x \in 0 .. 2 ^ n - 1 : x = y + p * b
    BY <2>2, <2>3, <2>4
  <2>6. BitOf(x, m) = b
    <3>0. y \in 0 .. p - 1 /\ y \in Int /\ b \in Int /\ p * b \in Int
      BY <2>2, <2>3
    <3>1. x = p * b + y /\ x \in Int
      BY <2>5, <3>0
    <3>2. x \div p = b
      BY <3>0, <3>1, DivUnique
    <3>3. QED
      BY <2>3, <3>2 DEF BitOf
  <2>7. ASSUME NEW k \in 0 .. m - 1 PROVE BitOf(x, k) = s[k]
    <3>1. y \in Int /\ b \in Int /\ x = y + 2 ^ m * b
      BY <2>2, <2>3, <2>5
    <3>2. BitOf(x, k) = BitOf(y, k)
      BY <1>4, <3>1, LowBitsStay
    <3>3. QED
      BY <2>2, <3>2
  <2>8. \A k \in 0 .. n - 1 : BitOf(x, k) = s[k]
    BY <1>4, <2>3, <2>6, <2>7
  <2>9. QED
    BY <2>8
<1>6. QED
  BY <1>3, <1>5

\* A bit is 0 or 1.
LEMMA BitType ==
  ASSUME NEW x \in Int, NEW k \in Nat
  PROVE  BitOf(x, k) \in {0, 1}
BY PowerIsNatural DEF BitOf

\* The bitwise conjunction of two numbers is a word with the bits that both have.
THEOREM AndIsExact ==
  ASSUME NEW a \in Int, NEW b \in Int
  PROVE  /\ And(a, b) \in Word
         /\ \A k \in BitPositions : BitOf(And(a, b), k) = BitOf(a, k) * BitOf(b, k)
<1>. DEFINE s == [k \in 0 .. W - 1 |-> BitOf(a, k) * BitOf(b, k)]
<1>1. s \in [0 .. W - 1 -> {0, 1}]
  <2>1. ASSUME NEW k \in 0 .. W - 1 PROVE BitOf(a, k) * BitOf(b, k) \in {0, 1}
    <3>1. BitOf(a, k) \in {0, 1} /\ BitOf(b, k) \in {0, 1}
      BY WordSize, BitType
    <3>2. QED
      BY <3>1
  <2>2. QED
    BY <2>1
<1>2. \E x \in 0 .. 2 ^ W - 1 : \A k \in 0 .. W - 1 : BitOf(x, k) = s[k]
  BY <1>1, WordSize, BitsMakeNumber
<1>3. \E x \in Word : \A k \in BitPositions : BitOf(x, k) = BitOf(a, k) * BitOf(b, k)
  BY <1>2, WordSize DEF Word, BitPositions
<1>4. QED
  BY <1>3 DEF And

-----------------------------------------------------------------------------
(* Logic. *)

\* The complement of a word has the other value of every bit.
LEMMA NotIsExact ==
  ASSUME NEW x \in Word
  PROVE  /\ Not(x) \in Word
         /\ \A k \in BitPositions : BitOf(Not(x), k) = 1 - BitOf(x, k)
<1>1. x \in Int /\ Modulus \in Nat /\ Not(x) \in Word
  BY WordSize DEF Word, Not
<1>2. ASSUME NEW k \in BitPositions PROVE BitOf(Not(x), k) = 1 - BitOf(x, k)
  <2>0. W \in Int /\ k \in 0 .. W - 1 /\ k \in Nat
    BY WordSize DEF BitPositions
  <2>1. PICK j \in Nat : W = k + (j + 1)
    <3>1. PICK i \in Int : i = W - k - 1
      BY <2>0
    <3>2. i \in Nat /\ W = k + (i + 1)
      BY <2>0, <3>1
    <3>3. QED
      BY <3>2
  <2>2. PICK p \in Nat \ {0}, q \in Nat \ {0} : p = 2 ^ k /\ q = 2 ^ j
    BY <2>0, <2>1, PowerIsNatural
  <2>3. 2 ^ (j + 1) = 2 * q
    <3>1. (j + 1) - 1 = j /\ j + 1 \in Nat \ {0}
      OBVIOUS
    <3>2. QED
      BY <2>2, <3>1, PowerStep
  <2>4. Modulus = p * (2 * q)
    <3>1. 2 ^ (k + (j + 1)) = 2 ^ k * 2 ^ (j + 1)
      BY <2>0, PowerSum
    <3>2. QED
      BY <2>1, <2>2, <2>3, <3>1, WordSize
  <2>5. PICK d \in Int, r \in 0 .. p - 1 : d = x \div p /\ x = p * d + r
    BY <1>1, DivExists
  <2>6. Not(x) = p * (2 * q - 1 - d) + (p - 1 - r)
    BY <1>1, <2>4, <2>5 DEF Not
  <2>7. Not(x) \div p = 2 * q - 1 - d
    <3>1. p - 1 - r \in 0 .. p - 1 /\ 2 * q - 1 - d \in Int /\ Not(x) \in Int
      BY <1>1 DEF Word
    <3>2. QED
      BY <2>6, <3>1, DivUnique
  <2>8. (2 * q - 1 - d) % 2 = 1 - (d % 2)
    OBVIOUS
  <2>9. QED
    BY <2>2, <2>5, <2>7, <2>8 DEF BitOf
<1>3. QED
  BY <1>1, <1>2

\* AND, BIC, EOR, ORR and MVN, bit by bit.
THEOREM LogicIsExact ==
  ASSUME NEW op \in LogicOps, NEW a \in Word, NEW b \in Word
  PROVE  /\ Logic(op, a, b) \in Word
         /\ \A k \in BitPositions :
              BitOf(Logic(op, a, b), k) =
                CASE op \in {"and", "tst"} -> BitOf(a, k) * BitOf(b, k)
                  [] op = "bic" -> BitOf(a, k) * (1 - BitOf(b, k))
                  [] op = "eor" -> IF BitOf(a, k) = BitOf(b, k) THEN 0 ELSE 1
                  [] op = "orr" -> IF BitOf(a, k) + BitOf(b, k) = 0 THEN 0 ELSE 1
                  [] op = "mvn" -> 1 - BitOf(b, k)
<1>1. \A x \in Word : x \in Int
  BY DEF Word
<1>2. \A x, y \in Word : And(x, y) \in Word /\ Not(x) \in Word /\ Orr(x, y) \in Word
  BY <1>1, AndIsExact, NotIsExact DEF Orr
<1>3. Logic(op, a, b) \in Word
  BY <1>2 DEF Logic, LogicOps, Eor
<1>4. ASSUME NEW x \in Word, NEW y \in Word, NEW k \in BitPositions
      PROVE  /\ BitOf(And(x, y), k) = BitOf(x, k) * BitOf(y, k)
             /\ BitOf(Orr(x, y), k) = 1 - (1 - BitOf(x, k)) * (1 - BitOf(y, k))
  <2>1. BitOf(And(x, y), k) = BitOf(x, k) * BitOf(y, k)
    BY <1>1, AndIsExact
  <2>2. PICK u \in Word, v \in Word : u = Not(x) /\ v = Not(y)
    BY <1>2
  <2>3. BitOf(And(u, v), k) = BitOf(u, k) * BitOf(v, k)
    BY <1>1, AndIsExact
  <2>4. BitOf(u, k) = 1 - BitOf(x, k) /\ BitOf(v, k) = 1 - BitOf(y, k)
    BY <2>2, NotIsExact
  <2>5. PICK w \in Word : w = And(u, v)
    BY <1>2
  <2>6. BitOf(Not(w), k) = 1 - BitOf(w, k)
    BY NotIsExact
  <2>7. Orr(x, y) = Not(w)
    BY <2>2, <2>5 DEF Orr
  <2>8. QED
    BY <2>1, <2>3, <2>4, <2>5, <2>6, <2>7
<1>5. ASSUME NEW k \in BitPositions
      PROVE  BitOf(Logic(op, a, b), k) =
                CASE op \in {"and", "tst"} -> BitOf(a, k) * BitOf(b, k)
                  [] op = "bic" -> BitOf(a, k) * (1 - BitOf(b, k))
                  [] op = "eor" -> IF BitOf(a, k) = BitOf(b, k) THEN 0 ELSE 1
                  [] op = "orr" -> IF BitOf(a, k) + BitOf(b, k) = 0 THEN 0 ELSE 1
                  [] op = "mvn" -> 1 - BitOf(b, k)
  <2>1. BitOf(a, k) \in {0, 1} /\ BitOf(b, k) \in {0, 1}
    BY <1>1, WordSize, BitType DEF BitPositions
  <2>2. BitOf(Not(b), k) = 1 - BitOf(b, k) /\ BitOf(Not(a), k) = 1 - BitOf(a, k)
    BY NotIsExact
  <2>3. CASE op \in {"and", "tst"}
    BY <1>4, <2>3 DEF Logic
  <2>4. CASE op = "bic"
    BY <1>2, <1>4, <2>2, <2>4 DEF Logic
  <2>5. CASE op = "eor"
    <3>1. BitOf(Eor(a, b), k) =
            1 - (1 - BitOf(a, k) * (1 - BitOf(b, k))) * (1 - (1 - BitOf(a, k)) * BitOf(b, k))
      <4>1. BitOf(And(a, Not(b)), k) = BitOf(a, k) * (1 - BitOf(b, k))
        BY <1>2, <1>4, <2>2
      <4>2. BitOf(And(Not(a), b), k) = (1 - BitOf(a, k)) * BitOf(b, k)
        BY <1>2, <1>4, <2>2
      <4>3. PICK u \in Word, v \in Word : u = And(a, Not(b)) /\ v = And(Not(a), b)
        BY <1>2
      <4>4. BitOf(Orr(u, v), k) = 1 - (1 - BitOf(u, k)) * (1 - BitOf(v, k))
        BY <1>4
      <4>5. QED
        BY <4>1, <4>2, <4>3, <4>4 DEF Eor
    <3>2. QED
      BY <2>1, <2>5, <3>1 DEF Logic
  <2>6. CASE op = "orr"
    BY <1>4, <2>1, <2>6 DEF Logic
  <2>7. CASE op = "mvn"
    BY <2>2, <2>7 DEF Logic
  <2>8. QED
    BY <2>3, <2>4, <2>5, <2>6, <2>7 DEF LogicOps
<1>6. QED
  BY <1>3, <1>5

-----------------------------------------------------------------------------
(* Addition and subtraction. *)

\* The halves of a word: its top bit and the rest.
LEMMA Halves ==
  ASSUME Half \in Nat \ {0}, NEW x \in Word
  PROVE  /\ x \div Half = IF x < Half THEN 0 ELSE 1
         /\ x % Half = IF x < Half THEN x ELSE x - Half
BY SMTT(30) DEF Word, Modulus

\* The sum of the low halves carries into the top bit or not.
LEMMA CarryIn ==
  ASSUME Half \in Nat \ {0}, NEW a \in Word, NEW b \in Word, NEW c \in {0, 1}
  PROVE  /\ LowSum(a, b, c) = (IF a < Half THEN a ELSE a - Half)
                               + (IF b < Half THEN b ELSE b - Half) + c
         /\ LowSum(a, b, c) \div Half = IF LowSum(a, b, c) < Half THEN 0 ELSE 1
<1>1. LowSum(a, b, c) = (IF a < Half THEN a ELSE a - Half)
                         + (IF b < Half THEN b ELSE b - Half) + c
  BY Halves DEF LowSum
<1>2. LowSum(a, b, c) \in Word
  BY <1>1 DEF Word, Modulus
<1>3. QED
  BY <1>1, <1>2, Halves

\* Where the top bits and the carry into them come from, without halves.
LEMMA TopBits ==
  ASSUME Half \in Nat \ {0}, NEW a \in Word, NEW b \in Word, NEW c \in {0, 1},
         NEW in, in = LowSum(a, b, c) \div Half,
         NEW out, out = in + (a \div Half) + (b \div Half)
  PROVE  /\ in \in {0, 1} /\ out \in 0 .. 3
         /\ a < Half /\ b < Half => out = in /\ (in = 1 <=> a + b + c >= Half)
         /\ ((a < Half /\ b >= Half) \/ (a >= Half /\ b < Half)) => out = in + 1 /\ (in = 1 <=> a + b + c >= 2 * Half)
         /\ a >= Half /\ b >= Half => out = in + 2 /\ (in = 1 <=> a + b + c >= 3 * Half)
<1>. DEFINE L == LowSum(a, b, c)
<1>1. a \in Nat /\ b \in Nat /\ c \in Nat
  BY DEF Word, Modulus
<1>2. /\ a < Half => a \div Half = 0
      /\ a >= Half => a \div Half = 1
      /\ b < Half => b \div Half = 0
      /\ b >= Half => b \div Half = 1
  BY <1>1, Halves
<1>3. /\ L = (IF a < Half THEN a ELSE a - Half) + (IF b < Half THEN b ELSE b - Half) + c
      /\ in = IF L < Half THEN 0 ELSE 1
  BY CarryIn
<1>. HIDE DEF L
<1>4. L \in Int /\ in \in {0, 1}
  BY <1>1, <1>3
<1>5. /\ a < Half /\ b < Half => L = a + b + c
      /\ (a < Half /\ b >= Half) \/ (a >= Half /\ b < Half) => L = a + b + c - Half
      /\ a >= Half /\ b >= Half => L = a + b + c - 2 * Half
  BY <1>1, <1>3
<1>6. in = 1 <=> L >= Half
  BY <1>3, <1>4
<1>7. /\ a < Half /\ b < Half => out = in
      /\ (a < Half /\ b >= Half) \/ (a >= Half /\ b < Half) => out = in + 1
      /\ a >= Half /\ b >= Half => out = in + 2
  BY <1>1, <1>2, <1>4
<1>8. QED
  BY <1>1, <1>4, <1>5, <1>6, <1>7

\* do_cflag leaves a truth value.
LEMMA CarryIsBoolean ==
  ASSUME NEW a \in Word, NEW b \in Word, NEW c \in {0, 1}
  PROVE  CarryOut(a, b, c) \in BOOLEAN
<1>. DEFINE in == LowSum(a, b, c) \div Half
            out == in + (a \div Half) + (b \div Half)
<1>1. Half \in Nat \ {0}
  BY HalfAssumption
<1>2. out \in 0 .. 3
  BY <1>1, TopBits
<1>3. (out >= 2) \in BOOLEAN
  <2>. HIDE DEF out
  <2>1. QED
    BY <1>2
<1>4. QED
  BY Zenon, <1>3 DEF CarryOut

\* do_cflag: the carry is that of the whole sum.
THEOREM CarryIsExact ==
  ASSUME NEW a \in Word, NEW b \in Word, NEW c \in {0, 1}
  PROVE  CarryOut(a, b, c) <=> a + b + c >= Modulus
<1>1. Half \in Nat \ {0}
  BY HalfAssumption
<1>. DEFINE in == LowSum(a, b, c) \div Half
            out == in + (a \div Half) + (b \div Half)
<1>2. CarryOut(a, b, c) <=> out >= 2
  BY DEF CarryOut
<1>3. /\ in \in {0, 1} /\ out \in 0 .. 3
      /\ a < Half /\ b < Half => out = in /\ (in = 1 <=> a + b + c >= Half)
      /\ ((a < Half /\ b >= Half) \/ (a >= Half /\ b < Half)) => out = in + 1 /\ (in = 1 <=> a + b + c >= 2 * Half)
      /\ a >= Half /\ b >= Half => out = in + 2 /\ (in = 1 <=> a + b + c >= 3 * Half)
  BY <1>1, TopBits
<1>4. QED
  <2>. HIDE DEF in, out
  <2>1. QED
    BY <1>1, <1>2, <1>3 DEF Modulus, Word

\* do_vflag: the overflow flag says that the sum of the operands, read as signed
\* numbers, is not a signed word.
THEOREM OverflowIsExact ==
  ASSUME NEW a \in Word, NEW b \in Word, NEW c \in {0, 1}
  PROVE  Overflow(a, b, c) <=> Signed(a) + Signed(b) + c \notin -Half .. Half - 1
<1>1. Half \in Nat \ {0}
  BY HalfAssumption
<1>. DEFINE in == LowSum(a, b, c) \div Half
            out == in + (a \div Half) + (b \div Half)
<1>2. Overflow(a, b, c) <=> in # out \div 2
  BY DEF Overflow
<1>3. /\ in \in {0, 1} /\ out \in 0 .. 3
      /\ a < Half /\ b < Half => out = in /\ (in = 1 <=> a + b + c >= Half)
      /\ ((a < Half /\ b >= Half) \/ (a >= Half /\ b < Half)) => out = in + 1 /\ (in = 1 <=> a + b + c >= 2 * Half)
      /\ a >= Half /\ b >= Half => out = in + 2 /\ (in = 1 <=> a + b + c >= 3 * Half)
  BY <1>1, TopBits
<1>. HIDE DEF in, out
<1>4. out \div 2 = IF out < 2 THEN 0 ELSE 1
  BY <1>3
<1>5. Overflow(a, b, c) <=> \/ a < Half /\ b < Half /\ in = 1
                            \/ a >= Half /\ b >= Half /\ in = 0
  BY <1>2, <1>3, <1>4, <1>1 DEF Word, Modulus
<1>6. QED
  BY <1>1, <1>3, <1>5 DEF Signed, Word, Modulus

\* ADC: with the carry, in and out, the sum of two words is exact; this is one step
\* of the sum of two numbers of any number of words.
THEOREM AdcIsExact ==
  ASSUME NEW f \in Flags, NEW a \in Word, NEW b \in Word
  PROVE  LET out == Adc(a, b, f)
         IN  /\ out.r \in Word
             /\ a + b + AsBit(f.C) = out.r + Modulus * AsBit(out.f.C)
<1>1. Half \in Nat \ {0} /\ a \in Nat /\ b \in Nat
  BY HalfAssumption DEF Word, Modulus
<1>. DEFINE c == AsBit(f.C)
            x == (a + b + c) % Modulus
<1>2. c \in {0, 1}
  BY DEF AsBit
<1>. HIDE DEF c
<1>3. /\ x = IF a + b + c >= Modulus THEN a + b + c - Modulus ELSE a + b + c
      /\ x \in Word
  BY <1>1, <1>2 DEF Word, Modulus
<1>4. Adc(a, b, f).r = x /\ Adc(a, b, f).f.C = CarryOut(a, b, c)
  BY DEF Adc, NZCV, NZ, Flags, c
<1>5. AsBit(Adc(a, b, f).f.C) = IF a + b + c >= Modulus THEN 1 ELSE 0
  BY <1>2, <1>4, CarryIsExact DEF AsBit
<1>6. a + b + c = x + Modulus * AsBit(Adc(a, b, f).f.C)
  BY <1>1, <1>2, <1>3, <1>5 DEF Modulus
<1>7. QED
  BY <1>3, <1>4, <1>6 DEF c

\* SBC: a carry of zero is a borrow, and with it the difference of two words is exact.
THEOREM SbcIsExact ==
  ASSUME NEW f \in Flags, NEW a \in Word, NEW b \in Word
  PROVE  LET out == Sbc(a, b, f)
         IN  /\ out.r \in Word
             /\ a - b - (1 - AsBit(f.C)) = out.r - Modulus * (1 - AsBit(out.f.C))
<1>1. Half \in Nat \ {0} /\ a \in Nat /\ b \in Nat /\ Not(b) \in Word
  BY HalfAssumption DEF Not, Word, Modulus
<1>. DEFINE c == AsBit(f.C)
            x == (a - b - (1 - c)) % Modulus
<1>2. c \in {0, 1}
  BY DEF AsBit
<1>. HIDE DEF c
<1>3. /\ x = IF a - b - (1 - c) >= 0 THEN a - b - (1 - c) ELSE a - b - (1 - c) + Modulus
      /\ x \in Word
  BY <1>1, <1>2 DEF Word, Modulus
<1>4. Sbc(a, b, f).r = x /\ Sbc(a, b, f).f.C = CarryOut(a, Not(b), c)
  BY DEF Sbc, NZCV, NZ, Flags, c
<1>5. a + Not(b) + c >= Modulus <=> a - b - (1 - c) >= 0
  BY <1>1, <1>2 DEF Not, Word, Modulus
<1>6. AsBit(Sbc(a, b, f).f.C) = IF a - b - (1 - c) >= 0 THEN 1 ELSE 0
  BY <1>1, <1>2, <1>4, <1>5, CarryIsExact DEF AsBit
<1>7. a - b - (1 - c) = x - Modulus * (1 - AsBit(Sbc(a, b, f).f.C))
  BY <1>1, <1>2, <1>3, <1>6 DEF Modulus
<1>8. QED
  BY <1>3, <1>4, <1>7 DEF c

-----------------------------------------------------------------------------
(* Comparison.  CMP adds the complement of its second operand and one.     *)

\* The flags of a - b.
LEMMA CompareFlags ==
  ASSUME NEW f \in Flags, NEW a \in Word, NEW b \in Word
  PROVE  LET g == Sub(a, b, f).f
         IN  /\ g.C <=> a >= b
             /\ g.V <=> Signed(a) - Signed(b) \notin -Half .. Half - 1
             /\ g.Z <=> a = b
             /\ g.N <=> (a - b) % Modulus >= Half
<1>1. Half \in Nat \ {0} /\ Not(b) \in Word
  BY HalfAssumption DEF Not, Word, Modulus
<1>. DEFINE x == (a - b) % Modulus
<1>2. x = IF a >= b THEN a - b ELSE a - b + Modulus
  BY <1>1 DEF Word, Modulus
<1>3. (x = 0) <=> a = b
  BY <1>1, <1>2 DEF Word, Modulus
<1>4. CarryOut(a, Not(b), 1) <=> a >= b
  BY <1>1, CarryIsExact DEF Not, Word, Modulus
<1>5. Overflow(a, Not(b), 1) <=> Signed(a) - Signed(b) \notin -Half .. Half - 1
  <2>1. Signed(Not(b)) + 1 = - Signed(b)
    BY <1>1 DEF Signed, Not, Word, Modulus
  <2>2. Signed(a) \in Int /\ Signed(b) \in Int /\ Signed(Not(b)) \in Int
    BY <1>1 DEF Signed, Word, Modulus
  <2>3. Signed(a) + Signed(Not(b)) + 1 = Signed(a) - Signed(b)
    BY <2>1, <2>2
  <2>4. QED
    BY <1>1, <2>3, OverflowIsExact
<1>6. QED
  <2>1. Sub(a, b, f).f = [f EXCEPT !.N = (x >= Half), !.Z = (x = 0),
                                   !.C = CarryOut(a, Not(b), 1), !.V = Overflow(a, Not(b), 1)]
    BY DEF Sub, NZCV, NZ
  <2>2. QED
    BY <2>1, <1>3, <1>4, <1>5 DEF Flags

\* CMP and B(1): after comparing two words, the branches of unsigned and of signed
\* order are taken exactly when the order holds.
THEOREM BranchesDecideWords ==
  ASSUME NEW f \in Flags, NEW a \in Word, NEW b \in Word
  PROVE  LET g == Sub(a, b, f).f
         IN  /\ Holds("eq", g) <=> a = b
             /\ Holds("ne", g) <=> a # b
             /\ Holds("cs", g) <=> a >= b
             /\ Holds("cc", g) <=> a < b
             /\ Holds("hi", g) <=> a > b
             /\ Holds("ls", g) <=> a <= b
             /\ Holds("ge", g) <=> Signed(a) >= Signed(b)
             /\ Holds("lt", g) <=> Signed(a) < Signed(b)
             /\ Holds("gt", g) <=> Signed(a) > Signed(b)
             /\ Holds("le", g) <=> Signed(a) <= Signed(b)
<1>. SUFFICES ASSUME NEW g, g = Sub(a, b, f).f
              PROVE  /\ Holds("eq", g) <=> a = b
                     /\ Holds("ne", g) <=> a # b
                     /\ Holds("cs", g) <=> a >= b
                     /\ Holds("cc", g) <=> a < b
                     /\ Holds("hi", g) <=> a > b
                     /\ Holds("ls", g) <=> a <= b
                     /\ Holds("ge", g) <=> Signed(a) >= Signed(b)
                     /\ Holds("lt", g) <=> Signed(a) < Signed(b)
                     /\ Holds("gt", g) <=> Signed(a) > Signed(b)
                     /\ Holds("le", g) <=> Signed(a) <= Signed(b)
  OBVIOUS
<1>1. Half \in Nat \ {0} /\ a \in Nat /\ b \in Nat
  BY HalfAssumption DEF Word, Modulus
<1>2. g.N \in BOOLEAN /\ g.Z \in BOOLEAN /\ g.C \in BOOLEAN /\ g.V \in BOOLEAN
  <2>1. /\ g.N = (((a - b) % Modulus) >= Half) /\ g.Z = (((a - b) % Modulus) = 0)
        /\ g.C = CarryOut(a, Not(b), 1) /\ g.V = Overflow(a, Not(b), 1)
    BY DEF Sub, NZCV, NZ, Flags
  <2>2. (a - b) % Modulus \in Int
    BY <1>1 DEF Modulus
  <2>3. CarryOut(a, Not(b), 1) \in BOOLEAN
    <3>1. Not(b) \in Word
      BY <1>1 DEF Not, Word, Modulus
    <3>2. QED
      BY <3>1, CarryIsBoolean
  <2>4. Overflow(a, Not(b), 1) \in BOOLEAN
    BY DEF Overflow
  <2>5. (((a - b) % Modulus) >= Half) \in BOOLEAN /\ (((a - b) % Modulus) = 0) \in BOOLEAN
    BY <1>1, <2>2
  <2>6. QED
    BY <2>1, <2>3, <2>4, <2>5
<1>3. /\ g.C <=> a >= b
      /\ g.Z <=> a = b
      /\ g.V <=> Signed(a) - Signed(b) \notin -Half .. Half - 1
      /\ g.N <=> (a - b) % Modulus >= Half
  BY CompareFlags
<1>4. (g.N = g.V) <=> Signed(a) >= Signed(b)
  <2>1. (a - b) % Modulus = IF a >= b THEN a - b ELSE a - b + Modulus
    BY <1>1 DEF Word, Modulus
  <2>2. ((g.N) <=> (g.V)) <=> Signed(a) >= Signed(b)
    BY <1>1, <1>3, <2>1 DEF Signed, Word, Modulus
  <2>3. QED
    BY <1>2, <2>2
<1>5. /\ (a = b) <=> (Signed(a) = Signed(b))
      /\ Signed(a) \in Int /\ Signed(b) \in Int
  BY <1>1 DEF Signed, Word, Modulus
<1>6. QED
  BY <1>1, <1>2, <1>3, <1>4, <1>5 DEF Holds

-----------------------------------------------------------------------------
(* Shifts. *)

\* A shift by n splits the word in the 2^n values of the bits on one side and the
\* 2^(W - n) of those on the other.
LEMMA SplitWord ==
  ASSUME NEW n \in 0 .. W
  PROVE  \E p, q \in Nat \ {0} : p = 2 ^ n /\ q = 2 ^ (W - n) /\ p * q = Modulus
<1>1. n \in Nat /\ W - n \in Nat /\ n + (W - n) = W
  BY WordSize
<1>2. 2 ^ (n + (W - n)) = 2 ^ n * 2 ^ (W - n)
  BY <1>1, PowerSum
<1>3. QED
  BY <1>1, <1>2, WordSize, PowerIsNatural

\* A shift by more than the word: 2^n is a multiple of its size.
LEMMA BeyondWord ==
  ASSUME NEW n \in Nat, n >= W
  PROVE  \E g \in Nat \ {0} : 2 ^ n = Modulus * g /\ (n > W => g % 2 = 0)
<1>1. PICK m \in Nat : n = W + m /\ W \in Nat
  <2>1. n - W \in Nat /\ n = W + (n - W) /\ W \in Nat
    BY WordSize
  <2>2. QED
    BY <2>1
<1>2. 2 ^ n = Modulus * 2 ^ m
  BY <1>1, PowerSum, WordSize
<1>3. n > W => 2 ^ m % 2 = 0
  <2>1. SUFFICES ASSUME n > W PROVE 2 ^ m % 2 = 0
    OBVIOUS
  <2>2. m # 0
    BY <1>1, <2>1
  <2>3. 2 ^ m = 2 * 2 ^ (m - 1) /\ 2 ^ (m - 1) \in Nat
    BY <2>2, PowerStep, PowerIsNatural
  <2>4. PICK h \in Nat : 2 ^ m = 2 * h
    BY <2>3
  <2>5. QED
    BY <2>4
<1>4. QED
  BY <1>1, <1>2, <1>3, PowerIsNatural

\* A shift by the whole word or more leaves nothing.
LEMMA QuotientIsZero ==
  ASSUME NEW x \in Word, NEW n \in Nat, n >= W
  PROVE  x \div 2 ^ n = 0
<1>1. PICK g \in Nat \ {0} : 2 ^ n = Modulus * g
  BY BeyondWord
<1>2. PICK p \in Nat \ {0} : p = 2 ^ n /\ p >= Modulus
  BY <1>1, WordSize
<1>3. x = p * 0 + x /\ x \in 0 .. p - 1 /\ x \in Int
  BY <1>2, WordSize DEF Word
<1>4. QED
  BY <1>2, <1>3, DivUnique

\* The top bit of a word.
LEMMA TopBit ==
  ASSUME NEW x \in Word
  PROVE  BitOf(x, W - 1) = IF x >= Half THEN 1 ELSE 0
<1>1. x \in 0 .. 2 * Half - 1 /\ Half \in Nat \ {0} /\ Half = 2 ^ (W - 1)
  BY HalfAssumption DEF Word, Modulus
<1>2. x \div Half = IF x >= Half THEN 1 ELSE 0
  <2>1. CASE x >= Half
    <3>1. x = Half * 1 + (x - Half) /\ x - Half \in 0 .. Half - 1 /\ x \in Int
      BY <1>1, <2>1
    <3>2. QED
      BY <1>1, <2>1, <3>1, DivUnique
  <2>2. CASE x < Half
    <3>1. x = Half * 0 + x /\ x \in 0 .. Half - 1 /\ x \in Int
      BY <1>1, <2>2
    <3>2. QED
      BY <1>1, <2>2, <3>1, DivUnique
  <2>3. QED
    BY <1>1, <2>1, <2>2
<1>3. QED
  BY <1>1, <1>2 DEF BitOf

\* A bit, as a truth value and back.
LEMMA BitIsOne ==
  ASSUME NEW b \in {0, 1}
  PROVE  (b = 1) \in BOOLEAN /\ AsBit(b = 1) = b
BY DEF AsBit

\* LSL multiplies, and its carry is the last bit that left the word.
LEMMA LslIsExact ==
  ASSUME NEW x \in Word, NEW n \in Nat \ {0}
  PROVE  /\ Lsl(x, n).r \in Word /\ Lsl(x, n).c \in BOOLEAN
         /\ Lsl(x, n).r = (x * 2 ^ n) % Modulus
         /\ AsBit(Lsl(x, n).c) = ((x * 2 ^ n) \div Modulus) % 2
<1>1. x \in Nat /\ W \in Nat \ {0} /\ Modulus \in Nat \ {0} /\ 2 ^ n \in Nat
  BY WordSize, PowerIsNatural DEF Word
<1>2. CASE n < W
  <2>1. PICK p, q \in Nat \ {0} : p = 2 ^ n /\ q = 2 ^ (W - n) /\ p * q = Modulus
    BY <1>1, <1>2, SplitWord
  <2>2. Lsl(x, n) = [r |-> (x * p) % Modulus, c |-> BitOf(x, W - n) = 1]
    BY <1>1, <1>2, <2>1 DEF Lsl
  <2>3. BitOf(x, W - n) = (x \div q) % 2
    BY <2>1 DEF BitOf
  <2>4. (x * p) \div Modulus = x \div q
    <3>1. x \in Int /\ (x * p) \div (p * q) = x \div q
      BY <1>1, DivCancel
    <3>2. QED
      BY <2>1, <3>1
  <2>5. BitOf(x, W - n) \in {0, 1}
    BY <1>1, <2>1, <2>3
  <2>6. (x * p) % Modulus \in Word
    BY <1>1, <2>1 DEF Word
  <2>7. Lsl(x, n).c \in BOOLEAN /\ AsBit(Lsl(x, n).c) = BitOf(x, W - n)
    BY <2>2, <2>5, BitIsOne
  <2>8. QED
    BY <2>1, <2>2, <2>3, <2>4, <2>6, <2>7
<1>3. CASE n = W
  <2>1. Lsl(x, n) = [r |-> 0, c |-> BitOf(x, 0) = 1]
    BY <1>1, <1>3 DEF Lsl
  <2>2. 2 ^ n = Modulus
    BY <1>3, WordSize
  <2>3. (x * Modulus) % Modulus = 0 /\ (x * Modulus) \div Modulus = x
    <3>1. x * Modulus = Modulus * x + 0 /\ 0 \in 0 .. Modulus - 1 /\ x * Modulus \in Int
      BY <1>1
    <3>2. QED
      BY <1>1, <3>1, DivUnique
  <2>4. BitOf(x, 0) = x % 2
    BY <1>1 DEF BitOf
  <2>5. x % 2 \in {0, 1} /\ 0 \in Word
    BY <1>1 DEF Word
  <2>6. Lsl(x, n).c \in BOOLEAN /\ AsBit(Lsl(x, n).c) = x % 2
    BY <2>1, <2>4, <2>5, BitIsOne
  <2>7. QED
    BY <2>1, <2>2, <2>3, <2>5, <2>6
<1>4. CASE n > W
  <2>1. Lsl(x, n) = [r |-> 0, c |-> FALSE]
    BY <1>1, <1>4 DEF Lsl
  <2>2. PICK g \in Nat \ {0} : 2 ^ n = Modulus * g /\ g % 2 = 0
    BY <1>1, <1>4, BeyondWord
  <2>3. (x * 2 ^ n) % Modulus = 0 /\ (x * 2 ^ n) \div Modulus = x * g
    <3>1. x * 2 ^ n = Modulus * (x * g) + 0
      BY <1>1, <2>2
    <3>2. 0 \in 0 .. Modulus - 1 /\ x * 2 ^ n \in Int /\ x * g \in Int
      BY <1>1
    <3>3. QED
      BY <1>1, <3>1, <3>2, DivUnique
  <2>4. (x * g) % 2 = 0
    <3>1. PICK h \in Int : g = 2 * h
      BY <2>2, DivExists
    <3>2. PICK e \in Int : e = x * h /\ x * g = 2 * e
      BY <1>1, <3>1
    <3>3. QED
      BY <3>2
  <2>5. 0 \in Word
    BY <1>1 DEF Word
  <2>6. QED
    BY <2>1, <2>3, <2>4, <2>5 DEF AsBit
<1>5. QED
  BY <1>1, <1>2, <1>3, <1>4

\* LSR divides by the power of two, and its carry is the last bit that left.
LEMMA LsrIsExact ==
  ASSUME NEW x \in Word, NEW n \in Nat \ {0}
  PROVE  /\ Lsr(x, n).r \in Word /\ Lsr(x, n).c \in BOOLEAN
         /\ Lsr(x, n).r = x \div 2 ^ n
         /\ AsBit(Lsr(x, n).c) = BitOf(x, n - 1)
<1>1. /\ x \in Nat /\ x < Modulus /\ W \in Nat \ {0} /\ Modulus \in Nat \ {0}
      /\ n - 1 \in Nat /\ 0 \in Word
  BY WordSize DEF Word
<1>2. CASE n < W
  <2>1. Lsr(x, n) = [r |-> x \div 2 ^ n, c |-> BitOf(x, n - 1) = 1]
    BY <1>1, <1>2 DEF Lsr
  <2>2. x \div 2 ^ n \in Word
    <3>1. PICK p \in Nat \ {0} : p = 2 ^ n
      BY PowerIsNatural
    <3>2. x \div p \in 0 .. x
      BY <1>1
    <3>3. QED
      BY <1>1, <3>1, <3>2 DEF Word
  <2>3. BitOf(x, n - 1) \in {0, 1}
    BY <1>1, BitType
  <2>4. Lsr(x, n).c \in BOOLEAN /\ AsBit(Lsr(x, n).c) = BitOf(x, n - 1)
    BY <2>1, <2>3, BitIsOne
  <2>5. QED
    BY <2>1, <2>2, <2>4
<1>3. CASE n = W
  <2>1. Lsr(x, n) = [r |-> 0, c |-> x >= Half]
    BY <1>1, <1>3 DEF Lsr
  <2>2. x \div 2 ^ n = 0
    <3>1. x = Modulus * 0 + x /\ x \in 0 .. Modulus - 1 /\ x \in Int
      BY <1>1
    <3>2. x \div Modulus = 0
      BY <1>1, <3>1, DivUnique
    <3>3. QED
      BY <1>3, <3>2, WordSize
  <2>3. (x >= Half) \in BOOLEAN /\ AsBit(x >= Half) = BitOf(x, W - 1)
    BY <1>1, WordSize, TopBit DEF AsBit
  <2>4. QED
    BY <1>1, <1>3, <2>1, <2>2, <2>3
<1>4. CASE n > W
  <2>1. Lsr(x, n) = [r |-> 0, c |-> FALSE]
    BY <1>1, <1>4 DEF Lsr
  <2>2. x \div 2 ^ n = 0
    BY <1>1, <1>4, QuotientIsZero
  <2>3. x \div 2 ^ (n - 1) = 0
    BY <1>1, <1>4, QuotientIsZero
  <2>4. BitOf(x, n - 1) = 0
    BY <2>3 DEF BitOf
  <2>5. Lsr(x, n).r = 0 /\ Lsr(x, n).c = FALSE /\ AsBit(Lsr(x, n).c) = 0
    BY <2>1 DEF AsBit
  <2>6. QED
    BY <1>1, <2>2, <2>4, <2>5
<1>5. QED
  BY <1>1, <1>2, <1>3, <1>4

\* ASR divides the signed number, rounding down.
LEMMA AsrIsExact ==
  ASSUME NEW x \in Word, NEW n \in Nat \ {0}
  PROVE  /\ Asr(x, n).r \in Word /\ Asr(x, n).c \in BOOLEAN
         /\ Signed(Asr(x, n).r) = Signed(x) \div 2 ^ n
         /\ AsBit(Asr(x, n).c) = (Signed(x) \div 2 ^ (n - 1)) % 2
<1>1. /\ x \in Nat /\ x < Modulus /\ W \in Nat \ {0} /\ Modulus \in Nat \ {0}
      /\ n - 1 \in Nat /\ Half \in Nat \ {0} /\ Modulus = 2 * Half
  BY WordSize DEF Word, Modulus
<1>2. CASE n < W
  <2>1. Asr(x, n) = [r |-> (x \div 2 ^ n) + (IF x >= Half THEN Modulus - 2 ^ (W - n) ELSE 0),
                     c |-> BitOf(x, n - 1) = 1]
    BY <1>1, <1>2 DEF Asr
  <2>2. PICK p, q \in Nat \ {0} : p = 2 ^ n /\ q = 2 ^ (W - n) /\ p * q = Modulus
    BY <1>1, <1>2, SplitWord
  <2>3. PICK h \in Nat \ {0} : h = 2 ^ (n - 1) /\ p = 2 * h
    BY <1>1, <2>2, PowerStep, PowerIsNatural
  <2>4. Half = h * q
    BY <1>1, <2>2, <2>3
  <2>5. BitOf(x, n - 1) \in {0, 1} /\ BitOf(x, n - 1) = (x \div h) % 2
    BY <1>1, <2>3, BitType DEF BitOf
  <2>6. Asr(x, n).c \in BOOLEAN /\ AsBit(Asr(x, n).c) = (x \div h) % 2
    BY <2>1, <2>5, BitIsOne
  <2>7. PICK d \in Int, e \in Int : d = x \div p /\ e = x \div h
    BY <1>1
  <2>8. d \in 0 .. q - 1 /\ d <= x
    <3>1. x < p * q /\ x \in Nat
      BY <1>1, <2>2
    <3>2. d \in 0 .. q - 1
      BY <2>7, <3>1, DivBound
    <3>3. d <= x
      BY <1>1, <2>7
    <3>4. QED
      BY <3>2, <3>3
  <2>9. q <= Half
    BY <2>3, <2>4
  <2>10. CASE x >= Half
    <3>1. Asr(x, n).r = d + Modulus - q
      BY <1>1, <2>1, <2>2, <2>7, <2>8, <2>10
    <3>2. Asr(x, n).r \in Word /\ Asr(x, n).r >= Half
      BY <1>1, <2>8, <2>9, <3>1 DEF Word
    <3>3. Signed(Asr(x, n).r) = d - q
      BY <1>1, <2>8, <3>1, <3>2 DEF Signed
    <3>4. Signed(x) = x - Modulus
      BY <2>10 DEF Signed
    <3>5. (x - Modulus) \div p = d - q
      <4>1. x - Modulus = x + p * (- q)
        BY <1>1, <2>2
      <4>2. (x + p * (- q)) \div p = (x \div p) + (- q)
        BY <1>1, DivShift
      <4>3. QED
        BY <2>7, <4>1, <4>2
    <3>6. (x - Modulus) \div h = e - 2 * q
      <4>1. x - Modulus = x + h * (- (2 * q))
        BY <1>1, <2>4
      <4>2. (x + h * (- (2 * q))) \div h = (x \div h) + (- (2 * q))
        BY <1>1, DivShift
      <4>3. QED
        BY <2>7, <4>1, <4>2
    <3>7. (e - 2 * q) % 2 = e % 2
      OBVIOUS
    <3>8. QED
      BY <2>2, <2>3, <2>6, <2>7, <3>2, <3>3, <3>4, <3>5, <3>6, <3>7
  <2>11. CASE x < Half
    <3>1. Asr(x, n).r = d
      BY <1>1, <2>1, <2>2, <2>7, <2>8, <2>11
    <3>2. d \in Word /\ d < Half
      BY <1>1, <2>8, <2>11 DEF Word
    <3>3. Signed(d) = d /\ Signed(x) = x
      BY <1>1, <2>11, <3>2 DEF Signed
    <3>4. QED
      BY <2>2, <2>3, <2>6, <2>7, <3>1, <3>2, <3>3
  <2>12. QED
    BY <1>1, <2>10, <2>11
<1>3. CASE n >= W
  <2>1. Asr(x, n) = [r |-> IF x >= Half THEN Modulus - 1 ELSE 0, c |-> x >= Half]
    BY <1>1, <1>3 DEF Asr
  <2>2. PICK g \in Nat \ {0} : 2 ^ n = Modulus * g
    BY <1>1, <1>3, BeyondWord
  <2>3. PICK p \in Nat \ {0}, h \in Nat \ {0} : p = 2 ^ n /\ h = 2 ^ (n - 1) /\ p = 2 * h
    BY <1>1, PowerStep, PowerIsNatural
  <2>4. p >= Modulus /\ h >= Half
    BY <1>1, <2>2, <2>3
  <2>5. CASE x >= Half
    <3>1. Asr(x, n).r = Modulus - 1 /\ Asr(x, n).c = TRUE
      <4>1. Asr(x, n).r = (IF x >= Half THEN Modulus - 1 ELSE 0) /\ Asr(x, n).c = (x >= Half)
        BY <2>1
      <4>2. (x >= Half) = TRUE
        BY <2>5
      <4>3. QED
        BY <2>5, <4>1, <4>2
    <3>2. Modulus - 1 \in Word /\ Modulus - 1 >= Half
      BY <1>1 DEF Word
    <3>3. PICK y \in Int : y = x - Modulus /\ -Half <= y /\ y < 0
      BY <1>1, <2>5
    <3>4. Signed(Modulus - 1) = -1 /\ Signed(x) = y
      BY <1>1, <2>5, <3>2, <3>3 DEF Signed
    <3>5. y \div p = -1
      <4>1. y = p * (-1) + (y + p) /\ y + p \in 0 .. p - 1
        BY <1>1, <2>4, <3>3
      <4>2. QED
        BY <4>1, DivUnique
    <3>6. y \div h = -1
      <4>1. y = h * (-1) + (y + h) /\ y + h \in 0 .. h - 1
        BY <1>1, <2>4, <3>3
      <4>2. QED
        BY <4>1, DivUnique
    <3>7. (-1) % 2 = 1
      <4>1. PICK z \in Int, d \in Int, t \in 0 .. 1, m \in Nat \ {0} :
              z = -1 /\ d = -1 /\ t = 1 /\ m = 2 /\ z = m * d + t /\ t \in 0 .. m - 1
        OBVIOUS
      <4>2. z \in Int /\ d \in Int /\ m \in Nat \ {0} /\ t \in 0 .. m - 1 /\ z = m * d + t
        BY <4>1
      <4>3. z % m = t
        BY ONLY <4>2, DivUnique
      <4>4. QED
        BY <4>1, <4>3
    <3>8. QED
      BY <2>3, <3>1, <3>2, <3>4, <3>5, <3>6, <3>7 DEF AsBit
  <2>6. CASE x < Half
    <3>1. Asr(x, n).r = 0 /\ Asr(x, n).c = FALSE
      <4>1. Asr(x, n).r = (IF x >= Half THEN Modulus - 1 ELSE 0) /\ Asr(x, n).c = (x >= Half)
        BY <2>1
      <4>2. (x >= Half) = FALSE
        BY <1>1, <2>6
      <4>3. QED
        BY <4>1, <4>2
    <3>2. 0 \in Word /\ Signed(0) = 0 /\ Signed(x) = x
      BY <1>1, <2>6 DEF Word, Signed
    <3>3. x \div p = 0
      <4>1. x = p * 0 + x /\ x \in 0 .. p - 1
        BY <1>1, <2>4, <2>6
      <4>2. QED
        BY <1>1, <4>1, DivUnique
    <3>4. x \div h = 0
      <4>1. x = h * 0 + x /\ x \in 0 .. h - 1
        BY <1>1, <2>4, <2>6
      <4>2. QED
        BY <1>1, <4>1, DivUnique
    <3>5. AsBit(Asr(x, n).c) = 0 /\ 0 % 2 = 0
      BY <3>1 DEF AsBit
    <3>6. QED
      BY <2>3, <3>1, <3>2, <3>3, <3>4, <3>5
  <2>7. QED
    BY <1>1, <2>5, <2>6
<1>4. QED
  BY <1>1, <1>2, <1>3

\* ROR moves every bit n places down, round the end of the word, and its carry is
\* the bit that arrives at the top.
LEMMA RorIsExact ==
  ASSUME NEW x \in Word, NEW n \in Nat \ {0}
  PROVE  /\ Ror(x, n).r \in Word /\ Ror(x, n).c \in BOOLEAN
         /\ \A k \in BitPositions : BitOf(Ror(x, n).r, k) = BitOf(x, (k + n) % W)
         /\ Ror(x, n).c = (Ror(x, n).r >= Half)
<1>1. /\ x \in Nat /\ x < Modulus /\ W \in Nat \ {0} /\ Modulus \in Nat \ {0}
      /\ Half \in Nat \ {0}
  BY WordSize DEF Word
<1>2. PICK k \in 0 .. W - 1, m \in Int : k = n % W /\ n = W * m + k
  <2>1. n \in Int /\ W \in Nat \ {0}
    BY <1>1
  <2>2. n \div W \in Int /\ n % W \in 0 .. W - 1 /\ n = W * (n \div W) + (n % W)
    BY ONLY <2>1, DivExists
  <2>3. QED
    BY <2>2
\* The place a bit comes from.
<1>3. ASSUME NEW j \in 0 .. W - 1
      PROVE  (j + n) % W = IF j + k < W THEN j + k ELSE j + k - W
  <2>1. CASE j + k < W
    <3>1. PICK z \in Int, i \in 0 .. W - 1 : z = j + n /\ i = j + k /\ z = W * m + i
      BY <1>1, <1>2, <2>1
    <3>2. z \in Int /\ m \in Int /\ i \in 0 .. W - 1 /\ W \in Nat \ {0} /\ z = W * m + i
      BY <1>1, <3>1
    <3>3. z % W = i
      BY ONLY <3>2, DivUnique
    <3>4. QED
      BY <2>1, <3>1, <3>3
  <2>2. CASE j + k >= W
    <3>1. PICK z \in Int, i \in 0 .. W - 1, e \in Int :
            z = j + n /\ i = j + k - W /\ e = m + 1
      <4>1. j + n \in Int /\ j + k - W \in 0 .. W - 1 /\ m + 1 \in Int
        BY <1>1, <1>2, <2>2
      <4>2. QED
        BY <4>1
    <3>2. W * e = W * m + W
      BY <1>1, <3>1
    <3>3. z = W * e + i
      BY <1>1, <1>2, <3>1, <3>2
    <3>4. z \in Int /\ e \in Int /\ i \in 0 .. W - 1 /\ W \in Nat \ {0}
      BY <1>1, <3>1
    <3>5. z % W = i
      BY ONLY <3>3, <3>4, DivUnique
    <3>6. QED
      BY <1>1, <2>2, <3>1, <3>5
  <2>3. QED
    BY <1>1, <2>1, <2>2
<1>4. CASE k = 0
  <2>1. Ror(x, n) = [r |-> x, c |-> x >= Half]
    BY <1>2, <1>4 DEF Ror
  <2>2. Ror(x, n).r = x /\ Ror(x, n).c = (x >= Half) /\ (x >= Half) \in BOOLEAN
    BY <1>1, <2>1
  <2>3. ASSUME NEW j \in BitPositions PROVE (j + n) % W = j
    <3>1. j \in 0 .. W - 1 /\ j + k < W /\ j + k = j
      BY <1>1, <1>4 DEF BitPositions
    <3>2. QED
      BY <1>3, <3>1
  <2>4. QED
    BY <2>2, <2>3
<1>5. CASE k # 0
  <2>1. PICK p, q \in Nat \ {0} : p = 2 ^ k /\ q = 2 ^ (W - k) /\ p * q = Modulus
    BY <1>1, <1>2, SplitWord
  <2>2. PICK d \in Int, s \in 0 .. p - 1 : d = x \div p /\ s = x % p /\ x = p * d + s
    <3>1. x \in Int
      BY <1>1
    <3>2. x \div p \in Int /\ x % p \in 0 .. p - 1 /\ x = p * (x \div p) + (x % p)
      BY <3>1, DivExists
    <3>3. QED
      BY <3>2
  <2>3. d \in 0 .. q - 1
    <3>1. x < p * q
      BY <1>1, <2>1
    <3>2. QED
      BY <1>1, <2>2, <3>1, DivBound
  <2>4. PICK y \in Int : y = d + q * s
    BY <2>1, <2>2, <2>3
  <2>5. (x * q) % Modulus = s * q
    <3>1. (x * q) % (q * p) = (x % p) * q
      <4>1. x \in Int
        BY <1>1
      <4>2. QED
        BY <4>1, DivCancel
    <3>2. q * p = Modulus
      BY <2>1
    <3>3. QED
      BY <2>2, <3>1, <3>2
  <2>6. Ror(x, n).r = y /\ Ror(x, n).c = (BitOf(x, k - 1) = 1)
    <3>1. Ror(x, n) = [r |-> (x \div 2 ^ k) + ((x * 2 ^ (W - k)) % Modulus),
                       c |-> BitOf(x, k - 1) = 1]
      BY <1>2, <1>5 DEF Ror
    <3>2. Ror(x, n).r = d + s * q
      BY <2>1, <2>2, <2>5, <3>1
    <3>3. QED
      BY <2>2, <2>3, <2>4, <3>1, <3>2
  <2>7. y \in Word
    <3>1. q * s >= 0 /\ q * s <= q * (p - 1)
      BY <2>2
    <3>2. q * (p - 1) = Modulus - q
      BY <2>1
    <3>3. QED
      BY <1>1, <2>3, <2>4, <3>1, <3>2 DEF Word
  <2>8. ASSUME NEW j \in 0 .. W - 1 PROVE BitOf(y, j) = BitOf(x, (j + n) % W)
    <3>1. CASE j + k < W
      <4>1. W - k \in Nat /\ j \in 0 .. (W - k) - 1
        BY <1>1, <3>1
      <4>2. BitOf(d + 2 ^ (W - k) * s, j) = BitOf(d, j)
        BY <2>2, <4>1, LowBitsStay
      <4>3. BitOf(y, j) = BitOf(d, j)
        BY <2>1, <2>4, <4>2
      <4>4. PICK t \in Nat \ {0} : t = 2 ^ j /\ 2 ^ (k + j) = p * t
        BY <2>1, PowerSum, PowerIsNatural
      <4>5. x \div (p * t) = d \div t
        <5>1. x \in Int
          BY <1>1
        <5>2. x \div (p * t) = (x \div p) \div t
          BY <5>1, DivTwice
        <5>3. QED
          BY <2>2, <5>2
      <4>6. BitOf(x, k + j) = BitOf(d, j)
        BY <4>4, <4>5 DEF BitOf
      <4>7. (j + n) % W = k + j
        BY <1>3, <3>1
      <4>8. QED
        BY <4>3, <4>6, <4>7
    <3>2. CASE j + k >= W
      <4>1. PICK i \in 0 .. k - 1, h \in Nat : i = j + k - W /\ h = W - k /\ j = h + i
        <5>1. j + k - W \in 0 .. k - 1 /\ W - k \in Nat /\ j = (W - k) + (j + k - W)
          BY <1>1, <3>2
        <5>2. QED
          BY <5>1
      <4>2. y \div q = s
        <5>1. y = q * s + d /\ s \in Int
          BY <2>2, <2>3, <2>4
        <5>2. QED
          BY <2>3, <5>1, DivUnique
      <4>3. PICK t \in Nat \ {0} : t = 2 ^ i /\ 2 ^ (h + i) = q * t
        <5>1. i \in Nat /\ 2 ^ h = q
          BY <2>1, <4>1
        <5>2. 2 ^ (h + i) = 2 ^ h * 2 ^ i
          BY <5>1, PowerSum
        <5>3. QED
          BY <5>1, <5>2, PowerIsNatural
      <4>4. y \div (q * t) = s \div t
        BY <4>2, DivTwice
      <4>5. BitOf(y, j) = BitOf(s, i)
        BY <4>1, <4>3, <4>4 DEF BitOf
      <4>6. BitOf(s + 2 ^ k * d, i) = BitOf(s, i)
        <5>1. k \in Nat /\ s \in Int /\ i \in 0 .. k - 1 /\ d \in Int
          BY <2>2
        <5>2. \A u \in Nat : \A v \in 0 .. u - 1 : \A z, b \in Int : BitOf(z + 2 ^ u * b, v) = BitOf(z, v)
          BY LowBitsStay
        <5>3. \A v \in 0 .. k - 1 : \A z, b \in Int : BitOf(z + 2 ^ k * b, v) = BitOf(z, v)
          BY <5>1, <5>2
        <5>4. \A z, b \in Int : BitOf(z + 2 ^ k * b, i) = BitOf(z, i)
          BY <5>1, <5>3
        <5>5. QED
          BY <5>1, <5>4
      <4>7. x = s + 2 ^ k * d
        BY <2>1, <2>2
      <4>8. (j + n) % W = i
        BY <1>1, <1>3, <3>2, <4>1
      <4>9. QED
        BY <4>5, <4>6, <4>7, <4>8
    <3>3. QED
      BY <1>1, <3>1, <3>2
  <2>9. (BitOf(x, k - 1) = 1) = (y >= Half) /\ (y >= Half) \in BOOLEAN
    <3>1. PICK j \in 0 .. W - 1 : j = W - 1
      BY <1>1
    <3>2. (j + n) % W = k - 1
      BY <1>1, <1>2, <1>3, <1>5, <3>1
    <3>3. BitOf(y, W - 1) = BitOf(x, k - 1)
      BY <2>8, <3>1, <3>2
    <3>4. BitOf(y, W - 1) = IF y >= Half THEN 1 ELSE 0
      BY <2>7, TopBit
    <3>5. (y >= Half) \in BOOLEAN
      BY <1>1
    <3>6. QED
      BY <3>3, <3>4, <3>5
  <2>10. \A j \in BitPositions : BitOf(y, j) = BitOf(x, (j + n) % W)
    BY <2>8 DEF BitPositions
  <2>11. QED
    BY <2>6, <2>7, <2>9, <2>10
<1>6. QED
  BY <1>4, <1>5

\* The shifts of a word by any amount but zero are exact: LSL multiplies, LSR and ASR
\* divide, unsigned and signed, and round down, ROR moves the bits round, and the
\* carry is the last bit that left the word.
THEOREM ShiftsOfWordsAreExact ==
  ASSUME NEW x \in Word, NEW n \in Nat \ {0}, NEW f \in Flags
  PROVE  /\ LET left == Shift("lsl", x, n, f)
            IN  /\ left.r = (x * 2 ^ n) % Modulus
                /\ AsBit(left.f.C) = ((x * 2 ^ n) \div Modulus) % 2
         /\ LET right == Shift("lsr", x, n, f)
            IN  right.r = x \div 2 ^ n /\ AsBit(right.f.C) = BitOf(x, n - 1)
         /\ LET signed == Shift("asr", x, n, f)
            IN  /\ Signed(signed.r) = Signed(x) \div 2 ^ n
                /\ AsBit(signed.f.C) = (Signed(x) \div 2 ^ (n - 1)) % 2
         /\ LET round == Shift("ror", x, n, f)
            IN  /\ \A k \in BitPositions : BitOf(round.r, k) = BitOf(x, (k + n) % W)
                /\ round.f.C = (round.r >= Half)
<1>1. ASSUME NEW op \in ShiftOps
      PROVE  /\ Shift(op, x, n, f).r = ShiftBy(op, x, n).r
             /\ Shift(op, x, n, f).f.C = ShiftBy(op, x, n).c
  BY DEF Shift, NZ, Flags
<1>2. /\ ShiftBy("lsl", x, n) = Lsl(x, n) /\ ShiftBy("lsr", x, n) = Lsr(x, n)
      /\ ShiftBy("asr", x, n) = Asr(x, n) /\ ShiftBy("ror", x, n) = Ror(x, n)
  BY DEF ShiftBy
<1>3. {"lsl", "lsr", "asr", "ror"} = ShiftOps
  BY DEF ShiftOps
<1>4. /\ Shift("lsl", x, n, f).r = Lsl(x, n).r /\ Shift("lsl", x, n, f).f.C = Lsl(x, n).c
      /\ Shift("lsr", x, n, f).r = Lsr(x, n).r /\ Shift("lsr", x, n, f).f.C = Lsr(x, n).c
      /\ Shift("asr", x, n, f).r = Asr(x, n).r /\ Shift("asr", x, n, f).f.C = Asr(x, n).c
      /\ Shift("ror", x, n, f).r = Ror(x, n).r /\ Shift("ror", x, n, f).f.C = Ror(x, n).c
  BY <1>1, <1>2, <1>3
<1>5. QED
  BY Zenon, <1>4, LslIsExact, LsrIsExact, AsrIsExact, RorIsExact

-----------------------------------------------------------------------------
(* Types. *)

\* The flags that every operation leaves are flags.
LEMMA FlagsType ==
  ASSUME NEW f \in Flags, NEW x \in Int, NEW c \in BOOLEAN, NEW v \in BOOLEAN
  PROVE  /\ NZ(f, x) \in Flags
         /\ [NZ(f, x) EXCEPT !.C = c] \in Flags
         /\ [NZ(f, x) EXCEPT !.C = c, !.V = v] \in Flags
<1>1. (x >= Half) \in BOOLEAN /\ (x = 0) \in BOOLEAN
  BY WordSize
<1>2. QED
  BY <1>1 DEF NZ, Flags

\* Those of an addition.
LEMMA SumFlagsType ==
  ASSUME NEW f \in Flags, NEW x \in Int, NEW a \in Word, NEW b \in Word, NEW c \in {0, 1}
  PROVE  NZCV(f, x, a, b, c) \in Flags
<1>1. CarryOut(a, b, c) \in BOOLEAN /\ Overflow(a, b, c) \in BOOLEAN
  BY CarryIsBoolean DEF Overflow
<1>2. QED
  BY <1>1, FlagsType DEF NZCV

\* A shift by any amount leaves a word.
LEMMA ShiftType ==
  ASSUME NEW op \in ShiftOps, NEW x \in Word, NEW n \in Nat, NEW f \in Flags
  PROVE  Shift(op, x, n, f).r \in Word /\ Shift(op, x, n, f).f \in Flags
<1>1. x \in Int /\ \A y \in Word : y \in Int
  BY DEF Word
<1>2. CASE n = 0
  BY <1>1, <1>2, FlagsType DEF Shift, OnlyNZ
<1>3. CASE n # 0
  <2>1. PICK s : s = ShiftBy(op, x, n)
    OBVIOUS
  <2>2. s.r \in Word /\ s.c \in BOOLEAN
    <3>1. n \in Nat \ {0}
      BY <1>3
    <3>2. QED
      BY <2>1, <3>1, LslIsExact, LsrIsExact, AsrIsExact, RorIsExact DEF ShiftBy, ShiftOps
  <2>3. Shift(op, x, n, f) = [r |-> s.r, f |-> [NZ(f, s.r) EXCEPT !.C = s.c]]
    BY <1>3, <2>1 DEF Shift
  <2>4. PICK r \in Word, c \in BOOLEAN : r = s.r /\ c = s.c
    BY <2>2
  <2>5. [NZ(f, r) EXCEPT !.C = c] \in Flags
    BY <1>1, FlagsType
  <2>6. QED
    BY <2>3, <2>4, <2>5
<1>4. QED
  BY <1>2, <1>3

\* The names of the operations are different.
LEMMA AluByName ==
  ASSUME NEW op, NEW a, NEW b, NEW f
  PROVE  /\ op \in {"add", "cmn"} => Alu(op, a, b, f) = Add(a, b, f)
         /\ op \in {"sub", "cmp"} => Alu(op, a, b, f) = Sub(a, b, f)
         /\ op = "adc" => Alu(op, a, b, f) = Adc(a, b, f)
         /\ op = "sbc" => Alu(op, a, b, f) = Sbc(a, b, f)
         /\ op = "neg" => Alu(op, a, b, f) = Sub(0, b, f)
         /\ op = "mul" => Alu(op, a, b, f) = OnlyNZ((a * b) % Modulus, f)
         /\ op = "mov" => Alu(op, a, b, f) = OnlyNZ(b, f)
         /\ op \in LogicOps => Alu(op, a, b, f) = OnlyNZ(Logic(op, a, b), f)
         /\ op \in ShiftOps => Alu(op, a, b, f) = Shift(op, a, b % 2 ^ 8, f)
<1>1. CASE op \in {"add", "cmn"}
  BY <1>1 DEF Alu, LogicOps, ShiftOps
<1>2. CASE op \in {"sub", "cmp"}
  BY <1>2 DEF Alu, LogicOps, ShiftOps
<1>3. CASE op \in {"adc", "sbc", "neg"}
  BY <1>3 DEF Alu, LogicOps, ShiftOps
<1>4. CASE op \in {"mul", "mov"}
  BY <1>4 DEF Alu, LogicOps, ShiftOps
<1>5. CASE op \in LogicOps
  BY <1>5 DEF Alu, LogicOps, ShiftOps
<1>6. CASE op \in ShiftOps
  BY <1>6 DEF Alu, LogicOps, ShiftOps
<1>7. QED
  BY <1>1, <1>2, <1>3, <1>4, <1>5, <1>6

\* Every operation leaves a word and flags; the amount of a shift may be more than a
\* word holds.
LEMMA AluType ==
  ASSUME NEW op \in LogicOps \cup ArithmeticOps \cup ShiftOps,
         NEW a \in Word, NEW b \in Nat, op \in ShiftOps \/ b \in Word, NEW f \in Flags
  PROVE  Alu(op, a, b, f).r \in Word /\ Alu(op, a, b, f).f \in Flags
<1>0. /\ Modulus \in Nat \ {0} /\ a \in Int /\ b \in Int /\ 0 \in Word
      /\ \A y \in Word : y \in Int
      /\ \A y \in Word : Not(y) \in Word
      /\ \A x \in Int : x % Modulus \in Word
  BY WordSize DEF Word, Not
<1>1. AsBit(f.C) \in {0, 1} /\ 0 \in {0, 1} /\ 1 \in {0, 1}
  BY DEF AsBit
<1>2. ASSUME NEW y \in Word, NEW z \in Word
      PROVE  /\ Add(y, z, f).r \in Word /\ Add(y, z, f).f \in Flags
             /\ Sub(y, z, f).r \in Word /\ Sub(y, z, f).f \in Flags
             /\ Adc(y, z, f).r \in Word /\ Adc(y, z, f).f \in Flags
             /\ Sbc(y, z, f).r \in Word /\ Sbc(y, z, f).f \in Flags
  <2>1. PICK c \in {0, 1} : c = AsBit(f.C)
    BY <1>1
  <2>2. /\ (y + z) % Modulus \in Word /\ (y - z) % Modulus \in Word
        /\ (y + z + c) % Modulus \in Word /\ (y - z - (1 - c)) % Modulus \in Word
    <3>1. /\ y + z \in Int /\ y - z \in Int
          /\ y + z + c \in Int /\ y - z - (1 - c) \in Int
      BY <1>0
    <3>2. QED
      BY <1>0, <3>1
  <2>3. /\ Add(y, z, f).r \in Word /\ Add(y, z, f).f \in Flags
    BY <1>0, <2>2, SumFlagsType DEF Add
  <2>4. /\ Sub(y, z, f).r \in Word /\ Sub(y, z, f).f \in Flags
    BY <1>0, <2>2, SumFlagsType DEF Sub
  <2>5. /\ Adc(y, z, f).r \in Word /\ Adc(y, z, f).f \in Flags
    BY <1>0, <2>1, <2>2, SumFlagsType DEF Adc
  <2>6. /\ Sbc(y, z, f).r \in Word /\ Sbc(y, z, f).f \in Flags
    BY <1>0, <2>1, <2>2, SumFlagsType DEF Sbc
  <2>7. QED
    BY <2>3, <2>4, <2>5, <2>6
<1>3. ASSUME NEW y \in Word PROVE OnlyNZ(y, f).r \in Word /\ OnlyNZ(y, f).f \in Flags
  BY <1>0, FlagsType DEF OnlyNZ
<1>4. CASE op \in {"add", "cmn", "sub", "cmp", "adc", "sbc", "neg"}
  <2>1. b \in Word
    BY <1>4 DEF ShiftOps
  <2>2. /\ op \in {"add", "cmn"} => Alu(op, a, b, f) = Add(a, b, f)
        /\ op \in {"sub", "cmp"} => Alu(op, a, b, f) = Sub(a, b, f)
        /\ op = "adc" => Alu(op, a, b, f) = Adc(a, b, f)
        /\ op = "sbc" => Alu(op, a, b, f) = Sbc(a, b, f)
        /\ op = "neg" => Alu(op, a, b, f) = Sub(0, b, f)
    BY AluByName
  <2>3. QED
    BY <1>0, <1>2, <1>4, <2>1, <2>2
<1>5. CASE op \in {"mul", "mov"}
  <2>1. b \in Word /\ (a * b) % Modulus \in Word
    BY <1>0, <1>5 DEF ShiftOps
  <2>2. Alu(op, a, b, f) = OnlyNZ((a * b) % Modulus, f) \/ Alu(op, a, b, f) = OnlyNZ(b, f)
    BY <1>5, AluByName
  <2>3. QED
    BY <1>3, <2>1, <2>2
<1>6. CASE op \in LogicOps
  <2>1. b \in Word /\ Logic(op, a, b) \in Word
    BY <1>6, LogicIsExact DEF ShiftOps, LogicOps
  <2>2. Alu(op, a, b, f) = OnlyNZ(Logic(op, a, b), f)
    BY <1>6, AluByName
  <2>3. QED
    BY <1>3, <2>1, <2>2
<1>7. CASE op \in ShiftOps
  <2>1. PICK m \in Nat : m = b % 2 ^ 8
    <3>1. 2 ^ 8 \in Nat \ {0}
      BY PowerIsNatural
    <3>2. QED
      BY <3>1
  <2>2. Alu(op, a, b, f) = Shift(op, a, m, f)
    BY <1>7, <2>1, AluByName
  <2>3. QED
    BY <1>7, <2>2, ShiftType
<1>8. QED
  BY <1>4, <1>5, <1>6, <1>7 DEF ArithmeticOps
=============================================================================
