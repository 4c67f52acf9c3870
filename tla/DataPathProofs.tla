--------------------------- MODULE DataPathProofs ----------------------------
(***************************************************************************)
(* Proofs about DataPath, for words of every width, any registers and      *)
(* numbers of any number of words.                                         *)
(***************************************************************************)
EXTENDS DataPath, ThumbALUProofs

-----------------------------------------------------------------------------
(* One more word of a wide number. *)

\* n words have Modulus times the values of n - 1.
LEMMA Spans ==
  /\ Span(0) = 1 /\ Span(1) = Modulus
  /\ \A n \in Nat : Span(n) \in Nat \ {0} /\ Span(n + 1) = Span(n) * Modulus
<1>1. W \in Nat /\ Modulus = 2 ^ W /\ Modulus \in Nat
  BY WordSize
<1>2. W * 0 = 0 /\ W * 1 = W /\ 2 ^ 0 = 1
  BY <1>1
<1>3. ASSUME NEW n \in Nat
      PROVE  Span(n) \in Nat \ {0} /\ Span(n + 1) = Span(n) * Modulus
  <2>1. PICK k \in Nat : k = W * n
    BY <1>1
  <2>2. W * (n + 1) = k + W
    BY <1>1, <2>1
  <2>3. 2 ^ (k + W) = 2 ^ k * 2 ^ W /\ 2 ^ k \in Nat \ {0}
    BY <1>1, PowerSum, PowerIsNatural
  <2>4. QED
    BY <1>1, <2>1, <2>2, <2>3 DEF Span
<1>4. QED
  BY <1>1, <1>2, <1>3 DEF Span

\* The top word of a number tells its sign, and weighs as much as the words below.
LEMMA TopWord ==
  ASSUME NEW m \in Nat \ {0}, NEW x \in 0 .. m - 1, NEW a \in Word
  PROVE  /\ x + m * a \in 0 .. m * Modulus - 1
         /\ SignedIn(x + m * a, m * Modulus) = x + m * Signed(a)
         /\ 2 * (x + m * a) >= m * Modulus <=> a >= Half
         /\ Signed(a) \in Int /\ m * Modulus \in Nat
<1>1. Half \in Nat \ {0} /\ Modulus = 2 * Half /\ a \in 0 .. 2 * Half - 1
  BY HalfAssumption DEF Word, Modulus
<1>2. PICK h \in Nat, p \in Nat : h = m * Half /\ p = m * a
  BY <1>1
<1>3. m * Modulus = 2 * h
  BY <1>1, <1>2
<1>4. CASE a < Half
  <2>1. p + m <= h
    <3>1. PICK e \in Nat : Half = a + 1 + e
      BY <1>1, <1>4
    <3>2. PICK q \in Nat : q = m * e
      OBVIOUS
    <3>3. m * Half = m * a + m + m * e
      BY <1>1, <3>1
    <3>4. QED
      BY <1>2, <3>2, <3>3
  <2>2. Signed(a) = a
    BY <1>1, <1>4 DEF Signed
  <2>3. QED
    BY <1>1, <1>2, <1>3, <1>4, <2>1, <2>2 DEF SignedIn
<1>5. CASE a >= Half
  <2>1. p >= h /\ p + m <= 2 * h
    <3>0. a - Half \in Nat /\ 2 * Half - a - 1 \in Nat
      BY <1>1, <1>5
    <3>1. PICK e \in Nat, g \in Nat : e = a - Half /\ g = 2 * Half - a - 1
      BY <3>0
    <3>2. PICK q \in Nat, s \in Nat : q = m * e /\ s = m * g
      OBVIOUS
    <3>3. m * a = m * Half + m * e
      <4>1. a = Half + e
        BY <1>1, <3>1
      <4>2. QED
        BY <1>1, <4>1
    <3>4. m * (2 * Half) = m * a + m + m * g
      <4>1. 2 * Half = a + 1 + g
        BY <1>1, <3>1
      <4>2. QED
        BY <1>1, <4>1
    <3>5. m * (2 * Half) = 2 * h
      BY <1>1, <1>2
    <3>6. QED
      BY <1>2, <3>2, <3>3, <3>4, <3>5
  <2>2. Signed(a) = a - 2 * Half
    BY <1>1, <1>5 DEF Signed
  <2>3. m * Signed(a) = p - 2 * h
    BY <1>1, <1>2, <2>2
  <2>4. QED
    BY <1>1, <1>2, <1>3, <1>5, <2>1, <2>2, <2>3 DEF SignedIn
<1>6. QED
  BY <1>1, <1>4, <1>5

\* A sum of two words and a carry is exact, unsigned and signed.
LEMMA SumOfWords ==
  ASSUME NEW a \in Word, NEW b \in Word, NEW c \in {0, 1}, NEW d, d = (a + b + c) % Modulus
  PROVE  /\ d \in Word
         /\ a + b + c = d + Modulus * AsBit(CarryOut(a, b, c))
         /\ Overflow(a, b, c) <=> Signed(a) + Signed(b) + c # Signed(d)
<1>1. Half \in Nat \ {0} /\ a \in 0 .. 2 * Half - 1 /\ b \in 0 .. 2 * Half - 1 /\ Modulus = 2 * Half
  BY HalfAssumption DEF Word, Modulus
<1>2. d = IF a + b + c >= Modulus THEN a + b + c - Modulus ELSE a + b + c
  BY <1>1
<1>3. AsBit(CarryOut(a, b, c)) = IF a + b + c >= Modulus THEN 1 ELSE 0
  BY CarryIsExact DEF AsBit
<1>4. d \in Word
  BY <1>1, <1>2 DEF Word
<1>5. Overflow(a, b, c) <=> Signed(a) + Signed(b) + c \notin -Half .. Half - 1
  BY OverflowIsExact
<1>6. QED
  BY <1>1, <1>2, <1>3, <1>4, <1>5 DEF Signed

\* So is a difference of two words and a borrow.
LEMMA DifferenceOfWords ==
  ASSUME NEW a \in Word, NEW b \in Word, NEW c \in {0, 1}, NEW d, d = (a - b - (1 - c)) % Modulus
  PROVE  /\ d \in Word
         /\ a - b - (1 - c) = d + Modulus * (AsBit(CarryOut(a, Not(b), c)) - 1)
         /\ Overflow(a, Not(b), c) <=> Signed(a) - Signed(b) - (1 - c) # Signed(d)
<1>1. Half \in Nat \ {0} /\ a \in 0 .. 2 * Half - 1 /\ b \in 0 .. 2 * Half - 1 /\ Modulus = 2 * Half
  BY HalfAssumption DEF Word, Modulus
<1>2. PICK n \in Word : n = Not(b) /\ n = Modulus - 1 - b
  BY <1>1 DEF Not, Word
<1>3. d = (a + n + c) % Modulus
  BY <1>1, <1>2
<1>4. /\ d \in Word
      /\ a + n + c = d + Modulus * AsBit(CarryOut(a, n, c))
      /\ Overflow(a, n, c) <=> Signed(a) + Signed(n) + c # Signed(d)
  BY <1>3, SumOfWords
<1>5. Signed(n) = -1 - Signed(b) /\ Signed(a) \in Int /\ Signed(b) \in Int /\ Signed(d) \in Int
  BY <1>1, <1>2, <1>4 DEF Signed, Word
<1>6. AsBit(CarryOut(a, n, c)) \in {0, 1}
  BY DEF AsBit
<1>7. QED
  BY <1>1, <1>2, <1>4, <1>5, <1>6

\* A sum and a difference of numbers of m values that leave carry c.
SumSoFar(m, x, y, r, c) ==
  /\ m \in Nat \ {0} /\ x \in 0 .. m - 1 /\ y \in 0 .. m - 1 /\ r \in 0 .. m - 1
  /\ c \in {0, 1} /\ x + y = r + m * c
DifferenceSoFar(m, x, y, r, c) ==
  /\ m \in Nat \ {0} /\ x \in 0 .. m - 1 /\ y \in 0 .. m - 1 /\ r \in 0 .. m - 1
  /\ c \in {0, 1} /\ x - y = r + m * (c - 1)

\* An exact sum, carried on by one more word, is exact.
LEMMA SumExtends ==
  ASSUME NEW m, NEW x, NEW y, NEW r, NEW c, SumSoFar(m, x, y, r, c),
         NEW a \in Word, NEW b \in Word, NEW d, d = (a + b + c) % Modulus
  PROVE  \A M : M = m * Modulus =>
           /\ (x + m * a) + (y + m * b) = r + m * d + M * AsBit(CarryOut(a, b, c))
           /\ Overflow(a, b, c) <=> SignedIn(x + m * a, M) + SignedIn(y + m * b, M)
                                      # SignedIn(r + m * d, M)
<1>0. /\ m \in Nat \ {0} /\ x \in 0 .. m - 1 /\ y \in 0 .. m - 1 /\ r \in 0 .. m - 1
      /\ c \in {0, 1} /\ x + y = r + m * c
  BY DEF SumSoFar
<1>1. /\ d \in Word
      /\ a + b + c = d + Modulus * AsBit(CarryOut(a, b, c))
      /\ Overflow(a, b, c) <=> Signed(a) + Signed(b) + c # Signed(d)
  BY <1>0, SumOfWords
<1>2. PICK M \in Nat : M = m * Modulus
  BY <1>0, TopWord
<1>3. /\ SignedIn(x + m * a, M) = x + m * Signed(a) /\ Signed(a) \in Int
      /\ SignedIn(y + m * b, M) = y + m * Signed(b) /\ Signed(b) \in Int
      /\ SignedIn(r + m * d, M) = r + m * Signed(d) /\ Signed(d) \in Int
  BY <1>0, <1>1, <1>2, TopWord
<1>4. a \in Int /\ b \in Int /\ d \in Int /\ Modulus \in Int
  BY <1>1, WordSize DEF Word
<1>5. PICK e \in {0, 1} : e = AsBit(CarryOut(a, b, c))
  BY DEF AsBit
<1>6. (x + m * a) + (y + m * b) = r + m * d + M * e
  <2>1. m * (a + b + c) = m * a + m * b + m * c
    BY <1>0, <1>4
  <2>2. m * (d + Modulus * e) = m * d + M * e
    BY <1>0, <1>2, <1>4
  <2>3. m * (a + b + c) = m * (d + Modulus * e)
    BY <1>0, <1>1, <1>5
  <2>4. PICK p \in Int, q \in Int, s \in Int, t \in Int :
          p = m * a /\ q = m * b /\ s = m * d /\ t = M * e
    BY <1>0, <1>4
  <2>5. PICK k \in Int : k = m * c
    BY <1>0
  <2>6. x + y = r + k /\ p + q + k = s + t
    BY <1>0, <2>1, <2>2, <2>3, <2>4, <2>5
  <2>7. x + p + (y + q) = r + s + t
    BY <1>0, <2>6
  <2>8. QED
    BY <2>4, <2>7
<1>7. (x + m * Signed(a)) + (y + m * Signed(b)) = r + m * Signed(d)
        <=> Signed(a) + Signed(b) + c = Signed(d)
  <2>1. PICK u \in Int, v \in Int : u = Signed(a) + Signed(b) + c /\ v = Signed(d)
    BY <1>0, <1>3
  <2>2. m * u = m * Signed(a) + m * Signed(b) + m * c
    BY <1>0, <1>3, <2>1
  <2>3. m * u = m * v <=> u = v
    BY <1>0
  <2>4. PICK p \in Int, q \in Int, s \in Int, k \in Int :
          p = m * Signed(a) /\ q = m * Signed(b) /\ s = m * v /\ k = m * c
    BY <1>0, <1>3
  <2>5. x + y = r + k /\ m * u = p + q + k
    BY <1>0, <2>2, <2>4
  <2>6. (x + p) + (y + q) = r + s <=> p + q + k = s
    BY <1>0, <2>5
  <2>7. (x + p) + (y + q) = r + s <=> u = v
    BY <2>3, <2>4, <2>5, <2>6
  <2>8. QED
    BY <2>1, <2>4, <2>7
<1>8. QED
  BY <1>0, <1>1, <1>2, <1>3, <1>5, <1>6, <1>7

\* So is a difference.
LEMMA DifferenceExtends ==
  ASSUME NEW m, NEW x, NEW y, NEW r, NEW c, DifferenceSoFar(m, x, y, r, c),
         NEW a \in Word, NEW b \in Word, NEW d, d = (a - b - (1 - c)) % Modulus
  PROVE  \A M : M = m * Modulus =>
           /\ (x + m * a) - (y + m * b) = r + m * d + M * (AsBit(CarryOut(a, Not(b), c)) - 1)
           /\ Overflow(a, Not(b), c) <=> SignedIn(x + m * a, M) - SignedIn(y + m * b, M)
                                           # SignedIn(r + m * d, M)
<1>0. /\ m \in Nat \ {0} /\ x \in 0 .. m - 1 /\ y \in 0 .. m - 1 /\ r \in 0 .. m - 1
      /\ c \in {0, 1} /\ x - y = r + m * (c - 1)
  BY DEF DifferenceSoFar
<1>1. /\ d \in Word
      /\ a - b - (1 - c) = d + Modulus * (AsBit(CarryOut(a, Not(b), c)) - 1)
      /\ Overflow(a, Not(b), c) <=> Signed(a) - Signed(b) - (1 - c) # Signed(d)
  BY <1>0, DifferenceOfWords
<1>2. PICK M \in Nat : M = m * Modulus
  BY <1>0, TopWord
<1>3. /\ SignedIn(x + m * a, M) = x + m * Signed(a) /\ Signed(a) \in Int
      /\ SignedIn(y + m * b, M) = y + m * Signed(b) /\ Signed(b) \in Int
      /\ SignedIn(r + m * d, M) = r + m * Signed(d) /\ Signed(d) \in Int
  BY <1>0, <1>1, <1>2, TopWord
<1>4. a \in Int /\ b \in Int /\ d \in Int /\ Modulus \in Int
  BY <1>1, WordSize DEF Word
<1>5. PICK e \in {-1, 0} : e = AsBit(CarryOut(a, Not(b), c)) - 1
  BY DEF AsBit
<1>6. (x + m * a) - (y + m * b) = r + m * d + M * e
  <2>1. m * (a - b - (1 - c)) = m * a - m * b + m * (c - 1)
    BY <1>0, <1>4
  <2>2. m * (d + Modulus * e) = m * d + M * e
    BY <1>0, <1>2, <1>4
  <2>3. m * (a - b - (1 - c)) = m * (d + Modulus * e)
    BY <1>0, <1>1, <1>5
  <2>4. PICK p \in Int, q \in Int, s \in Int, t \in Int :
          p = m * a /\ q = m * b /\ s = m * d /\ t = M * e
    BY <1>0, <1>4
  <2>5. PICK k \in Int : k = m * (c - 1)
    BY <1>0
  <2>6. x - y = r + k /\ p - q + k = s + t
    BY <1>0, <2>1, <2>2, <2>3, <2>4, <2>5
  <2>7. (x + p) - (y + q) = r + s + t
    BY <1>0, <2>6
  <2>8. QED
    BY <2>4, <2>7
<1>7. (x + m * Signed(a)) - (y + m * Signed(b)) = r + m * Signed(d)
        <=> Signed(a) - Signed(b) - (1 - c) = Signed(d)
  <2>1. PICK u \in Int, v \in Int : u = Signed(a) - Signed(b) - (1 - c) /\ v = Signed(d)
    BY <1>0, <1>3
  <2>2. m * u = m * Signed(a) - m * Signed(b) + m * (c - 1)
    BY <1>0, <1>3, <2>1
  <2>3. m * u = m * v <=> u = v
    BY <1>0
  <2>4. PICK p \in Int, q \in Int, s \in Int, k \in Int :
          p = m * Signed(a) /\ q = m * Signed(b) /\ s = m * v /\ k = m * (c - 1)
    BY <1>0, <1>3
  <2>5. x - y = r + k /\ m * u = p - q + k
    BY <1>0, <2>2, <2>4
  <2>6. (x + p) - (y + q) = r + s <=> p - q + k = s
    BY <1>0, <2>5
  <2>7. (x + p) - (y + q) = r + s <=> u = v
    BY <2>3, <2>4, <2>5, <2>6
  <2>8. QED
    BY <2>1, <2>4, <2>7
<1>8. QED
  BY <1>0, <1>1, <1>2, <1>3, <1>5, <1>6, <1>7

-----------------------------------------------------------------------------
(* The inductive invariant. *)

\* What flags f say of numbers of n words, x and y added or subtracted, r the result.
Exact(kind, n, x, y, r, f) ==
  LET m == Span(n)
  IN  /\ x \in 0 .. m - 1 /\ y \in 0 .. m - 1 /\ r \in 0 .. m - 1
      /\ kind = "sum" =>
           /\ x + y = r + m * AsBit(f.C)
           /\ f.V <=> SignedIn(x, m) + SignedIn(y, m) # SignedIn(r, m)
      /\ kind = "difference" =>
           /\ x - y = r + m * (AsBit(f.C) - 1)
           /\ f.V <=> SignedIn(x, m) - SignedIn(y, m) # SignedIn(r, m)
           /\ f.N <=> 2 * r >= m
           /\ n = 1 => (f.Z <=> r = 0)

\* The exactness of the wide numbers is inductive once N and Z are known as well.
WideInv ==
  /\ reg \in [Regs -> Word] /\ cpsr \in Flags
  /\ wide \in [kind : {"none", "sum", "difference"}, digits : 0 .. MaxDigits,
               x : Nat, y : Nat, result : Nat]
  /\ Exact(wide.kind, wide.digits, wide.x, wide.y, wide.result, cpsr)

\* One more word of a sum: the words x and y before, and the carry c they left.
LEMMA SumStep ==
  ASSUME NEW n \in Nat, NEW m, m = Span(n),
         NEW x, NEW y, NEW r, NEW c, SumSoFar(m, x, y, r, c),
         NEW a \in Word, NEW b \in Word, NEW d, d = (a + b + c) % Modulus,
         NEW f, f.C = CarryOut(a, b, c), f.V = Overflow(a, b, c)
  PROVE  /\ Exact("sum", n + 1, x + m * a, y + m * b, r + m * d, f)
         /\ x + m * a \in Nat /\ y + m * b \in Nat /\ r + m * d \in Nat
<1>0. /\ x \in 0 .. m - 1 /\ y \in 0 .. m - 1 /\ r \in 0 .. m - 1 /\ c \in {0, 1}
  BY DEF SumSoFar
<1>1. PICK M : M = m * Modulus /\ Span(n + 1) = M /\ m \in Nat \ {0}
  BY Spans
<1>2. d \in Word
  BY <1>0, SumOfWords
<1>3. /\ (x + m * a) + (y + m * b) = r + m * d + M * AsBit(CarryOut(a, b, c))
      /\ Overflow(a, b, c) <=> SignedIn(x + m * a, M) + SignedIn(y + m * b, M)
                                 # SignedIn(r + m * d, M)
  BY <1>1, SumExtends
<1>4. /\ x + m * a \in 0 .. M - 1 /\ y + m * b \in 0 .. M - 1 /\ r + m * d \in 0 .. M - 1
      /\ M \in Nat
  BY <1>0, <1>1, <1>2, TopWord
<1>5. x + m * a \in Nat /\ y + m * b \in Nat /\ r + m * d \in Nat
  BY <1>4
<1>6. QED
  BY <1>0, <1>1, <1>3, <1>4, <1>5 DEF Exact

\* One more word of a difference.
LEMMA DifferenceStep ==
  ASSUME NEW n \in Nat, NEW m, m = Span(n),
         NEW x, NEW y, NEW r, NEW c, DifferenceSoFar(m, x, y, r, c),
         NEW a \in Word, NEW b \in Word, NEW d, d = (a - b - (1 - c)) % Modulus,
         NEW f, f.C = CarryOut(a, Not(b), c), f.V = Overflow(a, Not(b), c),
         f.N = (d >= Half), f.Z = (d = 0)
  PROVE  /\ Exact("difference", n + 1, x + m * a, y + m * b, r + m * d, f)
         /\ x + m * a \in Nat /\ y + m * b \in Nat /\ r + m * d \in Nat
<1>0. /\ x \in 0 .. m - 1 /\ y \in 0 .. m - 1 /\ r \in 0 .. m - 1 /\ c \in {0, 1}
  BY DEF DifferenceSoFar
<1>1. PICK M : M = m * Modulus /\ Span(n + 1) = M /\ m \in Nat \ {0}
  BY Spans
<1>2. d \in Word
  BY <1>0, DifferenceOfWords
<1>3. /\ (x + m * a) - (y + m * b) = r + m * d + M * (AsBit(CarryOut(a, Not(b), c)) - 1)
      /\ Overflow(a, Not(b), c) <=> SignedIn(x + m * a, M) - SignedIn(y + m * b, M)
                                      # SignedIn(r + m * d, M)
  BY <1>1, DifferenceExtends
<1>4. /\ x + m * a \in 0 .. M - 1 /\ y + m * b \in 0 .. M - 1 /\ r + m * d \in 0 .. M - 1
      /\ M \in Nat
  BY <1>0, <1>1, <1>2, TopWord
<1>5. x + m * a \in Nat /\ y + m * b \in Nat /\ r + m * d \in Nat
  BY <1>4
<1>6. f.N <=> 2 * (r + m * d) >= M
  <2>1. 2 * (r + m * d) >= m * Modulus <=> d >= Half
    BY <1>0, <1>1, <1>2, TopWord
  <2>2. QED
    BY Zenon, <1>1, <2>1
<1>7. n + 1 = 1 => (f.Z <=> r + m * d = 0)
  <2>1. SUFFICES ASSUME n + 1 = 1 PROVE f.Z <=> r + m * d = 0
    OBVIOUS
  <2>2. m = 1 /\ r = 0 /\ d \in Int
    <3>1. n = 0 /\ d \in Int
      BY <1>2, <2>1 DEF Word
    <3>2. QED
      BY <1>0, <1>1, <3>1, Spans
  <2>3. r + m * d = d
    BY <2>2
  <2>4. QED
    BY <2>3
<1>8. f.V <=> SignedIn(x + m * a, M) - SignedIn(y + m * b, M) # SignedIn(r + m * d, M)
  BY <1>3
<1>9. Exact("difference", n + 1, x + m * a, y + m * b, r + m * d, f)
  <2>1. PICK u, v, w : u = x + m * a /\ v = y + m * b /\ w = r + m * d
    OBVIOUS
  <2>2. /\ u \in 0 .. M - 1 /\ v \in 0 .. M - 1 /\ w \in 0 .. M - 1
        /\ u - v = w + M * (AsBit(f.C) - 1)
    BY Zenon, <1>3, <1>4, <2>1
  <2>3. /\ f.V <=> SignedIn(u, M) - SignedIn(v, M) # SignedIn(w, M)
        /\ f.N <=> 2 * w >= M
        /\ n + 1 = 1 => (f.Z <=> w = 0)
    BY Zenon, <1>6, <1>7, <1>8, <2>1
  <2>4. Exact("difference", n + 1, u, v, w, f)
    BY Zenon, <1>1, <2>2, <2>3 DEF Exact
  <2>5. QED
    BY <2>1, <2>4
<1>10. QED
  BY <1>5, <1>9

\* The flags that a sum leaves.
LEMMA SumFlags ==
  ASSUME NEW f \in Flags, NEW x, NEW a, NEW b, NEW c
  PROVE  /\ NZCV(f, x, a, b, c).C = CarryOut(a, b, c) /\ NZCV(f, x, a, b, c).V = Overflow(a, b, c)
         /\ NZCV(f, x, a, b, c).N = (x >= Half) /\ NZCV(f, x, a, b, c).Z = (x = 0)
BY DEF NZCV, NZ, Flags

LEMMA InitWide == Init => WideInv
<1>. SUFFICES ASSUME Init PROVE WideInv
  OBVIOUS
<1>1. 0 \in Word /\ cpsr \in Flags
  BY WordSize DEF Init, Word, Flags
<1>2. 0 \in 0 .. MaxDigits /\ Span(0) = 1 /\ 0 \in 0 .. 1 - 1
  BY DataPathAssumption, Spans
<1>3. QED
  BY <1>1, <1>2 DEF Init, WideInv, Exact, NoWide

\* An instruction keeps the wide numbers exact: it starts one, carries one on, or ends it.
LEMMA ExecuteExact ==
  ASSUME WideInv, NEW op \in LogicOps \cup ArithmeticOps \cup ShiftOps, NEW d \in Regs,
         NEW a \in Word, NEW b \in Nat, op \in ShiftOps \/ b \in Word, Execute(op, d, a, b)
  PROVE  WideInv'
<1>1. PICK f, w : f = cpsr /\ w = wide
  OBVIOUS
<1>2. PICK out : out = Alu(op, a, b, f)
  OBVIOUS
<1>3. /\ f \in Flags /\ out.r \in Word /\ out.f \in Flags
  BY <1>1, <1>2, AluType DEF WideInv
<1>4. reg' \in [Regs -> Word] /\ cpsr' = out.f
  BY <1>1, <1>2, <1>3 DEF Execute, WideInv
<1>5. /\ w \in [kind : {"none", "sum", "difference"}, digits : 0 .. MaxDigits,
                x : Nat, y : Nat, result : Nat]
      /\ Exact(w.kind, w.digits, w.x, w.y, w.result, f)
  BY <1>1 DEF WideInv
<1>6. PICK v : v = wide'
  OBVIOUS
<1>7. 0 \in 0 .. MaxDigits /\ 1 \in 0 .. MaxDigits /\ MaxDigits \in Nat
  BY DataPathAssumption
<1>8. /\ Span(0) = 1 /\ 0 \in 0 .. Span(0) - 1 /\ 0 \in Nat /\ 0 + 1 = 1 /\ 0 \in Word
      /\ \A u \in Word : u \in Nat /\ 0 + Span(0) * u = u
  BY Spans, WordSize DEF Word
<1>. DEFINE VExact == /\ v \in [kind : {"none", "sum", "difference"}, digits : 0 .. MaxDigits,
                                x : Nat, y : Nat, result : Nat]
                      /\ Exact(v.kind, v.digits, v.x, v.y, v.result, out.f)
<1>9. ASSUME v = NoWide PROVE VExact
  BY <1>7, <1>8, <1>9 DEF NoWide, Exact
\* The lowest word of a sum and of a difference.
<1>10. ASSUME op \in {"add", "cmn"} PROVE VExact
  <2>1. b \in Word /\ out = Add(a, b, f)
    BY <1>2, <1>10, AluByName DEF ShiftOps
  <2>2. out.r = (a + b + 0) % Modulus /\ out.f = NZCV(f, out.r, a, b, 0)
    BY <2>1 DEF Add, Word
  <2>3. SumSoFar(Span(0), 0, 0, 0, 0) /\ 0 \in {0, 1}
    BY <1>8 DEF SumSoFar
  <2>4. out.f.C = CarryOut(a, b, 0) /\ out.f.V = Overflow(a, b, 0)
    BY <1>3, <2>2, SumFlags
  <2>5. Exact("sum", 0 + 1, 0 + Span(0) * a, 0 + Span(0) * b, 0 + Span(0) * out.r, out.f)
    BY <1>8, <2>1, <2>2, <2>3, <2>4, SumStep
  <2>6. Exact("sum", 1, a, b, out.r, out.f)
    BY <1>3, <1>8, <2>1, <2>5
  <2>7. v = First("sum", a, b, out.r)
    BY <1>1, <1>2, <1>6, <1>10 DEF Execute, WideAfter, Continues
  <2>8. QED
    BY <1>3, <1>7, <1>8, <2>1, <2>6, <2>7 DEF First
<1>11. ASSUME NEW y \in Word, out = Sub(y, b, f), b \in Word,
              v = First("difference", y, b, out.r)
       PROVE  VExact
  <2>1. y - b = y - b - (1 - 1)
    BY <1>11 DEF Word
  <2>2. out.r = (y - b - (1 - 1)) % Modulus /\ out.f = NZCV(f, out.r, y, Not(b), 1)
    BY <1>11, <2>1 DEF Sub
  <2>3. DifferenceSoFar(Span(0), 0, 0, 0, 1) /\ 1 \in {0, 1}
    BY <1>8 DEF DifferenceSoFar
  <2>4. /\ out.f.C = CarryOut(y, Not(b), 1) /\ out.f.V = Overflow(y, Not(b), 1)
        /\ out.f.N = (out.r >= Half) /\ out.f.Z = (out.r = 0)
    BY <1>3, <2>2, SumFlags
  <2>5. Exact("difference", 0 + 1, 0 + Span(0) * y, 0 + Span(0) * b, 0 + Span(0) * out.r, out.f)
    BY <1>8, <1>11, <2>2, <2>3, <2>4, DifferenceStep
  <2>6. Exact("difference", 1, y, b, out.r, out.f)
    BY <1>3, <1>8, <1>11, <2>5
  <2>7. QED
    BY <1>3, <1>7, <1>8, <1>11, <2>6 DEF First
<1>12. ASSUME op \in {"sub", "cmp"} PROVE VExact
  <2>1. b \in Word /\ out = Sub(a, b, f)
    BY <1>2, <1>12, AluByName DEF ShiftOps
  <2>2. v = First("difference", a, b, out.r)
    BY <1>1, <1>2, <1>6, <1>12 DEF Execute, WideAfter, Continues
  <2>3. QED
    BY <1>11, <2>1, <2>2
<1>13. ASSUME op = "neg" PROVE VExact
  <2>1. b \in Word /\ out = Sub(0, b, f)
    BY <1>2, <1>13, AluByName DEF ShiftOps
  <2>2. v = First("difference", 0, b, out.r)
    BY <1>1, <1>2, <1>6, <1>13 DEF Execute, WideAfter, Continues
  <2>3. QED
    BY <1>8, <1>11, <2>1, <2>2
\* A further word.
<1>14. ASSUME Continues(op), wide.digits < MaxDigits, op \in {"adc", "sbc"} PROVE VExact
  <2>1. PICK n \in 0 .. MaxDigits, x \in Nat, y \in Nat, r \in Nat :
          n = w.digits /\ x = w.x /\ y = w.y /\ r = w.result
    BY <1>5
  <2>2. PICK c, m : c \in {0, 1} /\ c = AsBit(f.C) /\ m = Span(n)
    BY DEF AsBit
  <2>3. n \in Nat /\ n + 1 \in 0 .. MaxDigits /\ b \in Word
    BY <1>1, <1>7, <1>14, <2>1 DEF ShiftOps
  <2>4. x \in 0 .. m - 1 /\ y \in 0 .. m - 1 /\ r \in 0 .. m - 1
    BY <1>5, <2>1, <2>2 DEF Exact
  <2>5. v = Extended(a, b, out.r)
    BY <1>1, <1>2, <1>6, <1>14 DEF Execute, WideAfter, Continues
  <2>6. /\ v = [kind |-> w.kind, digits |-> n + 1, x |-> x + m * a,
                y |-> y + m * b, result |-> r + m * out.r]
    BY <1>1, <1>5, <2>1, <2>2, <2>5 DEF Extended
  <2>7. CASE op = "adc"
    <3>1. w.kind = "sum"
      BY <1>1, <1>14, <2>7 DEF Continues
    <3>2. SumSoFar(m, x, y, r, c)
      BY <1>5, <2>1, <2>2, <2>3, <2>4, <3>1, Spans DEF Exact, SumSoFar
    <3>3. out.r = (a + b + c) % Modulus /\ out.f = NZCV(f, out.r, a, b, c)
      BY <1>2, <2>2, <2>7, AluByName DEF Adc
    <3>4. out.f.C = CarryOut(a, b, c) /\ out.f.V = Overflow(a, b, c)
      BY <1>3, <3>3, SumFlags
    <3>5. /\ Exact("sum", n + 1, x + m * a, y + m * b, r + m * out.r, out.f)
          /\ x + m * a \in Nat /\ y + m * b \in Nat /\ r + m * out.r \in Nat
      BY <2>2, <2>3, <2>4, <3>2, <3>3, <3>4, SumStep
    <3>6. QED
      BY <2>3, <2>6, <3>1, <3>5
  <2>8. CASE op = "sbc"
    <3>1. w.kind = "difference"
      BY <1>1, <1>14, <2>8 DEF Continues
    <3>2. DifferenceSoFar(m, x, y, r, c)
      BY <1>5, <2>1, <2>2, <2>3, <2>4, <3>1, Spans DEF Exact, DifferenceSoFar
    <3>3. out.r = (a - b - (1 - c)) % Modulus /\ out.f = NZCV(f, out.r, a, Not(b), c)
      BY <1>2, <2>2, <2>8, AluByName DEF Sbc
    <3>4. /\ out.f.C = CarryOut(a, Not(b), c) /\ out.f.V = Overflow(a, Not(b), c)
          /\ out.f.N = (out.r >= Half) /\ out.f.Z = (out.r = 0)
      BY <1>3, <3>3, SumFlags
    <3>5. /\ Exact("difference", n + 1, x + m * a, y + m * b, r + m * out.r, out.f)
          /\ x + m * a \in Nat /\ y + m * b \in Nat /\ r + m * out.r \in Nat
      BY <2>2, <2>3, <2>4, <3>2, <3>3, <3>4, DifferenceStep
    <3>6. QED
      BY <2>3, <2>6, <3>1, <3>5
  <2>9. QED
    BY <1>14, <2>7, <2>8
<1>15. ASSUME op \notin {"add", "cmn", "sub", "cmp", "neg"},
              ~(Continues(op) /\ wide.digits < MaxDigits)
       PROVE  VExact
  BY <1>6, <1>9, <1>15 DEF Execute, WideAfter
<1>16. VExact
  BY <1>10, <1>12, <1>13, <1>14, <1>15 DEF Continues
<1>17. QED
  BY <1>3, <1>4, <1>6, <1>16 DEF WideInv

LEMMA StepWide == WideInv /\ [Next]_vars => WideInv'
<1>. SUFFICES ASSUME WideInv, [Next]_vars PROVE WideInv'
  OBVIOUS
<1>0. \A q \in Regs : reg[q] \in Word /\ reg[q] \in Nat
  BY DEF WideInv, Word
<1>1. CASE TwoRegisters
  <2>1. PICK op \in TwoRegisterOps, d \in Regs, m \in Regs : Execute(op, d, reg[d], reg[m])
    BY <1>1 DEF TwoRegisters
  <2>2. op \in LogicOps \cup ArithmeticOps \cup ShiftOps
    BY DEF TwoRegisterOps, ArithmeticOps
  <2>3. QED
    BY <1>0, <2>1, <2>2, ExecuteExact
<1>2. CASE ThreeRegisters
  <2>1. PICK op \in {"add", "sub"}, d \in Regs, n \in Regs, m \in Regs : Execute(op, d, reg[n], reg[m])
    BY <1>2 DEF ThreeRegisters
  <2>2. op \in LogicOps \cup ArithmeticOps \cup ShiftOps
    BY DEF ArithmeticOps
  <2>3. QED
    BY <1>0, <2>1, <2>2, ExecuteExact
<1>3. CASE Immediate
  <2>1. PICK op \in {"add", "sub", "cmp", "mov"}, d \in Regs, i \in Immediates : Execute(op, d, reg[d], i)
    BY <1>3 DEF Immediate
  <2>2. op \in LogicOps \cup ArithmeticOps \cup ShiftOps /\ i \in Word /\ i \in Nat
    BY DataPathAssumption DEF ArithmeticOps, Word
  <2>3. QED
    BY <1>0, <2>1, <2>2, ExecuteExact
<1>4. CASE ShiftImmediate
  <2>1. PICK op \in {"lsl", "lsr", "asr"}, d \in Regs, m \in Regs, n \in Amounts :
          Execute(op, d, reg[m], ImmediateAmount(op, n))
    BY <1>4 DEF ShiftImmediate
  <2>2. PICK b \in Nat : b = ImmediateAmount(op, n)
    BY DataPathAssumption, WidthAssumption DEF ImmediateAmount, BitPositions
  <2>3. op \in LogicOps \cup ArithmeticOps \cup ShiftOps /\ op \in ShiftOps
    BY DEF ShiftOps
  <2>4. QED
    BY <1>0, <2>1, <2>2, <2>3, ExecuteExact
<1>5. CASE Load
  BY <1>5 DEF Load, WideInv
<1>6. CASE UNCHANGED vars
  BY <1>6 DEF vars, WideInv
<1>7. QED
  BY <1>1, <1>2, <1>3, <1>4, <1>5, <1>6 DEF Next

-----------------------------------------------------------------------------
(* What follows from it. *)

\* Registers hold words, and every word of a wide number is accounted for.
THEOREM TypeCorrect == Spec => []TypeOK
<1>1. WideInv => TypeOK
  BY DEF WideInv, Exact, TypeOK
<1>2. QED
  BY <1>1, InitWide, StepWide, PTL DEF Spec

\* Sums and differences taken a word at a time are exact, however many words they
\* have, and overflow tells when the signed result does not fit.
THEOREM WideExact == Spec => []WideIsExact
<1>1. WideInv => WideIsExact
  BY DEF WideInv, Exact, WideIsExact
<1>2. QED
  BY <1>1, InitWide, StepWide, PTL DEF Spec

\* The flags of a difference order the numbers, unsigned by C and signed by N and V.
LEMMA FlagsOrder ==
  ASSUME NEW f \in Flags, NEW n \in Nat, NEW x, NEW y, NEW r, Exact("difference", n, x, y, r, f)
  PROVE  LET sx == SignedIn(x, Span(n))
             sy == SignedIn(y, Span(n))
         IN  /\ f.C = (x >= y)
             /\ (f.N = f.V) = (sx >= sy)
             /\ n = 1 => f.Z = (x = y) /\ f.Z = (sx = sy)
             /\ x \in Int /\ y \in Int /\ sx \in Int /\ sy \in Int
<1>1. PICK m \in Nat \ {0} : m = Span(n)
  BY Spans
<1>2. /\ x \in 0 .. m - 1 /\ y \in 0 .. m - 1 /\ r \in 0 .. m - 1
      /\ x - y = r + m * (AsBit(f.C) - 1)
      /\ f.V <=> SignedIn(x, m) - SignedIn(y, m) # SignedIn(r, m)
      /\ f.N <=> 2 * r >= m
      /\ n = 1 => (f.Z <=> r = 0)
  BY <1>1 DEF Exact
<1>3. f.C \in BOOLEAN /\ f.N \in BOOLEAN /\ f.V \in BOOLEAN /\ f.Z \in BOOLEAN
  BY DEF Flags
<1>4. x - y = IF f.C THEN r ELSE r - m
  BY <1>2 DEF AsBit
<1>5. f.C <=> x >= y
  BY <1>2, <1>4
<1>6. (f.N <=> f.V) <=> SignedIn(x, m) >= SignedIn(y, m)
  BY <1>2, <1>4 DEF SignedIn
<1>7. n = 1 => (f.Z <=> x = y) /\ (f.Z <=> SignedIn(x, m) = SignedIn(y, m))
  BY <1>2, <1>4 DEF SignedIn
<1>8. x \in Int /\ y \in Int /\ SignedIn(x, m) \in Int /\ SignedIn(y, m) \in Int
  BY <1>2 DEF SignedIn
<1>9. QED
  BY <1>1, <1>3, <1>5, <1>6, <1>7, <1>8

\* After a comparison of numbers of one word or of many, every conditional branch
\* that orders them is taken exactly when the order holds.
THEOREM BranchesDecideWide == Spec => []BranchesDecide
<1>1. WideInv => BranchesDecide
  <2>1. SUFFICES ASSUME WideInv, wide.kind = "difference" PROVE BranchesDecide
    BY DEF BranchesDecide
  <2>2. PICK f, n, x, y, r :
          /\ f \in Flags /\ n \in Nat
          /\ f = cpsr /\ n = wide.digits /\ x = wide.x /\ y = wide.y
          /\ Exact("difference", n, x, y, r, f)
    BY <2>1, DataPathAssumption DEF WideInv
  <2>3. PICK sx, sy : sx = SignedIn(x, Span(n)) /\ sy = SignedIn(y, Span(n))
    OBVIOUS
  <2>4. /\ f.C = (x >= y) /\ (f.N = f.V) = (sx >= sy)
        /\ n = 1 => f.Z = (x = y) /\ f.Z = (sx = sy)
        /\ x \in Int /\ y \in Int /\ sx \in Int /\ sy \in Int
    BY <2>2, <2>3, FlagsOrder
  <2>5. /\ f.N \in BOOLEAN /\ f.Z \in BOOLEAN /\ f.C \in BOOLEAN /\ f.V \in BOOLEAN
    BY <2>2 DEF Flags
  <2>6. /\ Holds("cs", f) = (x >= y) /\ Holds("cc", f) = (x < y)
        /\ Holds("ge", f) = (sx >= sy) /\ Holds("lt", f) = (sx < sy)
    <3>1. /\ Holds("cs", f) = f.C /\ Holds("cc", f) = ~f.C
          /\ Holds("ge", f) = (f.N = f.V) /\ Holds("lt", f) = (f.N # f.V)
      BY DEF Holds
    <3>2. /\ (x < y) = ~(x >= y) /\ (sx < sy) = ~(sx >= sy)
          /\ (f.N # f.V) = ~(f.N = f.V)
      BY <2>4
    <3>3. QED
      BY Zenon, <2>4, <3>1, <3>2
  <2>7. n = 1 => /\ Holds("eq", f) = (x = y) /\ Holds("ne", f) = (x # y)
                 /\ Holds("hi", f) = (x > y) /\ Holds("ls", f) = (x <= y)
                 /\ Holds("gt", f) = (sx > sy) /\ Holds("le", f) = (sx <= sy)
    <3>1. /\ Holds("eq", f) = f.Z /\ Holds("ne", f) = ~f.Z
          /\ Holds("hi", f) = (f.C /\ ~f.Z) /\ Holds("ls", f) = (f.Z \/ ~f.C)
          /\ Holds("gt", f) = (~f.Z /\ (f.N = f.V)) /\ Holds("le", f) = (f.Z \/ (f.N # f.V))
      BY DEF Holds
    <3>2. /\ (x # y) = ~(x = y)
          /\ (x > y) = (x >= y /\ ~(x = y)) /\ (x <= y) = (x = y \/ ~(x >= y))
          /\ (sx > sy) = (~(sx = sy) /\ sx >= sy) /\ (sx <= sy) = (sx = sy \/ ~(sx >= sy))
          /\ (f.N # f.V) = ~(f.N = f.V)
      BY <2>4
    <3>3. QED
      BY Zenon, <2>4, <3>1, <3>2
  <2>8. QED
    BY <2>2, <2>3, <2>6, <2>7 DEF BranchesDecide
<1>2. QED
  BY <1>1, InitWide, StepWide, PTL DEF Spec

\* Shifts of whatever the registers hold, by every amount, are exact.
THEOREM ShiftsExact == Spec => []ShiftsAreExact
<1>1. WideInv => ShiftsAreExact
  <2>1. SUFFICES ASSUME WideInv, NEW n \in 1 .. Modulus - 1, NEW q \in Regs
                 PROVE  LET x == reg[q]
                            sx == SignedIn(x, Modulus)
                            After(op) == Shift(op, x, n, cpsr)
                        IN  /\ After("lsl").r = (x * 2 ^ n) % Modulus
                            /\ AsBit(After("lsl").f.C) = ((x * 2 ^ n) \div Modulus) % 2
                            /\ After("lsr").r = x \div 2 ^ n
                            /\ AsBit(After("lsr").f.C) = BitOf(x, n - 1)
                            /\ SignedIn(After("asr").r, Modulus) = sx \div 2 ^ n
                            /\ AsBit(After("asr").f.C) = (sx \div 2 ^ (n - 1)) % 2
                            /\ \A k \in BitPositions : BitOf(After("ror").r, k) = BitOf(x, (k + n) % W)
                            /\ After("ror").f.C = (After("ror").r >= Half)
    BY DEF ShiftsAreExact
  <2>2. n \in Nat \ {0} /\ reg[q] \in Word /\ cpsr \in Flags
    BY <2>1 DEF WideInv
  <2>3. \A x \in Word : SignedIn(x, Modulus) = Signed(x)
    BY HalfAssumption DEF SignedIn, Signed, Word, Modulus
  <2>4. Shift("asr", reg[q], n, cpsr).r \in Word
    BY <2>2, ShiftType DEF ShiftOps
  <2>5. PICK x \in Word, f \in Flags : x = reg[q] /\ f = cpsr
    BY <2>2
  <2>6. /\ SignedIn(Shift("asr", x, n, f).r, Modulus) = Signed(Shift("asr", x, n, f).r)
        /\ SignedIn(x, Modulus) = Signed(x)
    BY <2>3, <2>4, <2>5
  <2>7. /\ Shift("lsl", x, n, f).r = (x * 2 ^ n) % Modulus
        /\ AsBit(Shift("lsl", x, n, f).f.C) = ((x * 2 ^ n) \div Modulus) % 2
        /\ Shift("lsr", x, n, f).r = x \div 2 ^ n
        /\ AsBit(Shift("lsr", x, n, f).f.C) = BitOf(x, n - 1)
        /\ Signed(Shift("asr", x, n, f).r) = Signed(x) \div 2 ^ n
        /\ AsBit(Shift("asr", x, n, f).f.C) = (Signed(x) \div 2 ^ (n - 1)) % 2
        /\ \A k \in BitPositions : BitOf(Shift("ror", x, n, f).r, k) = BitOf(x, (k + n) % W)
        /\ Shift("ror", x, n, f).f.C = (Shift("ror", x, n, f).r >= Half)
    BY Zenon, <2>2, ShiftsOfWordsAreExact
  <2>8. QED
    BY <2>5, <2>6, <2>7
<1>2. QED
  BY <1>1, InitWide, StepWide, PTL DEF Spec
====
