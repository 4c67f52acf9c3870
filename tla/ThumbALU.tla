------------------------------- MODULE ThumbALU ------------------------------
(***************************************************************************)
(* The data processing of the Thumb interpreter (thumbulator/thumbulator.c)*)
(* on words of W bits, 32 in the program: results, flags and conditions,   *)
(* computed the way the C code does, from halves of the operands, shifts   *)
(* and masks.                                                              *)
(***************************************************************************)
EXTENDS Integers

CONSTANTS W,      \* bits in a word
          Half    \* 2^(W - 1), the word with only its sign bit set

ASSUME WidthAssumption == W \in Nat \ {0}
ASSUME HalfAssumption == Half \in Nat \ {0} /\ Half = 2 ^ (W - 1)

Modulus == 2 * Half
Word == 0 .. Modulus - 1
Flags == [N : BOOLEAN, Z : BOOLEAN, C : BOOLEAN, V : BOOLEAN]

BitPositions == 0 .. W - 1
BitOf(x, k) == (x \div 2 ^ k) % 2
AsBit(b) == IF b THEN 1 ELSE 0
Not(x) == Modulus - 1 - x

-----------------------------------------------------------------------------
(* Flags. *)

NZ(f, x) == [f EXCEPT !.N = (x >= Half), !.Z = (x = 0)]

\* The sum of the operands without their top bits, carry in included.
LowSum(a, b, c) == (a % Half) + (b % Half) + c

CarryOut_NoCarryIn(a, b, c) == (LowSum(a, b, 0) \div Half) + (a \div Half) + (b \div Half) >= 2
CarryOut(a, b, c) == (LowSum(a, b, c) \div Half) + (a \div Half) + (b \div Half) >= 2

\* The carry into the top bit differs from the carry out of it.
Overflow(a, b, c) ==
  LET in == LowSum(a, b, c) \div Half
  IN  in # (in + (a \div Half) + (b \div Half)) \div 2

NZCV(f, x, a, b, c) ==
  [NZ(f, x) EXCEPT !.C = CarryOut(a, b, c), !.V = Overflow(a, b, c)]

-----------------------------------------------------------------------------
(* Arithmetic and logic: the result of each operation on the two operands *)
(* and the flags, and the flags it leaves.                                 *)

Add_NoWrap(a, b, f) == LET x == a + b IN [r |-> x, f |-> NZCV(f, x, a, b, 0)]
Add(a, b, f) == LET x == (a + b) % Modulus IN [r |-> x, f |-> NZCV(f, x, a, b, 0)]

Sub(a, b, f) == LET x == (a - b) % Modulus IN [r |-> x, f |-> NZCV(f, x, a, Not(b), 1)]

Adc(a, b, f) ==
  LET c == AsBit(f.C)
      x == (a + b + c) % Modulus
  IN  [r |-> x, f |-> NZCV(f, x, a, b, c)]

Sbc(a, b, f) ==
  LET c == AsBit(f.C)
      x == (a - b - (1 - c)) % Modulus
  IN  [r |-> x, f |-> NZCV(f, x, a, Not(b), c)]

OnlyNZ(x, f) == [r |-> x, f |-> NZ(f, x)]

And(a, b) == CHOOSE x \in Word : \A k \in BitPositions : BitOf(x, k) = BitOf(a, k) * BitOf(b, k)
Orr(a, b) == Not(And(Not(a), Not(b)))
Eor(a, b) == Orr(And(a, Not(b)), And(Not(a), b))

-----------------------------------------------------------------------------
(* Shifts by at least 1: the shifted word and the last bit shifted out. *)

\* LSL(2), LSR(2) and ASR(2) distinguish an amount below, at and above W.
Lsl(x, n) ==
  CASE n < W -> [r |-> (x * 2 ^ n) % Modulus, c |-> BitOf(x, W - n) = 1]
    [] n = W -> [r |-> 0, c |-> BitOf(x, 0) = 1]
    [] n > W -> [r |-> 0, c |-> FALSE]

Lsr_NoTop(x, n) ==
  IF n < W THEN [r |-> x \div 2 ^ n, c |-> BitOf(x, n - 1) = 1]
  ELSE [r |-> 0, c |-> FALSE]
Lsr(x, n) ==
  CASE n < W -> [r |-> x \div 2 ^ n, c |-> BitOf(x, n - 1) = 1]
    [] n = W -> [r |-> 0, c |-> x >= Half]
    [] n > W -> [r |-> 0, c |-> FALSE]

Asr(x, n) ==
  IF n < W
  THEN [r |-> (x \div 2 ^ n) + (IF x >= Half THEN Modulus - 2 ^ (W - n) ELSE 0),
        c |-> BitOf(x, n - 1) = 1]
  ELSE [r |-> IF x >= Half THEN Modulus - 1 ELSE 0, c |-> x >= Half]

Ror(x, n) ==
  LET k == n % W
  IN  IF k = 0 THEN [r |-> x, c |-> x >= Half]
      ELSE [r |-> (x \div 2 ^ k) + ((x * 2 ^ (W - k)) % Modulus), c |-> BitOf(x, k - 1) = 1]

ShiftOps == {"lsl", "lsr", "asr", "ror"}
ShiftBy(op, x, n) ==
  CASE op = "lsl" -> Lsl(x, n) [] op = "lsr" -> Lsr(x, n)
    [] op = "asr" -> Asr(x, n) [] op = "ror" -> Ror(x, n)

\* A shift by zero leaves the word and the carry, and still sets N and Z.
Shift(op, x, n, f) ==
  IF n = 0 THEN OnlyNZ(x, f)
  ELSE LET s == ShiftBy(op, x, n)
       IN  [r |-> s.r, f |-> [NZ(f, s.r) EXCEPT !.C = s.c]]

\* What an immediate amount of zero encodes: LSR(1) and ASR(1) shift by W.
ImmediateAmount(op, n) == IF n = 0 /\ op # "lsl" THEN W ELSE n

-----------------------------------------------------------------------------
(* The operations by name. *)

LogicOps == {"and", "bic", "eor", "orr", "tst", "mvn"}
ArithmeticOps == {"add", "adc", "sub", "sbc", "cmp", "cmn", "neg", "mul", "mov"}
CompareOps == {"cmp", "cmn", "tst"}

Logic(op, a, b) ==
  CASE op \in {"and", "tst"} -> And(a, b) [] op = "bic" -> And(a, Not(b))
    [] op = "eor" -> Eor(a, b) [] op = "orr" -> Orr(a, b) [] op = "mvn" -> Not(b)

Alu(op, a, b, f) ==
  CASE op \in {"add", "cmn"} -> Add(a, b, f)
    [] op \in {"sub", "cmp"} -> Sub(a, b, f)
    [] op = "adc" -> Adc(a, b, f)
    [] op = "sbc" -> Sbc(a, b, f)
    [] op = "neg" -> Sub(0, b, f)
    [] op = "mul" -> OnlyNZ((a * b) % Modulus, f)
    [] op = "mov" -> OnlyNZ(b, f)
    [] op \in LogicOps -> OnlyNZ(Logic(op, a, b), f)
    [] op \in ShiftOps -> Shift(op, a, b % 2 ^ 8, f)

-----------------------------------------------------------------------------
(* B(1). *)

Conditions == {"eq", "ne", "cs", "cc", "mi", "pl", "vs", "vc",
               "hi", "ls", "ge", "lt", "gt", "le"}

Holds_LeIgnoresZ(cond, f) ==
  CASE cond = "eq" -> f.Z [] cond = "ne" -> ~f.Z [] cond = "cs" -> f.C [] cond = "cc" -> ~f.C
    [] cond = "mi" -> f.N [] cond = "pl" -> ~f.N [] cond = "vs" -> f.V [] cond = "vc" -> ~f.V
    [] cond = "hi" -> f.C [] cond = "ls" -> ~f.C
    [] cond = "ge" -> f.N = f.V [] cond = "lt" -> f.N # f.V
    [] cond = "gt" -> f.N = f.V [] cond = "le" -> f.N # f.V
Holds(cond, f) ==
  CASE cond = "eq" -> f.Z [] cond = "ne" -> ~f.Z [] cond = "cs" -> f.C [] cond = "cc" -> ~f.C
    [] cond = "mi" -> f.N [] cond = "pl" -> ~f.N [] cond = "vs" -> f.V [] cond = "vc" -> ~f.V
    [] cond = "hi" -> f.C /\ ~f.Z [] cond = "ls" -> f.Z \/ ~f.C
    [] cond = "ge" -> f.N = f.V [] cond = "lt" -> f.N # f.V
    [] cond = "gt" -> ~f.Z /\ (f.N = f.V) [] cond = "le" -> f.Z \/ (f.N # f.V)
=============================================================================
