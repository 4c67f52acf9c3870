------------------------------- MODULE DataPath ------------------------------
(***************************************************************************)
(* Code made of data processing instructions (thumbulator/thumbulator.c),  *)
(* in any order, on a few registers: what compilers rely on in the flags.  *)
(* Numbers wider than a word are added and compared a word at a time, the  *)
(* carry passing from one instruction to the next, and a conditional       *)
(* branch at the end decides the comparison.                               *)
(***************************************************************************)
EXTENDS ThumbALU

CONSTANTS Regs,        \* the registers used
          Immediates,  \* immediate operands
          Amounts,     \* immediate shift amounts
          MaxDigits    \* bound: words in a wide number

ASSUME DataPathAssumption ==
  Immediates \subseteq Word /\ Amounts \subseteq BitPositions /\ MaxDigits \in Nat \ {0}

VARIABLES reg, cpsr,
          wide     \* history: the wide numbers x and y added or subtracted by the
                   \* instructions executed last, and their result, lowest word first

vars == <<reg, cpsr, wide>>

NoWide == [kind |-> "none", digits |-> 0, x |-> 0, y |-> 0, result |-> 0]

Init == /\ reg = [r \in Regs |-> 0]
        /\ cpsr = [N |-> FALSE, Z |-> FALSE, C |-> FALSE, V |-> FALSE]
        /\ wide = NoWide

-----------------------------------------------------------------------------
(* History. *)

\* How many values n words have: Modulus ^ n.
Span(n) == 2 ^ (W * n)

First(kind, x, y, r) == [kind |-> kind, digits |-> 1, x |-> x, y |-> y, result |-> r]
Extended(x, y, r) ==
  LET weight == Span(wide.digits)
  IN  [wide EXCEPT !.digits = @ + 1, !.x = @ + weight * x, !.y = @ + weight * y,
                   !.result = @ + weight * r]

Continues(op) == \/ op = "adc" /\ wide.kind = "sum"
                 \/ op = "sbc" /\ wide.kind = "difference"

WideAfter(op, x, y, r) ==
  CASE op \in {"add", "cmn"} -> First("sum", x, y, r)
    [] op \in {"sub", "cmp"} -> First("difference", x, y, r)
    [] op = "neg" -> First("difference", 0, y, r)
    [] Continues(op) /\ wide.digits < MaxDigits -> Extended(x, y, r)
    [] OTHER -> NoWide

-----------------------------------------------------------------------------
(* Instructions. *)

Execute(op, d, a, b) ==
  LET out == Alu(op, a, b, cpsr)
  IN  /\ reg' = IF op \in CompareOps THEN reg ELSE [reg EXCEPT ![d] = out.r]
      /\ cpsr' = out.f
      /\ wide' = WideAfter(op, a, b, out.r)

\* Two low registers: ADC, AND, BIC, CMN, CMP(2), EOR, MUL, MVN, NEG, ORR, SBC, TST
\* and the shifts by a register.
TwoRegisterOps == LogicOps \cup ShiftOps \cup {"adc", "sbc", "cmp", "cmn", "neg", "mul"}
TwoRegisters == \E op \in TwoRegisterOps, d, m \in Regs : Execute(op, d, reg[d], reg[m])

\* ADD(3) and SUB(3).
ThreeRegisters ==
  \E op \in {"add", "sub"}, d, n, m \in Regs : Execute(op, d, reg[n], reg[m])

\* ADD(2), SUB(2), CMP(1), MOV(1); MOV(2) is ADD(1) of zero, carry and overflow
\* cleared, and SUB(1) and ADD(1) differ from these only in their registers.
Immediate ==
  \E op \in {"add", "sub", "cmp", "mov"}, d \in Regs, i \in Immediates :
    Execute(op, d, reg[d], i)

ShiftImmediate ==
  \E op \in {"lsl", "lsr", "asr"}, d, m \in Regs, n \in Amounts :
    Execute(op, d, reg[m], ImmediateAmount(op, n))

\* A load, between two words of a wide number: flags do not change.
Load == \E d \in Regs, x \in Word :
          /\ wide.digits < MaxDigits
          /\ reg' = [reg EXCEPT ![d] = x]
          /\ UNCHANGED <<cpsr, wide>>

Next == TwoRegisters \/ ThreeRegisters \/ Immediate \/ ShiftImmediate \/ Load

Spec == Init /\ [][Next]_vars

-----------------------------------------------------------------------------
(* Properties. *)

\* A word of m possible values, read as a signed number.
SignedIn(x, m) == IF 2 * x >= m THEN x - m ELSE x

\* Type invariant.
TypeOK ==
  /\ reg \in [Regs -> Word]
  /\ cpsr \in Flags
  /\ wide.digits \in 0 .. MaxDigits
  /\ LET m == Span(wide.digits)
     IN  wide.x \in 0 .. m - 1 /\ wide.y \in 0 .. m - 1 /\ wide.result \in 0 .. m - 1

\* A sum or a difference taken a word at a time is exact: the words of the result
\* with the carry are x + y, or x - y with carry meaning no borrow, and overflow is
\* set exactly if the signed result does not fit.
WideIsExact ==
  LET m == Span(wide.digits)
      exact == IF wide.kind = "sum" THEN wide.x + wide.y ELSE wide.x - wide.y
      signed == IF wide.kind = "sum" THEN SignedIn(wide.x, m) + SignedIn(wide.y, m)
                ELSE SignedIn(wide.x, m) - SignedIn(wide.y, m)
  IN  wide.kind # "none" =>
        /\ exact = wide.result + m * (IF wide.kind = "sum" THEN AsBit(cpsr.C)
                                      ELSE AsBit(cpsr.C) - 1)
        /\ cpsr.V <=> signed # SignedIn(wide.result, m)

\* After a comparison, a word wide or more, the conditional branches decide it:
\* those of unsigned numbers, of signed numbers, and, on one word, those with Z.
BranchesDecide ==
  LET m == Span(wide.digits)
      x == wide.x  y == wide.y
      sx == SignedIn(wide.x, m)  sy == SignedIn(wide.y, m)
  IN  wide.kind = "difference" =>
        /\ Holds("cs", cpsr) = (x >= y) /\ Holds("cc", cpsr) = (x < y)
        /\ Holds("ge", cpsr) = (sx >= sy) /\ Holds("lt", cpsr) = (sx < sy)
        /\ wide.digits = 1 =>
             /\ Holds("eq", cpsr) = (x = y) /\ Holds("ne", cpsr) = (x # y)
             /\ Holds("hi", cpsr) = (x > y) /\ Holds("ls", cpsr) = (x <= y)
             /\ Holds("gt", cpsr) = (sx > sy) /\ Holds("le", cpsr) = (sx <= sy)

\* Shifts by every amount, below, at and above the width of a word, are exact: a
\* left shift multiplies, right shifts divide and round down, a rotation moves the
\* bits round, and the carry is the last bit that left the word.
ShiftsAreExact ==
  \A n \in 1 .. Modulus - 1, r \in Regs :
    LET x == reg[r]
        sx == SignedIn(x, Modulus)
        After(op) == Shift(op, x, n, cpsr)
        Left == After("lsl")  Right == After("lsr")
        Signed == After("asr")  Round == After("ror")
    IN  /\ Left.r = (x * 2 ^ n) % Modulus
        /\ AsBit(Left.f.C) = ((x * 2 ^ n) \div Modulus) % 2
        /\ Right.r = x \div 2 ^ n /\ AsBit(Right.f.C) = BitOf(x, n - 1)
        /\ SignedIn(Signed.r, Modulus) = sx \div 2 ^ n
        /\ AsBit(Signed.f.C) = (sx \div 2 ^ (n - 1)) % 2
        /\ \A k \in BitPositions : BitOf(Round.r, k) = BitOf(x, (k + n) % W)
        /\ Round.f.C = (Round.r >= Half)
=============================================================================
