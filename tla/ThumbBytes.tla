------------------------------ MODULE ThumbBytes -----------------------------
(***************************************************************************)
(* Bytes and halfwords of the Thumb interpreter (thumbulator/thumbulator.c)*)
(* A word of W bits is four bytes, byte 0 the lowest, or two halfwords; the*)
(* program's bytes have 8 bits, these have W / 4.                          *)
(***************************************************************************)
EXTENDS ThumbALU

ASSUME ByteAssumption == W % 4 = 0

ByteSize == 2 ^ (W \div 4)                    \* 0x100
HalfwordSize == ByteSize * ByteSize           \* 0x10000

ByteOf(x, k) == (x \div 2 ^ (k * (W \div 4))) % ByteSize
FromBytes(b0, b1, b2, b3) == b0 + ByteSize * (b1 + ByteSize * (b2 + ByteSize * b3))

\* A value of x in 0 .. n - 1 whose top bit is its sign.
SignExtend(x, n) == IF 2 * x >= n THEN x + Modulus - n ELSE x

-----------------------------------------------------------------------------
(* SXTB, SXTH, UXTB, UXTH, REV, REV16 and REVSH. *)

UnaryOps == {"sxtb", "sxth", "uxtb", "uxth", "rev", "rev16", "revsh"}
Unary(fn, x) ==
  CASE fn = "sxtb" -> SignExtend(x % ByteSize, ByteSize)
    [] fn = "sxth" -> SignExtend(x % HalfwordSize, HalfwordSize)
    [] fn = "uxtb" -> x % ByteSize
    [] fn = "uxth" -> x % HalfwordSize
    [] fn = "rev" -> FromBytes(ByteOf(x, 3), ByteOf(x, 2), ByteOf(x, 1), ByteOf(x, 0))
    [] fn = "rev16" -> FromBytes(ByteOf(x, 1), ByteOf(x, 0), ByteOf(x, 3), ByteOf(x, 2))
    [] fn = "revsh" -> SignExtend(ByteOf(x, 1) + ByteSize * ByteOf(x, 0), HalfwordSize)

-----------------------------------------------------------------------------
(* The memory behind busRead16 and busWrite16: a halfword of word w. *)

ReadHalf(w, a) == IF a % 4 >= 2 THEN w \div HalfwordSize ELSE w % HalfwordSize
WriteHalf(w, a, h) ==
  IF a % 4 >= 2 THEN (w % HalfwordSize) + HalfwordSize * h
  ELSE w - (w % HalfwordSize) + h

\* What LDRB, LDRSB, LDRH and LDRSH make of the halfword that holds address a.
Narrow(op, h, a) ==
  LET b == IF a % 2 = 1 THEN h \div ByteSize ELSE h % ByteSize
  IN  CASE op = "ldrb" -> b
        [] op = "ldrsb" -> SignExtend(b, ByteSize)
        [] op = "ldrh" -> h
        [] op = "ldrsh" -> SignExtend(h, HalfwordSize)

\* What STRB makes of it: the other byte stays.
MergeByte_Low(h, a, x) == (h - (h % ByteSize)) + (x % ByteSize)
MergeByte(h, a, x) ==
  IF a % 2 = 1 THEN (h % ByteSize) + ByteSize * (x % ByteSize)
  ELSE (h - (h % ByteSize)) + (x % ByteSize)
=============================================================================
