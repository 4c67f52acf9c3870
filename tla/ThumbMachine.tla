----------------------------- MODULE ThumbMachine ----------------------------
(***************************************************************************)
(* What a guest program may take the interpreter for: a machine with bytes *)
(* of memory that executes whole instructions, one after the other.  There *)
(* is no run, no stop address and no trap here, and no access that fails:  *)
(* an instruction either has happened or not.                              *)
(*                                                                         *)
(* status is "torn" while an instruction has been left half done and may   *)
(* still be completed, and "lost" once that has become impossible: nothing *)
(* is promised then, until a reset.                                        *)
(***************************************************************************)
EXTENDS ThumbBytes, FiniteSets

CONSTANTS GeneralRegs,              \* r0 .. r12, or some of them
          DataWords,
          InitialSP, ResetVectors   \* the latter by code

VARIABLES regs,       \* by number, without the program counter
          pc,         \* the address of the next instruction
          flags,
          bytes,      \* the memory
          code,
          status

machine == <<regs, pc, flags, bytes>>
vars == <<machine, code, status>>

SP == 13
LR == 14
PC == 15
Registers == GeneralRegs \cup {SP, LR, PC}
DataBytes == {w + k : w \in DataWords, k \in 0 .. 3}
Wrap(x) == x % Modulus
Aligned(a, n) == a - (a % n)

Init == /\ regs \in [Registers \ {PC} -> Word] /\ pc \in Word
        /\ flags \in Flags
        /\ bytes \in [DataBytes -> 0 .. ByteSize - 1]
        /\ status = "ready"

-----------------------------------------------------------------------------
(* The effect of instruction i on a machine m: its registers, program      *)
(* counter, flags and bytes after it.                                      *)

State == [regs |-> regs, pc |-> pc, flags |-> flags, bytes |-> bytes]

\* As an operand the program counter is 4 ahead of the instruction.
R(m, q) == IF q = PC THEN Wrap(m.pc + 4) ELSE m.regs[q]
Operand2(m, i) == IF i.rm \in Registers THEN R(m, i.rm) ELSE i.imm

WithBytes(b) == FromBytes(b[0], b[1], b[2], b[3])
Load(m, a, n) ==
  WithBytes([k \in 0 .. 3 |-> IF k < n THEN m.bytes[Wrap(a + k)] ELSE 0])
Put(b, a, n, x) == [c \in DataBytes |-> IF c - a \in 0 .. n - 1 THEN ByteOf(x, c - a) ELSE b[c]]

Same(m) == [m EXCEPT !.pc = Wrap(@ + 2)]
Goto(m, target) == [m EXCEPT !.pc = Aligned(Wrap(target), 2)]
Def(m, q, x) == IF q = PC THEN Goto(m, x) ELSE [Same(m) EXCEPT !.regs[q] = Wrap(x)]
Call(m, target) == [Goto(m, target) EXCEPT !.regs[LR] = Wrap(m.pc + 2) + 1]

Signed(x, n) == IF x >= n \div 2 THEN x - n ELSE x
Swapped(x) == WithBytes([k \in 0 .. 3 |-> ByteOf(x, IF k % 2 = 0 THEN k + 1 ELSE k - 1)])
Converted(fn, x) ==
  CASE fn = "uxtb" -> x % ByteSize
    [] fn = "uxth" -> x % HalfwordSize
    [] fn = "sxtb" -> Signed(x % ByteSize, ByteSize)
    [] fn = "sxth" -> Signed(x % HalfwordSize, HalfwordSize)
    [] fn = "rev" -> WithBytes([k \in 0 .. 3 |-> ByteOf(x, 3 - k)])
    [] fn = "rev16" -> Swapped(x)
    [] fn = "revsh" -> Signed(Swapped(x) % HalfwordSize, HalfwordSize)

Width(op) == CASE op \in {"ldrb", "ldrsb", "strb"} -> 1
               [] op \in {"ldrh", "ldrsh", "strh"} -> 2
               [] op \in {"ldr", "str"} -> 4
EffectiveAddress(m, i) == Aligned(Wrap(R(m, i.rn) + Operand2(m, i)), Width(i.op))

Loading(m, i) ==
  LET x == Load(m, EffectiveAddress(m, i), Width(i.op))
  IN  Def(m, i.rd, CASE i.op = "ldrsb" -> Signed(x, ByteSize)
                     [] i.op = "ldrsh" -> Signed(x, HalfwordSize)
                     [] OTHER -> x)
Storing(m, i) ==
  [Same(m) EXCEPT !.bytes = Put(@, EffectiveAddress(m, i), Width(i.op), m.regs[i.rd])]

\* Block transfers: register q of the list has the word at Place(q) for its own.
Place(list, base, q) == Aligned(Wrap(base + 4 * Cardinality({p \in list : p < q})), 4)
LoadingBlock(m, list, n, updated) ==
  LET regs_after == [q \in Registers \ {PC} |->
                       IF q \in list THEN Load(m, Place(list, m.regs[n], q), 4)
                       ELSE IF q = n THEN Wrap(updated) ELSE m.regs[q]]
      next == IF PC \in list THEN Goto(m, Load(m, Place(list, m.regs[n], PC), 4)) ELSE Same(m)
  IN  [next EXCEPT !.regs = regs_after]
StoringBlock(m, list, n, base, updated) ==
  [Same(m) EXCEPT
     !.regs[n] = Wrap(updated),
     !.bytes = [c \in DataBytes |->
                  IF \E q \in list : Place(list, base, q) = Aligned(c, 4)
                  THEN ByteOf(m.regs[CHOOSE q \in list : Place(list, base, q) = Aligned(c, 4)], c % 4)
                  ELSE @[c]]]

\* A right shift by an immediate zero shifts the whole word out.
ShiftOperand(m, i) ==
  LET n == Operand2(m, i)
  IN  IF n = 0 /\ i.fn \in {"lsr", "asr"} /\ i.rm \notin Registers THEN W ELSE n
Computed(m, i) ==
  LET out == Alu(i.fn, R(m, i.rn), ShiftOperand(m, i), m.flags)
  IN  [(IF i.fn \in CompareOps THEN Same(m) ELSE Def(m, i.rd, out.r)) EXCEPT !.flags = out.f]

FlagBits(f) ==
  Half * AsBit(f.N) + (Half \div 2) * AsBit(f.Z) + (Half \div 4) * AsBit(f.C)
    + (Half \div 8) * AsBit(f.V)

\* A branch to an even address is the host's affair: the program goes on behind
\* it, or a BX returns to the address in LR.
Effects(m, i) ==
  LET size == 4 * Cardinality(i.list)
  IN  CASE i.op = "alu" -> {Computed(m, i)}
        [] i.op = "unary" -> {Def(m, i.rd, Converted(i.fn, R(m, i.rm)))}
        [] i.op = "mov" -> {Def(m, i.rd, R(m, i.rm))}
        [] i.op = "addhigh" -> {Def(m, i.rd, R(m, i.rd) + R(m, i.rm))}
        [] i.op = "address" ->
             {Def(m, i.rd, Aligned(R(m, i.rn), IF i.rn = PC THEN 4 ELSE 1) + i.imm)}
        [] i.op = "addsp" -> {Def(m, SP, m.regs[SP] + i.imm)}
        [] i.op \in {"ldr", "ldrb", "ldrsb", "ldrh", "ldrsh"} -> {Loading(m, i)}
        [] i.op \in {"str", "strb", "strh"} -> {Storing(m, i)}
        [] i.op = "ldm" -> {LoadingBlock(m, i.list, i.rn, m.regs[i.rn] + size)}
        [] i.op = "pop" -> {LoadingBlock(m, i.list, SP, m.regs[SP] + size)}
        [] i.op = "stm" -> {StoringBlock(m, i.list, i.rn, m.regs[i.rn], m.regs[i.rn] + size)}
        [] i.op = "push" -> {StoringBlock(m, i.list, SP, m.regs[SP] - size, m.regs[SP] - size)}
        [] i.op = "branch" -> {IF Holds(i.cond, m.flags) THEN Goto(m, R(m, PC) + i.imm) ELSE Same(m)}
        [] i.op = "jump" -> {Goto(m, R(m, PC) + i.imm)}
        [] i.op = "bl1" -> {Def(m, LR, R(m, PC) + i.imm)}
        [] i.op = "bl2" -> {Call(m, m.regs[LR] + i.imm)}
        [] i.op = "blx1" -> {Call(m, Aligned(Wrap(m.regs[LR] + i.imm), 4))}
        [] i.op = "blx" -> {IF R(m, i.rm) % 2 = 1 THEN Call(m, R(m, i.rm)) ELSE Same(m)}
        [] i.op = "bx" -> IF R(m, i.rm) % 2 = 1 THEN {Goto(m, R(m, i.rm))}
                          ELSE {Same(m), Goto(m, m.regs[LR])}
        [] i.op = "swi_flags" -> {Def(m, 0, FlagBits(m.flags))}
        [] i.op \in {"nop", "bkpt", "swi", "undefined"} -> {Same(m)}

-----------------------------------------------------------------------------
(* Steps. *)

Instruction ==
  /\ status \in {"ready", "torn"} /\ status' = "ready"
  /\ pc \in DOMAIN code
  /\ State' \in Effects(State, code[pc])
  /\ UNCHANGED code

\* Nothing of an instruction that was left half done is part of the machine's state.
Tear == status = "ready" /\ status' = "torn" /\ UNCHANGED <<machine, code>>
Lose == status = "torn" /\ status' = "lost" /\ UNCHANGED code
Wander == status = "lost" /\ status' = "lost" /\ UNCHANGED code

Cleared == [N |-> FALSE, Z |-> FALSE, C |-> FALSE, V |-> FALSE]

\* A reset keeps memory and general registers, if they were known.  If its vector is an
\* ARM address the program has ended; it would go on in front of that address.
StartAt(vector) == IF vector % 2 = 1 THEN vector - 1 ELSE Wrap(vector - 2)
Reset ==
  /\ status' = "ready"
  /\ flags' = Cleared /\ pc' = StartAt(ResetVectors[code])
  /\ regs'[SP] = InitialSP /\ regs'[LR] = Modulus - 1
  /\ status = "ready" => /\ bytes' = bytes
                         /\ \A q \in GeneralRegs : regs'[q] = regs[q]
  /\ UNCHANGED code

\* A reset that could not read the vectors leaves the program counter.
HalfReset ==
  /\ status = "ready" /\ status' = "ready"
  /\ flags' = Cleared
  /\ regs' \in {regs, [regs EXCEPT ![SP] = InitialSP, ![LR] = Modulus - 1]}
  /\ UNCHANGED <<pc, bytes, code>>

Next == Instruction \/ Tear \/ Lose \/ Wander \/ Reset \/ HalfReset

Spec == Init /\ [][Next]_vars
=============================================================================
