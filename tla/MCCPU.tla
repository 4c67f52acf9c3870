-------------------------------- MODULE MCCPU --------------------------------
(* CPU with 64 bytes of address space: vectors at 0, code from 8 on, RAM from *)
(* 32 on, and seven programs.                                                *)
EXTENDS CPU

AluFrom(fn, d, n, x) == [op |-> "alu", fn |-> fn, rd |-> d, rn |-> n, rm |-> -1, imm |-> x]
Alu3(fn, d, n, m) == [op |-> "alu", fn |-> fn, rd |-> d, rn |-> n, rm |-> m]
AluImm(fn, d, x) == AluFrom(fn, d, d, x)
AluReg(fn, d, m) == Alu3(fn, d, d, m)
UnaryReg(fn, d, m) == [op |-> "unary", fn |-> fn, rd |-> d, rm |-> m]
Register(op, d, m) == [op |-> op, rd |-> d, rm |-> m]
Block(op, n, list) == [op |-> op, rn |-> n, list |-> list]
Memory(op, d, n, x) == [op |-> op, rd |-> d, rn |-> n, rm |-> -1, imm |-> x]
Indexed(op, d, n, m) == [op |-> op, rd |-> d, rn |-> n, rm |-> m]
Offset(op, x) == [op |-> op, imm |-> x]
On(op, m) == [op |-> op, rm |-> m]
Just(op) == [op |-> op]

Code(seq) == [a \in {8 + 2 * (k - 1) : k \in DOMAIN seq} |-> seq[(a - 8) \div 2 + 1]]

\* A call of a function that calls another, through BL and through BLX.
Calls == Code(<<
  AluImm("mov", 1, 27),                          \*  8
  Offset("bl1", 0), Offset("bl2", 4),            \* 10  bl 18
  Just("bkpt"), Offset("jump", -10),             \* 14  b 10
  Block("push", SP, {0, LR}), On("blx", 1),      \* 18  blx r1
  Block("pop", SP, {0, PC}), Just("undefined"),  \* 22
  AluReg("neg", 0, 1), On("bx", LR) >>)          \* 26

\* Block transfers over words that may be missing, one of them replacing its base,
\* from where it can be repeated and does something else.
Blocks == Code(<<
  AluImm("mov", 0, 32), AluImm("mov", 1, 44),    \*  8
  Memory("str", 1, 0, 0),                        \* 12
  Block("ldm", 0, {0, 1}),                       \* 14
  AluImm("mov", 1, 36), Block("stm", 0, {0, 1}), \* 16
  Memory("ldr", 0, 1, 0),                        \* 20
  Block("ldm", 1, {0}),                          \* 22
  Memory("str", 1, SP, 0),                       \* 24
  Block("pop", SP, {0, 1}),                      \* 26
  Block("push", SP, {1}), Just("swi") >>)        \* 28

\* A loop, and a branch to the host.
Host == Code(<<
  Offset("bl1", 0), Offset("bl2", 4),            \*  8  bl 16
  On("blx", 0), Offset("jump", -10),             \* 12  b 8
  AluImm("mov", 0, 2), AluImm("sub", 0, 1),      \* 16
  [op |-> "branch", cond |-> "ne", imm |-> -6],  \* 20  bne 18
  [op |-> "addsp", imm |-> -4],                  \* 22
  [op |-> "addsp", imm |-> 4],                   \* 24
  [op |-> "mov", rd |-> 1, rm |-> LR],           \* 26
  On("bx", 0) >>)                                \* 28

\* Bytes and halfwords, the literal of a load among them.
Bytes == Code(<<
  AluImm("mov", 1, 177),                         \*  8
  Memory("address", 0, PC, 24),                  \* 10  adr r0, 36
  Memory("str", 1, 0, 0),                        \* 12
  Memory("strb", 1, 0, 1),                       \* 14
  Memory("ldrsb", 1, 0, 3),                      \* 16
  Memory("strh", 1, 0, 2),                       \* 18
  Memory("ldrsh", 1, 0, 2),                      \* 20
  Indexed("ldrb", 1, 0, 1),                      \* 22
  Memory("ldrh", 0, 0, 0),                       \* 24
  Memory("ldr", 1, PC, 8),                       \* 26
  Memory("address", 0, SP, -4),                  \* 28
  Indexed("strb", 1, 0, 0) >>)                   \* 30

\* Extension and reversal; twice round, and the second jump is to an ARM address.
Unaries == Code(<<
  AluImm("mov", 1, 232), Register("addhigh", 1, LR),           \*  8
  UnaryReg("rev", 0, 1), UnaryReg("sxtb", 0, 0),               \* 12
  UnaryReg("revsh", 0, 0), UnaryReg("rev16", 0, 0),            \* 16
  UnaryReg("uxth", 0, 1), Offset("bl1", 0),                    \* 20
  AluReg("cmp", 1, 0), Just("swi_flags"),                      \* 24
  AluReg("cmp", LR, SP),                                       \* 28
  Register("addhigh", PC, 1) >>)                               \* 30

\* Distinct operands, a high register, and a call by BLX(1).
Forms == Code(<<
  AluImm("mov", 0, 150), Register("mov", 8, 0),  \*  8
  AluFrom("lsr", 1, 0, 0),                       \* 12  by the whole word
  AluFrom("add", 1, 0, 0),                       \* 14  mov r1, r0
  Offset("bl1", 0), Offset("blx1", 6),           \* 16  blx 24, from 26
  AluReg("cmp", 8, 1), Offset("jump", -18),      \* 20  b 8
  AluFrom("asr", 0, 1, 3), Alu3("sub", 1, 0, 1), \* 24
  Register("addhigh", 8, 1), On("bx", LR) >>)    \* 28

\* A loop that never traps, and whose reset vector is an ARM address.
Spin == Code(<<
  AluImm("mov", 0, 189), UnaryReg("sxth", 1, 0),                       \*  8
  UnaryReg("uxtb", 0, 1), Just("nop"), AluImm("cmp", 1, 1),            \* 12
  [op |-> "branch", cond |-> "lt", imm |-> -14] >>)                    \* 18  blt 8

MCPrograms == {Spin, Calls, Blocks, Host, Bytes, Unaries, Forms}
MCResetVectors == [code \in MCPrograms |-> IF code = Spin THEN 12 ELSE 9]
MCDataWords == {32, 36, 44, 48, 52, 56}
MCHoles == {{}, {36}, {48}, {56}, {4, 16}}
=============================================================================
