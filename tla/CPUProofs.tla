------------------------------ MODULE CPUProofs ------------------------------
(***************************************************************************)
(* What holds of the interpreter for every program, memory map, stop       *)
(* address, trap, abort and exception: its state is well typed, what run   *)
(* tells the embedder is true, an instruction that an exception left half  *)
(* done can be repeated as if it had never been interrupted, and the       *)
(* interpreter implements the machine of ThumbMachine.                     *)
(***************************************************************************)
EXTENDS CPU, ThumbALUProofs

Reasons == {"no_trap", "breakpoint", "blx_leave_thumb", "bx_leave_thumb", "stop", "fetch_trap"}

\* What an instruction works on and leaves: registers that hold words, the program
\* counter an even one, and RAM of words.
RegsOK(r) == r \in [Regs -> Word] /\ r[PC] % 2 = 0
MemOK(m) == m \in [DataWords -> Word]
OutcomeOK(out) == RegsOK(out.reg) /\ out.cpsr \in Flags /\ MemOK(out.mem)

\* The special registers are none of the general ones.
LEMMA RegsAreNumbers ==
  /\ SP \in Regs /\ LR \in Regs /\ PC \in Regs
  /\ LowRegs \subseteq GeneralRegs /\ GeneralRegs \subseteq Regs
  /\ LowRegs \subseteq Nat /\ Regs \subseteq Nat
  /\ \A q \in GeneralRegs : q # SP /\ q # LR /\ q # PC
  /\ SP # LR /\ SP # PC /\ LR # PC
  /\ -1 \notin Regs
BY RegsAssumption DEF GeneralRegs, Regs, SP, LR, PC

\* The width of a word is even, so that clearing bit 0 leaves a word.
LEMMA Parity ==
  /\ Modulus \in Nat \ {0} /\ Modulus % 2 = 0
  /\ \A x \in Word : x \in Int /\ Even(x) \in Word /\ Even(x) % 2 = 0
  /\ \A x \in Int : Wrap(x) \in Word /\ (x % 2 = 0 => Wrap(x) % 2 = 0)
  /\ 0 \in Word /\ Modulus - 1 \in Word
<1>1. Half \in Nat \ {0} /\ Modulus \in Nat \ {0} /\ Modulus = 2 * Half
  BY WordSize DEF Modulus
<1>2. ASSUME NEW x \in Word PROVE x \in Int /\ Even(x) \in Word /\ Even(x) % 2 = 0
  BY <1>1 DEF Word, Even
<1>3. ASSUME NEW x \in Int PROVE Wrap(x) \in Word /\ (x % 2 = 0 => Wrap(x) % 2 = 0)
  <2>1. PICK d \in Int, s \in 0 .. Modulus - 1 : s = x % Modulus /\ x = Modulus * d + s
    <3>1. /\ x \div Modulus \in Int /\ x % Modulus \in 0 .. Modulus - 1
          /\ x = Modulus * (x \div Modulus) + (x % Modulus)
      BY <1>1, DivExists
    <3>2. QED
      BY <3>1
  <2>2. PICK e \in Int : e = Half * d
    BY <1>1
  <2>3. x = 2 * e + s
    BY <1>1, <2>1, <2>2
  <2>4. x % 2 = s % 2
    BY <1>1, <2>3
  <2>5. Wrap(x) = s
    BY <2>1 DEF Wrap
  <2>6. QED
    BY <1>1, <2>4, <2>5 DEF Word
<1>4. QED
  BY <1>1, <1>2, <1>3 DEF Word

\* write_register leaves words in the registers and an even program counter.
LEMMA SetType ==
  ASSUME NEW r, RegsOK(r), NEW d, NEW x \in Int
  PROVE  RegsOK(Set(r, d, x))
<1>1. Wrap(x) \in Word /\ Even(Wrap(x)) \in Word /\ Even(Wrap(x)) % 2 = 0
  BY Parity
<1>2. CASE d = PC
  BY <1>1, <1>2, RegsAreNumbers DEF Set, RegsOK
<1>3. CASE d # PC
  <2>1. Set(r, d, x) = [r EXCEPT ![d] = Wrap(x)]
    BY <1>3 DEF Set
  <2>2. QED
    BY <1>1, <1>3, <2>1, RegsAreNumbers DEF RegsOK
<1>4. QED
  BY <1>2, <1>3

-----------------------------------------------------------------------------
(* Bytes and halfwords. *)

\* A word is two halfwords and a halfword two bytes.
LEMMA ByteSizes ==
  /\ ByteSize \in Nat \ {0} /\ HalfwordSize \in Nat \ {0}
  /\ HalfwordSize = ByteSize * ByteSize /\ Modulus = HalfwordSize * HalfwordSize
<1>1. PICK n \in Nat : n = W \div 4 /\ W = (n + n) + (n + n)
  <2>1. W \div 4 \in Nat /\ W = 4 * (W \div 4)
    BY WordSize, ByteAssumption
  <2>2. PICK n \in Nat : n = W \div 4 /\ W = 4 * n
    BY <2>1
  <2>3. W = (n + n) + (n + n)
    BY <2>2
  <2>4. QED
    BY <2>2, <2>3
<1>2. PICK b \in Nat \ {0} : b = 2 ^ n
  BY PowerIsNatural
<1>3. n + n \in Nat /\ 2 ^ (n + n) = b * b
  BY <1>2, PowerSum
<1>4. 2 ^ ((n + n) + (n + n)) = (b * b) * (b * b)
  BY <1>3, PowerSum
<1>5. ByteSize = b /\ HalfwordSize = b * b
  BY <1>1, <1>2 DEF ByteSize, HalfwordSize
<1>6. Modulus = (b * b) * (b * b)
  BY <1>1, <1>4, WordSize
<1>7. b * b \in Nat \ {0}
  BY <1>2
<1>8. QED
  BY <1>5, <1>6, <1>7

\* A byte of a word, and a number that is sign extended.
LEMMA ByteType ==
  /\ \A x \in Int, k \in Nat : ByteOf(x, k) \in Int
  /\ \A x, n \in Int : SignExtend(x, n) \in Int
<1>1. ASSUME NEW x \in Int, NEW k \in Nat PROVE ByteOf(x, k) \in Int
  <2>1. k * (W \div 4) \in Nat
    <3>1. W \div 4 \in Nat
      BY WordSize
    <3>2. QED
      BY <3>1
  <2>2. 2 ^ (k * (W \div 4)) \in Nat \ {0}
    BY <2>1, PowerIsNatural
  <2>3. x \div 2 ^ (k * (W \div 4)) \in Int
    BY <2>2
  <2>4. QED
    BY <2>3, ByteSizes DEF ByteOf
<1>2. ASSUME NEW x \in Int, NEW n \in Int PROVE SignExtend(x, n) \in Int
  BY Parity DEF SignExtend
<1>3. QED
  BY <1>1, <1>2

\* Extension and reversal give a number.
LEMMA UnaryType ==
  ASSUME NEW fn \in UnaryOps, NEW x \in Int
  PROVE  Unary(fn, x) \in Int
<1>1. x % ByteSize \in Int /\ x % HalfwordSize \in Int /\ ByteSize \in Int /\ HalfwordSize \in Int
  BY ByteSizes
<1>2. /\ ByteOf(x, 0) \in Int /\ ByteOf(x, 1) \in Int
      /\ ByteOf(x, 2) \in Int /\ ByteOf(x, 3) \in Int
  BY ByteType
<1>3. \A b0, b1, b2, b3 \in Int : FromBytes(b0, b1, b2, b3) \in Int
  BY <1>1 DEF FromBytes
<1>4. ByteOf(x, 1) + ByteSize * ByteOf(x, 0) \in Int
  BY <1>1, <1>2
<1>5. QED
  BY <1>1, <1>2, <1>3, <1>4, ByteType DEF Unary, UnaryOps

\* The halfword that a 16-bit access reads.
LEMMA ReadHalfType ==
  ASSUME NEW w \in Word, NEW a \in Int
  PROVE  ReadHalf(w, a) \in 0 .. HalfwordSize - 1
<1>1. w \in Nat /\ w < HalfwordSize * HalfwordSize
  BY ByteSizes DEF Word
<1>2. w \div HalfwordSize \in 0 .. HalfwordSize - 1
  BY <1>1, ByteSizes, DivBound
<1>3. w % HalfwordSize \in 0 .. HalfwordSize - 1
  BY <1>1, ByteSizes
<1>4. QED
  BY <1>2, <1>3 DEF ReadHalf

\* Writing a halfword into a word leaves a word.
LEMMA WriteHalfType ==
  ASSUME NEW w \in Word, NEW a \in Int, NEW h \in 0 .. HalfwordSize - 1
  PROVE  WriteHalf(w, a, h) \in Word
<1>1. PICK H \in Nat \ {0} : H = HalfwordSize /\ Modulus = H * H
  BY ByteSizes
<1>2. w \in Nat /\ w < H * H
  BY <1>1 DEF Word
<1>3. PICK d \in 0 .. H - 1, s \in 0 .. H - 1 : s = w % H /\ w = H * d + s
  <2>1. w \div H \in 0 .. H - 1
    BY <1>2, DivBound
  <2>2. w % H \in 0 .. H - 1 /\ w = H * (w \div H) + (w % H)
    <3>1. w \in Int
      BY <1>2
    <3>2. QED
      BY <3>1, DivExists
  <2>3. QED
    BY <2>1, <2>2
<1>4. H * d <= H * (H - 1) /\ H * h <= H * (H - 1) /\ H * d >= 0 /\ H * h >= 0 /\ H * (H - 1) = H * H - H
  BY <1>1
<1>5. s + H * h \in 0 .. H * H - 1 /\ w - s + h \in 0 .. H * H - 1
  BY <1>1, <1>3, <1>4
<1>6. QED
  BY <1>1, <1>3, <1>5 DEF WriteHalf, Word

\* STRB changes one byte of a halfword.
LEMMA MergeByteType ==
  ASSUME NEW h \in 0 .. HalfwordSize - 1, NEW a \in Int, NEW x \in Int
  PROVE  MergeByte(h, a, x) \in 0 .. HalfwordSize - 1
<1>1. PICK B \in Nat \ {0} : B = ByteSize /\ HalfwordSize = B * B
  BY ByteSizes
<1>2. PICK b \in 0 .. B - 1 : b = x % B
  BY <1>1
<1>3. PICK d \in 0 .. B - 1, s \in 0 .. B - 1 : s = h % B /\ h = B * d + s
  <2>0. h \in Nat /\ h < B * B
    BY <1>1
  <2>1. h \div B \in 0 .. B - 1
    BY <2>0, DivBound
  <2>2. h % B \in 0 .. B - 1 /\ h = B * (h \div B) + (h % B)
    <3>1. h \in Int
      BY <2>0
    <3>2. QED
      BY <3>1, DivExists
  <2>3. QED
    BY <2>1, <2>2
<1>4. B * d <= B * (B - 1) /\ B * b <= B * (B - 1) /\ B * d >= 0 /\ B * b >= 0 /\ B * (B - 1) = B * B - B
  BY <1>1
<1>5. s + B * b \in 0 .. B * B - 1 /\ h - s + b \in 0 .. B * B - 1
  BY <1>1, <1>3, <1>4
<1>6. QED
  BY <1>1, <1>2, <1>3, <1>5 DEF MergeByte

\* What a narrow load makes of a halfword is a number.
LEMMA NarrowType ==
  ASSUME NEW op \in NarrowLoads, NEW h \in 0 .. HalfwordSize - 1, NEW a \in Int
  PROVE  Narrow(op, h, a) \in Int
<1>1. h \div ByteSize \in Int /\ h % ByteSize \in Int /\ h \in Int
  BY ByteSizes
<1>2. PICK b \in Int : b = IF a % 2 = 1 THEN h \div ByteSize ELSE h % ByteSize
  BY <1>1
<1>3. QED
  BY <1>1, <1>2, ByteType, ByteSizes DEF Narrow, NarrowLoads

-----------------------------------------------------------------------------
(* Instructions. *)

\* The instructions that access the RAM.
Accesses == {"ldr", "str", "ldm", "stm", "pop", "push"} \cup NarrowLoads \cup NarrowStores

\* The names of the instructions are different.
LEMMA StepByName ==
  ASSUME NEW i, NEW r, NEW ok, NEW hostTraps
  PROVE  /\ i.op = "alu" => Step(i, r, ok, hostTraps) = AluStep(i, r)
         /\ i.op = "unary" => Step(i, r, ok, hostTraps) = UnaryStep(i, r)
         /\ i.op = "mov" => Step(i, r, ok, hostTraps) = MovStep(i, r)
         /\ i.op = "addhigh" => Step(i, r, ok, hostTraps) = AddHighStep(i, r)
         /\ i.op = "address" => Step(i, r, ok, hostTraps) = AddressStep(i, r)
         /\ i.op = "swi_flags" => Step(i, r, ok, hostTraps) = SwiFlagsStep(r)
         /\ i.op = "nop" => Step(i, r, ok, hostTraps) = Writes(r)
         /\ i.op = "addsp" => Step(i, r, ok, hostTraps) = AddSPStep(i, r)
         /\ i.op = "ldr" => Step(i, r, ok, hostTraps) = LdrStep(i, r, ok)
         /\ i.op = "str" => Step(i, r, ok, hostTraps) = StrStep(i, r, ok)
         /\ i.op \in NarrowLoads => Step(i, r, ok, hostTraps) = NarrowLoadStep(i, r, ok)
         /\ i.op \in NarrowStores => Step(i, r, ok, hostTraps) = NarrowStoreStep(i, r, ok)
         /\ i.op = "ldm" => Step(i, r, ok, hostTraps) = LdmStep(i, r, ok)
         /\ i.op = "stm" => Step(i, r, ok, hostTraps) = StmStep(i, r, ok)
         /\ i.op = "pop" => Step(i, r, ok, hostTraps) = PopStep(i, r, ok)
         /\ i.op = "push" => Step(i, r, ok, hostTraps) = PushStep(i, r, ok)
         /\ i.op = "branch" => Step(i, r, ok, hostTraps) = BranchStep(i, r)
         /\ i.op = "jump" => Step(i, r, ok, hostTraps) = JumpStep(i, r)
         /\ i.op = "bl1" => Step(i, r, ok, hostTraps) = Bl1Step(i, r)
         /\ i.op = "bl2" => Step(i, r, ok, hostTraps) = Bl2Step(i, r)
         /\ i.op = "blx1" => Step(i, r, ok, hostTraps) = Blx1Step(i, r)
         /\ i.op = "blx" => Step(i, r, ok, hostTraps) = BlxStep(i, r)
         /\ i.op = "bx" => Step(i, r, ok, hostTraps) = BxStep(i, r, hostTraps)
         /\ i.op \in {"bkpt", "swi", "undefined"} =>
              Step(i, r, ok, hostTraps) = Traps(r, "breakpoint")
<1>. USE DEF Step, NarrowLoads, NarrowStores
<1>1. CASE i.op \in {"alu", "unary", "mov", "addhigh", "address", "swi_flags", "nop", "addsp"}
  BY <1>1
<1>2. CASE i.op \in {"ldr", "str"} \cup NarrowLoads \cup NarrowStores
  BY <1>2
<1>3. CASE i.op \in {"ldm", "stm", "pop", "push"}
  BY <1>3
<1>4. CASE i.op \in {"branch", "jump", "bl1", "bl2", "blx1", "blx", "bx"}
  BY <1>4
<1>5. CASE i.op \in {"bkpt", "swi", "undefined"}
  BY <1>5
<1>6. QED
  BY <1>1, <1>2, <1>3, <1>4, <1>5

\* The outcomes of an instruction that changes no more than registers.
LEMMA OutcomeType ==
  ASSUME cpsr \in Flags, MemOK(mem), NEW r, RegsOK(r), NEW trap
  PROVE  /\ OutcomeOK(Writes(r)) /\ OutcomeOK(Traps(r, trap)) /\ OutcomeOK(Faults(r, mem))
BY DEF OutcomeOK, Writes, Traps, Faults, Outcome

\* One that also changes memory, or is left with memory changed.
LEMMA StoreOutcomeType ==
  ASSUME cpsr \in Flags, NEW m, MemOK(m), NEW r, RegsOK(r)
  PROVE  OutcomeOK(Outcome(r, cpsr, m, "no_trap")) /\ OutcomeOK(Faults(r, m))
BY DEF OutcomeOK, Faults, Outcome

\* The registers that an instruction reads hold numbers.
LEMMA ReadsType ==
  ASSUME NEW r, RegsOK(r)
  PROVE  /\ \A q \in Regs : r[q] \in Word /\ r[q] \in Int
         /\ r[PC] \in Int /\ r[SP] \in Int /\ r[LR] \in Int
BY RegsAreNumbers, Parity DEF RegsOK

\* The address of an access.
LEMMA AddressType ==
  ASSUME NEW i, Decoded(i), i.op \in {"ldr", "str"} \cup NarrowLoads \cup NarrowStores,
         NEW r, RegsOK(r)
  PROVE  Address(i, r) \in Word /\ Address(i, r) \in Int
<1>1. i.rn \in Regs /\ (i.rm \in Regs \/ i.imm \in Int)
  BY RegsAreNumbers DEF Decoded
<1>2. Operand(i, r) \in Int
  BY <1>1, ReadsType DEF Operand
<1>3. r[i.rn] + Operand(i, r) \in Int
  BY <1>1, <1>2, ReadsType
<1>4. QED
  BY <1>3, Parity DEF Address

\* A list of registers has a number of members.
LEMMA ListIsFinite ==
  ASSUME NEW list, list \subseteq Regs
  PROVE  IsFiniteSet(list) /\ Cardinality(list) \in Nat
<1>1. IsFiniteSet(0 .. 15) /\ Regs \subseteq 0 .. 15
  <2>1. IsFiniteSet(0 .. 15)
    <3>1. PICK l \in Int, h \in Int : l = 0 /\ h = 15
      OBVIOUS
    <3>2. IsFiniteSet(l .. h)
      BY FS_Interval
    <3>3. QED
      BY <3>1, <3>2
  <2>2. QED
    BY <2>1, RegsAssumption DEF GeneralRegs, Regs, SP, LR, PC
<1>2. IsFiniteSet(list)
  BY <1>1, FS_Subset
<1>3. QED
  BY <1>2, FS_CardinalityType

\* A block load stops at the first word that does not answer, and loads words.
LEMMA LoadedType ==
  ASSUME MemOK(mem), NEW r, RegsOK(r), NEW list, list \subseteq Regs,
         NEW base, NEW ok, ok \subseteq DataWords
  PROVE  RegsOK(Loaded(r, list, base, Reached(list, base, ok)))
<1>. DEFINE reached == Reached(list, base, ok)
<1>1. ASSUME NEW q \in reached PROVE mem[Slot(list, q, base)] \in Word
  <2>1. q \in list /\ \A p \in list : p <= q => Slot(list, p, base) \in ok
    BY DEF Reached
  <2>2. Slot(list, q, base) \in ok
    BY <2>1, RegsAreNumbers
  <2>3. QED
    BY <2>2 DEF MemOK
<1>. HIDE DEF reached
<1>2. ASSUME NEW x \in Word PROVE Wrap(Even(x) + 2) \in Word /\ Wrap(Even(x) + 2) % 2 = 0
  <2>1. Even(x) \in Int /\ Even(x) % 2 = 0
    BY Parity
  <2>2. Even(x) + 2 \in Int /\ (Even(x) + 2) % 2 = 0
    BY <2>1
  <2>3. QED
    BY <2>2, Parity
<1>3. ASSUME NEW q \in Regs
      PROVE  Loaded(r, list, base, reached)[q] =
               IF q \notin reached THEN r[q]
               ELSE IF q = PC THEN Wrap(Even(mem[Slot(list, q, base)]) + 2)
               ELSE mem[Slot(list, q, base)]
  BY DEF Loaded
<1>4. ASSUME NEW q \in Regs PROVE Loaded(r, list, base, reached)[q] \in Word
  BY <1>1, <1>2, <1>3 DEF RegsOK
<1>5. Loaded(r, list, base, reached)[PC] % 2 = 0
  BY <1>1, <1>2, <1>3, RegsAreNumbers DEF RegsOK
<1>6. Loaded(r, list, base, reached) \in [Regs -> Word]
  <2>1. Loaded(r, list, base, reached) = [q \in Regs |-> Loaded(r, list, base, reached)[q]]
    BY DEF Loaded
  <2>2. QED
    BY <1>4, <2>1
<1>7. QED
  BY <1>5, <1>6 DEF RegsOK, reached

\* A block store stores words.
LEMMA StoredType ==
  ASSUME MemOK(mem), NEW r, RegsOK(r), NEW list, NEW base, NEW reached, reached \subseteq Regs
  PROVE  MemOK(Stored(r, list, base, reached))
<1>1. ASSUME NEW a \in DataWords, \E q \in reached : Slot(list, q, base) = a
      PROVE  r[CHOOSE q \in reached : Slot(list, q, base) = a] \in Word
  <2>1. (CHOOSE q \in reached : Slot(list, q, base) = a) \in Regs
    BY <1>1
  <2>2. QED
    BY <2>1 DEF RegsOK
<1>2. QED
  BY <1>1 DEF MemOK, Stored

\* Every instruction leaves words in registers and RAM, and an even program counter.
LEMMA StepType ==
  ASSUME cpsr \in Flags, MemOK(mem), NEW i, Decoded(i), NEW r, RegsOK(r),
         NEW ok, ok \subseteq DataWords, NEW hostTraps
  PROVE  OutcomeOK(Step(i, r, ok, hostTraps))
<1>. DEFINE out == Step(i, r, ok, hostTraps)
<1>0. /\ \A q \in Regs : r[q] \in Word /\ r[q] \in Int
      /\ r[PC] \in Int /\ r[SP] \in Int /\ r[LR] \in Int
  BY ReadsType
<1>1. ASSUME NEW d, NEW x \in Int PROVE OutcomeOK(Writes(Set(r, d, x)))
  BY SetType, OutcomeType
<1>2. OutcomeOK(Writes(r)) /\ OutcomeOK(Faults(r, mem)) /\ \A trap : OutcomeOK(Traps(r, trap))
  BY OutcomeType
<1>3. ASSUME NEW x \in Int PROVE Even(x) \in Int /\ WordOf(x) \in Int /\ Wrap(x) \in Int
  BY Parity DEF Even, WordOf
<1>4. CASE i.op = "alu"
  <2>1. /\ i.fn \in LogicOps \cup ArithmeticOps \cup ShiftOps
        /\ i.rn \in Regs
    BY <1>4, RegsAreNumbers DEF Decoded
  <2>2. r[i.rn] \in Word /\ AluOperand(i, r) \in Nat /\ (i.fn \in ShiftOps \/ AluOperand(i, r) \in Word)
    <3>1. \A x \in Word : x \in Nat
      BY DEF Word
    <3>2. r[i.rn] \in Word
      BY <1>0, <2>1
    <3>3. CASE i.rm \in Regs
      BY <1>0, <3>1, <3>2, <3>3 DEF AluOperand, Operand
    <3>4. CASE i.rm \notin Regs /\ i.fn \notin ShiftOps
      <4>1. i.imm \in Word
        BY <1>4, <3>4, RegsAreNumbers DEF Decoded
      <4>2. QED
        BY <3>1, <3>2, <3>4, <4>1 DEF AluOperand, Operand
    <3>5. CASE i.rm \notin Regs /\ i.fn \in ShiftOps
      <4>1. i.imm \in BitPositions
        BY <1>4, <3>5, RegsAreNumbers DEF Decoded
      <4>2. ImmediateAmount(i.fn, i.imm) \in Nat
        BY <4>1, WidthAssumption DEF BitPositions, ImmediateAmount
      <4>3. QED
        BY <3>2, <3>5, <4>2 DEF AluOperand
    <3>6. QED
      BY <3>3, <3>4, <3>5
  <2>3. PICK o : o = Alu(i.fn, r[i.rn], AluOperand(i, r), cpsr)
    OBVIOUS
  <2>4. o.r \in Word /\ o.f \in Flags
    BY <2>1, <2>2, <2>3, AluType
  <2>5. RegsOK(IF i.fn \in CompareOps THEN r ELSE Set(r, i.rd, o.r))
    <3>1. o.r \in Int
      BY <2>4, Parity
    <3>2. QED
      BY <3>1, SetType
  <2>6. out = Outcome(IF i.fn \in CompareOps THEN r ELSE Set(r, i.rd, o.r), o.f, mem, "no_trap")
    BY <1>4, <2>3, StepByName DEF AluStep
  <2>7. QED
    BY <2>4, <2>5, <2>6 DEF OutcomeOK, Outcome
<1>5. CASE i.op \in {"unary", "mov", "addhigh"}
  <2>1. i.rd \in Regs /\ i.rm \in Regs /\ (i.op = "unary" => i.fn \in UnaryOps)
    BY <1>5, RegsAreNumbers DEF Decoded
  <2>2. r[i.rd] \in Int /\ r[i.rm] \in Int
    BY <1>0, <2>1
  <2>3. CASE i.op = "unary"
    <3>1. Unary(i.fn, r[i.rm]) \in Int
      BY <2>1, <2>2, <2>3, UnaryType
    <3>2. QED
      BY <1>1, <2>3, <3>1, StepByName DEF UnaryStep
  <2>4. CASE i.op = "mov"
    <3>1. PICK x \in Int : x = IF i.rd = PC THEN Even(r[i.rm]) + 2 ELSE r[i.rm]
      BY <1>3, <2>2
    <3>2. QED
      BY <1>1, <2>4, <3>1, StepByName DEF MovStep
  <2>5. CASE i.op = "addhigh"
    <3>1. PICK x \in Int : x = Wrap(r[i.rd] + r[i.rm])
      BY <1>3, <2>2
    <3>2. PICK y \in Int : y = IF i.rd = PC THEN Even(x) + 2 ELSE x
      BY <1>3
    <3>3. out = Faults(r, mem) \/ out = Writes(Set(r, i.rd, y))
      BY <2>5, <3>1, <3>2, StepByName DEF AddHighStep
    <3>4. QED
      BY <1>1, <1>2, <3>3
  <2>6. QED
    BY <1>5, <2>3, <2>4, <2>5
<1>6. CASE i.op \in {"address", "addsp", "swi_flags", "nop"}
  <2>1. CASE i.op = "address"
    <3>1. PICK x \in Int : x = (IF i.rn = PC THEN WordOf(r[PC]) ELSE r[SP]) + i.imm
      BY <1>0, <1>3, <2>1 DEF Decoded
    <3>2. QED
      BY <1>1, <2>1, <3>1, StepByName DEF AddressStep
  <2>2. CASE i.op = "addsp"
    <3>1. r[SP] + i.imm \in Int
      BY <1>0, <2>2 DEF Decoded
    <3>2. QED
      BY <1>1, <2>2, <3>1, StepByName DEF AddSPStep
  <2>3. CASE i.op = "swi_flags"
    <3>1. FlagsWord(cpsr) \in Int
      <4>1. /\ AsBit(cpsr.N) \in Int /\ AsBit(cpsr.Z) \in Int
            /\ AsBit(cpsr.C) \in Int /\ AsBit(cpsr.V) \in Int
        BY DEF AsBit
      <4>2. Half \in Int /\ Half \div 2 \in Int /\ Half \div 4 \in Int /\ Half \div 8 \in Int
        BY WordSize
      <4>3. QED
        BY <4>1, <4>2 DEF FlagsWord
    <3>2. QED
      BY <1>1, <2>3, <3>1, StepByName DEF SwiFlagsStep
  <2>4. CASE i.op = "nop"
    BY <1>2, <2>4, StepByName
  <2>5. QED
    BY <1>6, <2>1, <2>2, <2>3, <2>4
<1>7. CASE i.op \in {"ldr", "str"} \cup NarrowLoads \cup NarrowStores
  <2>1. i.rd \in Regs /\ r[i.rd] \in Word /\ r[i.rd] \in Int
    BY <1>0, <1>7, RegsAreNumbers DEF Decoded
  <2>2. PICK a \in Int : a = Address(i, r)
    BY <1>7, AddressType
  <2>3. PICK w : w = WordOf(a)
    OBVIOUS
  <2>4. CASE w \notin ok
    <3>1. out = Faults(r, mem)
      <4>1. CASE i.op = "ldr"
        BY <2>2, <2>3, <2>4, <4>1, StepByName DEF LdrStep
      <4>2. CASE i.op = "str"
        <5>1. WordOf(Address(i, r)) \notin ok
          BY <2>2, <2>3, <2>4
        <5>2. StrStep(i, r, ok) = Faults(r, mem)
          BY Zenon, <5>1 DEF StrStep
        <5>3. QED
          BY <4>2, <5>2, StepByName
      <4>3. CASE i.op \in NarrowLoads
        BY <2>2, <2>3, <2>4, <4>3, StepByName DEF NarrowLoadStep
      <4>4. CASE i.op \in NarrowStores
        <5>1. WordOf(Address(i, r)) \notin ok
          BY <2>2, <2>3, <2>4
        <5>2. NarrowStoreStep(i, r, ok) = Faults(r, mem)
          BY Zenon, <5>1 DEF NarrowStoreStep
        <5>3. QED
          BY <4>4, <5>2, StepByName
      <4>5. QED
        BY <1>7, <4>1, <4>2, <4>3, <4>4
    <3>2. QED
      BY <1>2, <3>1
  <2>5. CASE w \in ok
    <3>1. mem[w] \in Word /\ mem[w] \in Int
      BY <2>5, Parity DEF MemOK
    <3>2. CASE i.op = "ldr"
      BY <1>1, <2>2, <2>3, <2>5, <3>1, <3>2, StepByName DEF LdrStep
    <3>3. CASE i.op \in NarrowLoads
      <4>1. Narrow(i.op, ReadHalf(mem[w], a), a) \in Int
        BY <3>1, <3>3, ReadHalfType, NarrowType
      <4>2. out = Writes(Set(r, i.rd, Narrow(i.op, ReadHalf(mem[w], a), a)))
        BY <2>2, <2>3, <2>5, <3>3, StepByName DEF NarrowLoadStep
      <4>3. QED
        BY <1>1, <4>1, <4>2
    <3>4. ASSUME NEW x \in Word PROVE MemOK([mem EXCEPT ![w] = x])
      BY DEF MemOK
    <3>5. CASE i.op = "str"
      <4>1. out = Outcome(r, cpsr, [mem EXCEPT ![w] = r[i.rd]], "no_trap")
        BY <2>2, <2>3, <2>5, <3>5, StepByName DEF StrStep
      <4>2. QED
        BY <2>1, <3>4, <4>1, StoreOutcomeType
    <3>6. CASE i.op \in NarrowStores
      <4>1. PICK h : h = IF i.op = "strb" THEN MergeByte(ReadHalf(mem[w], a), a, r[i.rd])
                         ELSE r[i.rd] % HalfwordSize
        OBVIOUS
      <4>2. h \in 0 .. HalfwordSize - 1
        <5>1. MergeByte(ReadHalf(mem[w], a), a, r[i.rd]) \in 0 .. HalfwordSize - 1
          BY <2>1, <3>1, ReadHalfType, MergeByteType
        <5>2. r[i.rd] % HalfwordSize \in 0 .. HalfwordSize - 1
          BY <2>1, ByteSizes
        <5>3. QED
          BY <4>1, <5>1, <5>2
      <4>3. WriteHalf(mem[w], a, h) \in Word
        BY <3>1, <4>2, WriteHalfType
      <4>4. out = Outcome(r, cpsr, [mem EXCEPT ![w] = WriteHalf(mem[w], a, h)], "no_trap")
        BY <2>2, <2>3, <2>5, <3>6, <4>1, StepByName DEF NarrowStoreStep
      <4>5. QED
        BY <3>4, <4>3, <4>4, StoreOutcomeType
    <3>7. QED
      BY <1>7, <3>2, <3>3, <3>5, <3>6
  <2>6. QED
    BY <2>4, <2>5
<1>8. CASE i.op \in {"ldm", "pop"}
  <2>1. i.list \subseteq Regs /\ Cardinality(i.list) \in Int
    <3>1. i.list \subseteq Regs
      BY <1>8, RegsAreNumbers DEF Decoded
    <3>2. QED
      BY <3>1, ListIsFinite
  <2>2. PICK n \in Regs : n = IF i.op = "ldm" THEN i.rn ELSE SP
    BY <1>8, RegsAreNumbers DEF Decoded, Regs
  <2>3. PICK base \in Int : base = r[n]
    BY <1>0
  <2>4. PICK loaded : loaded = Loaded(r, i.list, base, Reached(i.list, base, ok))
    OBVIOUS
  <2>5. RegsOK(loaded)
    BY <2>1, <2>4, LoadedType
  <2>6. PICK next \in Int : next = base + 4 * Cardinality(i.list)
    BY <2>1
  <2>7. /\ OutcomeOK(Faults(loaded, mem)) /\ OutcomeOK(Writes(loaded))
        /\ OutcomeOK(Writes(Set(loaded, n, next)))
    BY <2>5, SetType, OutcomeType
  <2>8. out \in {Faults(loaded, mem), Writes(loaded), Writes(Set(loaded, n, next))}
    <3>1. CASE i.op = "ldm"
      BY <2>2, <2>3, <2>4, <2>6, <3>1, StepByName DEF LdmStep
    <3>2. CASE i.op = "pop"
      BY <2>2, <2>3, <2>4, <2>6, <3>2, StepByName DEF PopStep
    <3>3. QED
      BY <1>8, <3>1, <3>2
  <2>9. QED
    BY <2>7, <2>8
<1>9. CASE i.op \in {"stm", "push"}
  <2>1. i.list \subseteq Regs /\ Cardinality(i.list) \in Int
    <3>1. i.list \subseteq Regs
      BY <1>9, RegsAreNumbers DEF Decoded
    <3>2. QED
      BY <3>1, ListIsFinite
  <2>2. PICK n \in Regs : n = IF i.op = "stm" THEN i.rn ELSE SP
    BY <1>9, RegsAreNumbers DEF Decoded, Regs
  <2>3. PICK base \in Int : base = IF i.op = "stm" THEN r[n] ELSE Wrap(r[SP] - 4 * Cardinality(i.list))
    <3>1. r[n] \in Int /\ r[SP] - 4 * Cardinality(i.list) \in Int
      BY <1>0, <2>1
    <3>2. Wrap(r[SP] - 4 * Cardinality(i.list)) \in Int
      BY <1>3, <3>1
    <3>3. QED
      BY <3>1, <3>2
  <2>4. PICK next \in Int : next = IF i.op = "stm" THEN base + 4 * Cardinality(i.list) ELSE base
    BY <2>1
  <2>5. PICK stored : stored = Stored(r, i.list, base, Reached(i.list, base, ok))
    OBVIOUS
  <2>6. MemOK(stored)
    <3>1. Reached(i.list, base, ok) \subseteq Regs
      BY <2>1 DEF Reached
    <3>2. QED
      BY <2>5, <3>1, StoredType
  <2>7. /\ OutcomeOK(Faults(r, stored))
        /\ OutcomeOK(Outcome(Set(r, n, next), cpsr, stored, "no_trap"))
    BY <2>6, SetType, StoreOutcomeType
  <2>8. out = StoreBlock(r, i.list, base, next, n, ok)
    <3>1. CASE i.op = "stm"
      BY <2>2, <2>3, <2>4, <3>1, StepByName DEF StmStep
    <3>2. CASE i.op = "push"
      BY <2>2, <2>3, <2>4, <3>2, StepByName DEF PushStep
    <3>3. QED
      BY <1>9, <3>1, <3>2
  <2>9. QED
    BY <2>5, <2>7, <2>8 DEF StoreBlock
<1>10. CASE i.op \in {"branch", "jump", "bl1", "bl2", "blx1"}
  <2>1. i.imm \in Int
    BY <1>10 DEF Decoded
  <2>2. /\ r[PC] + i.imm + 2 \in Int /\ r[PC] + i.imm \in Int /\ r[LR] + i.imm + 2 \in Int
    BY <1>0, <2>1
  <2>3. CASE i.op = "branch"
    <3>1. out = Writes(r) \/ out = Writes(Set(r, PC, r[PC] + i.imm + 2))
      BY <2>3, StepByName DEF BranchStep
    <3>2. QED
      BY <1>1, <1>2, <2>2, <3>1
  <2>4. CASE i.op = "jump"
    BY <1>1, <2>2, <2>4, StepByName DEF JumpStep
  <2>5. CASE i.op = "bl1"
    BY <1>1, <2>2, <2>5, StepByName DEF Bl1Step
  <2>6. CASE i.op = "bl2"
    <3>1. PICK link \in Int : link = ReturnLink(r)
      BY <1>0, <1>3 DEF ReturnLink
    <3>2. RegsOK(Set(Set(r, LR, link), PC, r[LR] + i.imm + 2))
      BY <2>2, SetType
    <3>3. QED
      BY <2>6, <3>1, <3>2, OutcomeType, StepByName DEF Bl2Step
  <2>7. CASE i.op = "blx1"
    <3>1. PICK link \in Int : link = ReturnLink(r)
      BY <1>0, <1>3 DEF ReturnLink
    <3>2. PICK target \in Int : target = WordOf(Wrap(r[LR] + i.imm)) + 2
      <4>1. r[LR] + i.imm \in Int
        BY <1>0, <2>1
      <4>2. WordOf(Wrap(r[LR] + i.imm)) \in Int
        BY <1>3, <4>1
      <4>3. QED
        BY <4>2
    <3>3. RegsOK(Set(Set(r, LR, link), PC, target))
      BY SetType
    <3>4. QED
      BY <2>7, <3>1, <3>2, <3>3, OutcomeType, StepByName DEF Blx1Step
  <2>8. QED
    BY <1>10, <2>3, <2>4, <2>5, <2>6, <2>7
<1>11. CASE i.op \in {"blx", "bx"}
  <2>1. PICK target \in Int : target = Wrap(r[i.rm] + 2)
    <3>1. r[i.rm] + 2 \in Int
      BY <1>0, <1>11 DEF Decoded
    <3>2. QED
      BY <1>3, <3>1
  <2>2. r[LR] + 2 \in Int
    BY <1>0
  <2>3. CASE i.op = "blx"
    <3>1. PICK link \in Int : link = ReturnLink(r)
      BY <1>0, <1>3 DEF ReturnLink
    <3>2. RegsOK(Set(Set(r, LR, link), PC, target))
      BY SetType
    <3>3. out = Writes(Set(Set(r, LR, link), PC, target)) \/ out = Traps(r, "blx_leave_thumb")
      BY <2>1, <2>3, <3>1, StepByName DEF BlxStep
    <3>4. QED
      BY <1>2, <3>2, <3>3, OutcomeType
  <2>4. CASE i.op = "bx"
    <3>1. out \in {Writes(Set(r, PC, target)), Traps(r, "bx_leave_thumb"), Writes(Set(r, PC, r[LR] + 2))}
      BY <2>1, <2>4, StepByName DEF BxStep
    <3>2. QED
      BY <1>1, <1>2, <2>2, <3>1
  <2>5. QED
    BY <1>11, <2>3, <2>4
<1>12. CASE i.op \in {"bkpt", "swi", "undefined"}
  BY <1>2, <1>12, StepByName
<1>13. QED
  <2>1. i.op \in Ops
    BY DEF Decoded
  <2>2. QED
    BY <1>4, <1>5, <1>6, <1>7, <1>8, <1>9, <1>10, <1>11, <1>12, <2>1 DEF Ops

\* An instruction returns one of the reasons to stop, or none.
LEMMA StepReasons ==
  ASSUME NEW i, i.op \in Ops, NEW r, NEW ok, NEW hostTraps
  PROVE  Step(i, r, ok, hostTraps).trap \in Reasons
<1>. USE DEF Step, NarrowLoads, NarrowStores, Outcome, Writes, Traps, Faults, Reasons
<1>1. CASE i.op \in {"alu", "unary"}
  BY <1>1 DEF AluStep, UnaryStep
<1>2. CASE i.op \in {"mov", "addsp", "address", "swi_flags", "nop"}
  BY <1>2 DEF MovStep, AddSPStep, AddressStep, SwiFlagsStep
<1>3. CASE i.op = "addhigh"
  BY <1>3 DEF AddHighStep
<1>4. CASE i.op \in {"ldr", "str"}
  BY <1>4 DEF LdrStep, StrStep
<1>5. CASE i.op \in NarrowLoads
  BY <1>5 DEF NarrowLoadStep
<1>6. CASE i.op \in NarrowStores
  BY <1>6 DEF NarrowStoreStep
<1>7. CASE i.op \in {"ldm", "pop"}
  BY <1>7 DEF LdmStep, PopStep
<1>8. CASE i.op \in {"stm", "push"}
  BY <1>8 DEF StmStep, PushStep, StoreBlock
<1>9. CASE i.op \in {"branch", "jump", "bl1", "bl2", "blx1", "blx", "bx"}
  BY <1>9 DEF BranchStep, JumpStep, Bl1Step, Bl2Step, Blx1Step, BlxStep, BxStep
<1>10. CASE i.op \in {"bkpt", "swi", "undefined"}
  BY <1>10
<1>11. QED
  BY <1>1, <1>2, <1>3, <1>4, <1>5, <1>6, <1>7, <1>8, <1>9, <1>10 DEF Ops

-----------------------------------------------------------------------------
(* Type correctness. *)

\* The code that runs is one of the programs.
TypeInv == TypeOK /\ program \in Programs

\* The instruction at an address of the program, and the registers it works on.
LEMMA FetchedType ==
  ASSUME TypeInv
  PROVE  /\ RegsOK(reg) /\ RegsOK(Advanced) /\ cpsr \in Flags /\ MemOK(mem)
         /\ \A a \in DOMAIN program : Decoded(program[a]) /\ a \in Word /\ a % 2 = 0
<1>1. RegsOK(reg) /\ reg[PC] \in Int
  BY RegsAreNumbers, Parity DEF TypeInv, TypeOK, RegsOK
<1>2. reg[PC] + 2 \in Int
  BY <1>1
<1>3. RegsOK(Advanced)
  BY <1>1, <1>2, SetType DEF Advanced
<1>4. QED
  BY <1>1, <1>3, ProgramsAssumption, AddressAssumption DEF TypeInv, TypeOK, MemOK

LEMMA InitTypeInv == Init => TypeInv
<1>. SUFFICES ASSUME Init PROVE TypeInv
  OBVIOUS
<1>1. reg \in [Regs -> Word] /\ reg[PC] % 2 = 0
  <2>1. reg[PC] = 0
    BY RegsAreNumbers DEF Init
  <2>2. 0 % 2 = 0
    OBVIOUS
  <2>3. QED
    BY <2>1, <2>2, Parity DEF Init
<1>2. mem \in [DataWords -> Word] /\ cpsr \in Flags
  BY Parity DEF Init, Flags
<1>3. left = 0 /\ 0 \in 0 .. MaxRun
  BY BoundAssumption DEF Init
<1>4. /\ trap_flag = FALSE /\ running = FALSE /\ stop_address = 0 /\ program \in Programs
  BY DEF Init
<1>5. QED
  BY <1>1, <1>2, <1>3, <1>4 DEF TypeInv, TypeOK

\* The variables of run's loop after an iteration.
LEMMA LoopType ==
  ASSUME TypeInv, Executing, NEW abort \in BOOLEAN,
         Unwind(abort) \/ \E trap \in Reasons : AfterExecute(trap, abort)
  PROVE  /\ trap_flag' \in BOOLEAN /\ running' \in BOOLEAN /\ left' \in 0 .. MaxRun
         /\ running' => left' > 0
<1>1. left \in 1 .. MaxRun /\ trap_flag \in BOOLEAN /\ MaxRun \in Nat /\ 0 \in 0 .. MaxRun
  BY BoundAssumption DEF TypeInv, TypeOK, Executing
<1>2. trap_flag' \in BOOLEAN
  BY <1>1 DEF Unwind, AfterExecute
<1>3. CASE Unwind(abort)
  BY <1>1, <1>2, <1>3 DEF Unwind
<1>4. ASSUME NEW trap \in Reasons, AfterExecute(trap, abort)
      PROVE  /\ running' \in BOOLEAN /\ left' \in 0 .. MaxRun
             /\ running' => left' > 0
  <2>1. PICK ended : /\ running' = (ended = "none")
                     /\ left' = IF ended = "none" THEN left - 1 ELSE 0
                     /\ ended = CASE trap_flag' -> "abort"
                                  [] ~trap_flag' /\ trap # "no_trap" -> trap
                                  [] ~trap_flag' /\ trap = "no_trap" ->
                                       IF left = 1 THEN "no_trap" ELSE "none"
    BY <1>4 DEF AfterExecute
  <2>2. left - 1 \in 0 .. MaxRun /\ (left # 1 => left - 1 > 0)
    BY <1>1
  <2>3. trap # "none"
    BY DEF Reasons
  <2>4. QED
    BY <1>1, <1>2, <2>1, <2>2, <2>3
<1>5. QED
  BY <1>2, <1>3, <1>4

\* What the embedder does between two runs.
LEMMA EmbedderType == TypeInv /\ Embedder => TypeInv'
<1>. SUFFICES ASSUME TypeInv, Embedder PROVE TypeInv'
  OBVIOUS
<1>1. BoundAssumption
  BY BoundAssumption
<1>2. ASSUME NEW n \in 0 .. MaxRun, Run(n) PROVE TypeInv'
  <2>1. /\ left' = n /\ trap_flag' = FALSE /\ running' = (n > 0) /\ (n > 0) \in BOOLEAN
        /\ UNCHANGED <<core, embedder>>
    BY <1>2 DEF Run
  <2>2. QED
    BY <2>1 DEF TypeInv, TypeOK, core, embedder
<1>3. CASE AbortRun
  BY <1>3 DEF AbortRun, TypeInv, TypeOK, core, embedder
<1>4. ASSUME NEW a \in StopAddresses, SetStopAddress(a) PROVE TypeInv'
  BY <1>4 DEF SetStopAddress, TypeInv, TypeOK, core, runState
<1>5. ASSUME NEW a \in UNION Holes, MapWord(a) PROVE TypeInv'
  BY <1>5 DEF MapWord, TypeInv, TypeOK, core, runState
<1>6. CASE Retry
  <2>1. RegsOK(Set(reg, PC, reg[PC] - 2))
    <3>1. RegsOK(reg) /\ reg[PC] - 2 \in Int
      BY FetchedType, ReadsType
    <3>2. QED
      BY <3>1, SetType
  <2>2. QED
    BY <1>6, <2>1 DEF Retry, TypeInv, TypeOK, RegsOK, embedder, runState
<1>7. CASE Reset
  <2>1. PICK x \in Word : x = StartOf(ResetVectors[program]) /\ x % 2 = 0
    <3>1. PICK v \in Word : v = ResetVectors[program]
      BY VectorAssumption DEF TypeInv
    <3>2. Even(v) \in Word /\ v \in Int
      BY Parity
    <3>3. Even(v) + 2 \in Int
      <4>1. PICK e \in Int : e = Even(v)
        BY <3>2, Parity
      <4>2. QED
        BY <4>1
    <3>4. Wrap(Even(v) + 2) \in Word
      BY <3>3, Parity
    <3>5. Even(Wrap(Even(v) + 2)) \in Word /\ Even(Wrap(Even(v) + 2)) % 2 = 0
      BY <3>4, Parity
    <3>6. v % 2 # 1 => v % 2 = 0
      BY <3>2
    <3>7. StartOf(v) \in Word /\ StartOf(v) % 2 = 0
      BY <3>5, <3>6 DEF StartOf
    <3>8. QED
      BY <3>1, <3>7
  <2>2. ASSUME NEW q \in Regs PROVE reg'[q] \in Word /\ (q = PC => reg'[q] % 2 = 0)
    <3>1. /\ InitialSP \in Word /\ Modulus - 1 \in Word /\ reg[q] \in Word
          /\ (q = PC => reg[q] % 2 = 0)
      BY Parity, VectorAssumption DEF TypeInv, TypeOK
    <3>2. reg'[q] = CASE q = SP /\ 0 \in mapped -> InitialSP
                      [] q = LR /\ 0 \in mapped -> Modulus - 1
                      [] q = PC /\ VectorWords \subseteq mapped -> x
                      [] OTHER -> reg[q]
      BY <1>7, <2>1 DEF Reset
    <3>3. CASE q = PC
      BY <2>1, <3>1, <3>2, <3>3, RegsAreNumbers
    <3>4. CASE q # PC
      BY <3>1, <3>2, <3>4
    <3>5. QED
      BY <3>3, <3>4
  <2>3. reg' = [q \in Regs |-> reg'[q]]
    BY <1>7 DEF Reset
  <2>4. RegsOK(reg')
    BY <2>2, <2>3, RegsAreNumbers DEF RegsOK
  <2>5. cpsr' \in Flags
    BY <1>7 DEF Reset, Flags
  <2>6. QED
    BY <1>7, <2>4, <2>5 DEF Reset, TypeInv, TypeOK, RegsOK, embedder, runState
<1>8. QED
  BY <1>2, <1>3, <1>4, <1>5, <1>6, <1>7 DEF Embedder

\* One iteration of run's loop.
LEMMA InterpreterType == TypeInv /\ Interpreter => TypeInv'
<1>. SUFFICES ASSUME TypeInv, Interpreter PROVE TypeInv'
  OBVIOUS
<1>1. ASSUME UNCHANGED <<core, embedder>>, Executing, NEW abort \in BOOLEAN,
             Unwind(abort) \/ \E trap \in Reasons : AfterExecute(trap, abort)
      PROVE  TypeInv'
  <2>1. /\ trap_flag' \in BOOLEAN /\ running' \in BOOLEAN /\ left' \in 0 .. MaxRun
        /\ running' => left' > 0
    BY <1>1, LoopType
  <2>2. QED
    BY <1>1, <2>1 DEF TypeInv, TypeOK, core, embedder
<1>2. CASE StopTrap
  <2>1. AfterExecute("stop", FALSE) /\ "stop" \in Reasons /\ Executing /\ UNCHANGED <<core, embedder>>
    BY <1>2 DEF StopTrap, Reasons
  <2>2. QED
    BY <1>1, <2>1
<1>3. ASSUME NEW abort \in BOOLEAN, FetchTrap(abort) PROVE TypeInv'
  <2>1. /\ AfterExecute("fetch_trap", abort) /\ "fetch_trap" \in Reasons /\ Executing
        /\ UNCHANGED <<core, embedder>>
    BY <1>3 DEF FetchTrap, Reasons
  <2>2. QED
    BY <1>1, <2>1
<1>4. ASSUME NEW abort \in BOOLEAN, FetchFault(abort) PROVE TypeInv'
  BY <1>1, <1>4 DEF FetchFault
\* An instruction, whole or left half done.
<1>5. ASSUME Executing, Fetchable, UNCHANGED embedder, NEW hostTraps, NEW out,
             out = Step(program[Here], Advanced, DataWords \cap mapped, hostTraps),
             reg' = out.reg, cpsr' = out.cpsr, mem' = out.mem, NEW abort \in BOOLEAN,
             Unwind(abort) \/ \E trap \in Reasons : AfterExecute(trap, abort)
      PROVE  TypeInv'
  <2>1. /\ trap_flag' \in BOOLEAN /\ running' \in BOOLEAN /\ left' \in 0 .. MaxRun
        /\ running' => left' > 0
    BY <1>5, LoopType
  <2>2. PICK i : i = program[Here] /\ Decoded(i)
    BY <1>5, FetchedType DEF Fetchable
  <2>3. OutcomeOK(out)
    BY <1>5, <2>2, FetchedType, StepType
  <2>4. QED
    BY <1>5, <2>1, <2>3 DEF OutcomeOK, RegsOK, MemOK, TypeInv, TypeOK, embedder
<1>6. ASSUME NEW abort \in BOOLEAN, DataFault(abort) PROVE TypeInv'
  BY <1>5, <1>6 DEF DataFault
<1>7. ASSUME NEW abort \in BOOLEAN, NEW hostTraps \in BOOLEAN, Execute(abort, hostTraps)
      PROVE  TypeInv'
  <2>1. PICK out : /\ out = Step(program[Here], Advanced, DataWords \cap mapped, hostTraps)
                   /\ reg' = out.reg /\ cpsr' = out.cpsr /\ mem' = out.mem
                   /\ AfterExecute(out.trap, abort)
    BY <1>7 DEF Execute
  <2>2. Executing /\ Fetchable /\ UNCHANGED embedder
    BY <1>7 DEF Execute
  <2>3. out.trap \in Reasons
    <3>1. program[Here].op \in Ops
      BY <2>2, FetchedType DEF Fetchable, Decoded
    <3>2. QED
      BY <2>1, <3>1, StepReasons
  <2>4. QED
    BY <1>5, <2>1, <2>2, <2>3
<1>8. QED
  BY <1>2, <1>3, <1>4, <1>6, <1>7 DEF Interpreter

LEMMA StepTypeInv == TypeInv /\ [Next]_vars => TypeInv'
<1>1. TypeInv /\ UNCHANGED vars => TypeInv'
  BY DEF TypeInv, TypeOK, vars, core, embedder, runState
<1>2. QED
  BY <1>1, EmbedderType, InterpreterType DEF Next

\* Registers and RAM hold words, and the program counter is even whatever was popped,
\* moved or branched to.
THEOREM TypeCorrect == Spec => []TypeOK
<1>1. TypeInv => TypeOK
  BY DEF TypeInv
<1>2. QED
  BY <1>1, InitTypeInv, StepTypeInv, PTL DEF Spec

-----------------------------------------------------------------------------
(* What run reports. *)

\* RunReports is not inductive: while the loop runs, trap_flag must be known to be
\* clear, so that it is set only by a hook this run calls, and the count of
\* instructions must not have reached its bound.
RunInv ==
  /\ left \in Nat /\ ran \in Nat /\ budget \in 0 .. MaxRun
  /\ trap_flag \in BOOLEAN /\ asked \in BOOLEAN /\ running \in BOOLEAN
  /\ running => left > 0 /\ ~trap_flag
  /\ program \in Programs
  /\ RunReports

\* The end of an iteration of run's loop, when a completed instruction was counted.
LEMMA IterationReports ==
  ASSUME RunInv, Executing, NEW trap \in Reasons, NEW abort \in BOOLEAN,
         AfterExecute(trap, abort), program' = program,
         ran' \in Nat, trap = "no_trap" => ran' = ran + 1
  PROVE  RunInv'
<1>1. /\ running /\ left \in Nat /\ left > 0 /\ ran \in Nat /\ budget \in 0 .. MaxRun
      /\ ran + left = budget /\ ~trap_flag /\ ~asked
  BY DEF RunInv, RunReports, Executing
<1>2. /\ trap_flag' = abort /\ asked' = abort /\ budget' = budget /\ program' \in Programs
  BY <1>1 DEF AfterExecute, RunInv
<1>3. CASE abort
  <2>1. result' = "abort" /\ running' = FALSE /\ left' = 0
    BY <1>2, <1>3 DEF AfterExecute
  <2>2. QED
    BY <1>1, <1>2, <1>3, <2>1 DEF RunInv, RunReports
<1>4. CASE ~abort /\ trap # "no_trap"
  <2>1. result' = trap /\ running' = FALSE /\ left' = 0
    BY <1>2, <1>4 DEF AfterExecute, Reasons
  <2>2. QED
    BY <1>1, <1>2, <1>4, <2>1 DEF RunInv, RunReports, Reasons
<1>5. CASE ~abort /\ trap = "no_trap" /\ left = 1
  <2>1. result' = "no_trap" /\ running' = FALSE /\ left' = 0
    BY <1>2, <1>5 DEF AfterExecute
  <2>2. ran' = budget'
    BY <1>1, <1>2, <1>5
  <2>3. QED
    BY <1>1, <1>2, <1>5, <2>1, <2>2 DEF RunInv, RunReports
<1>6. CASE ~abort /\ trap = "no_trap" /\ left # 1
  <2>0. trap_flag' = FALSE
    BY <1>2, <1>6
  <2>1. result' = "none" /\ running' = TRUE /\ left' = left - 1
    BY <1>6, <2>0 DEF AfterExecute
  <2>2. left - 1 \in Nat /\ left - 1 > 0 /\ (ran + 1) + (left - 1) = budget
    BY <1>1, <1>6
  <2>3. left' \in Nat /\ left' > 0 /\ ran' + left' = budget'
    BY <1>2, <1>6, <2>1, <2>2
  <2>4. QED
    BY <1>1, <1>2, <1>6, <2>1, <2>3 DEF RunInv, RunReports
<1>7. QED
  BY <1>3, <1>4, <1>5, <1>6

\* An exception ends the run without a word about an abort.
LEMMA UnwindReports ==
  ASSUME RunInv, NEW abort \in BOOLEAN, Unwind(abort), program' = program
  PROVE  RunInv'
BY DEF RunInv, RunReports, Unwind

LEMMA InitRunInv == Init => RunInv
<1>. SUFFICES ASSUME Init PROVE RunInv
  OBVIOUS
<1>1. left = 0 /\ ran = 0 /\ budget = 0 /\ 0 \in 0 .. MaxRun
  BY BoundAssumption DEF Init
<1>2. /\ trap_flag = FALSE /\ asked = FALSE /\ running = FALSE
      /\ result = "none" /\ program \in Programs
  BY DEF Init
<1>3. QED
  BY <1>1, <1>2 DEF RunInv, RunReports

\* What the embedder does between two runs.
LEMMA EmbedderReports == RunInv /\ Embedder => RunInv'
<1>. SUFFICES ASSUME RunInv, Embedder PROVE RunInv'
  OBVIOUS
<1>. USE BoundAssumption
<1>1. ASSUME NEW n \in 0 .. MaxRun, Run(n) PROVE RunInv'
  <2>1. /\ left' = n /\ ran' = 0 /\ budget' = n /\ program' = program
        /\ trap_flag' = FALSE /\ asked' = FALSE
    BY <1>1 DEF Run, embedder
  <2>2. CASE n = 0
    <3>0. (n > 0) = FALSE
      BY <2>2
    <3>1. running' = FALSE /\ result' = "no_trap"
      BY Zenon, <1>1, <3>0 DEF Run
    <3>2. QED
      BY <2>1, <2>2, <3>1 DEF RunInv, RunReports
  <2>3. CASE n > 0
    <3>1. running' = TRUE /\ result' = "none"
      BY <1>1, <2>3 DEF Run
    <3>2. n \in Nat /\ 0 + n = n
      BY <1>1
    <3>3. QED
      BY <2>1, <2>3, <3>1, <3>2 DEF RunInv, RunReports
  <2>4. QED
    BY <2>2, <2>3
<1>2. CASE AbortRun
  BY <1>2 DEF AbortRun, RunInv, RunReports, embedder
<1>3. ASSUME NEW a \in StopAddresses, SetStopAddress(a) PROVE RunInv'
  BY <1>3 DEF SetStopAddress, RunInv, RunReports, runState
<1>4. ASSUME NEW a \in UNION Holes, MapWord(a) PROVE RunInv'
  BY <1>4 DEF MapWord, RunInv, RunReports, runState
<1>5. CASE Retry
  BY <1>5 DEF Retry, RunInv, RunReports, runState, embedder
<1>6. CASE Reset
  BY <1>6 DEF Reset, RunInv, RunReports, runState, embedder
<1>7. QED
  BY <1>1, <1>2, <1>3, <1>4, <1>5, <1>6 DEF Embedder

\* One iteration of run's loop.
LEMMA InterpreterReports == RunInv /\ Interpreter => RunInv'
<1>. SUFFICES ASSUME RunInv, Interpreter PROVE RunInv'
  OBVIOUS
<1>1. CASE StopTrap
  BY <1>1, IterationReports DEF StopTrap, RunInv, Reasons, embedder
<1>2. ASSUME NEW abort \in BOOLEAN, FetchTrap(abort) PROVE RunInv'
  BY <1>2, IterationReports DEF FetchTrap, RunInv, Reasons, embedder
<1>3. ASSUME NEW abort \in BOOLEAN, FetchFault(abort) PROVE RunInv'
  BY <1>3, UnwindReports DEF FetchFault, embedder
<1>4. ASSUME NEW abort \in BOOLEAN, DataFault(abort) PROVE RunInv'
  BY <1>4, UnwindReports DEF DataFault, embedder
<1>5. ASSUME NEW abort \in BOOLEAN, NEW hostTraps \in BOOLEAN, Execute(abort, hostTraps)
      PROVE  RunInv'
  <2>. DEFINE trap == Step(program[Here], Advanced, DataWords \cap mapped, hostTraps).trap
  <2>1. AfterExecute(trap, abort) /\ Executing /\ program' = program
    BY <1>5 DEF Execute, embedder
  <2>2. program[Here].op \in Ops
    BY <1>5, ProgramsAssumption DEF Execute, Fetchable, RunInv, Decoded, Decoded
  <2>3. trap \in Reasons
    BY <2>2, StepReasons
  <2>4. ran \in Nat /\ ~(ran > MaxRun)
    BY <2>1, BoundAssumption DEF RunInv, RunReports, Executing
  <2>5. ran' = ran + 1 /\ ran + 1 \in Nat
    BY <1>5, <2>4 DEF Execute
  <2>. HIDE DEF trap
  <2>6. QED
    BY <2>1, <2>3, <2>5, IterationReports
<1>6. QED
  BY <1>1, <1>2, <1>3, <1>4, <1>5 DEF Interpreter

LEMMA StepRunInv == RunInv /\ [Next]_vars => RunInv'
<1>1. RunInv /\ UNCHANGED vars => RunInv'
  BY DEF RunInv, RunReports, vars, runState, embedder
<1>2. QED
  BY <1>1, EmbedderReports, InterpreterReports DEF Next

\* run returns trap_no_trap only after all the instructions asked for, and trap_abort
\* exactly when a hook it called asked for an abort and no exception left it.
THEOREM ReportsAreTrue == Spec => []RunReports
<1>1. RunInv => RunReports
  BY DEF RunInv
<1>2. QED
  BY <1>1, InitRunInv, StepRunInv, PTL DEF Spec

-----------------------------------------------------------------------------
(* Repeating an instruction. *)

\* The registers that the instruction left by an exception will work on when it is
\* executed again.
Resumed == [reg EXCEPT ![PC] = Wrap(pending.at + 4)]

\* RepeatIsTransparent is not inductive: an instruction may be left half done many
\* times before it ends.  Whatever it left done, executed again with every word
\* mapped it has the outcome it would have had at first.
RepeatInv ==
  /\ TypeInv
  /\ pending # NoPending =>
       /\ pending = [at |-> pending.at, loses |-> pending.loses,
                     before |-> pending.before, after |-> pending.after]
       /\ pending.at \in DOMAIN program /\ WordOf(pending.at) \in mapped
       /\ pending.loses \in BOOLEAN
       /\ ~pending.after.fault => program[pending.at].op \in Accesses
       /\ ~pending.loses /\ ~pending.after.fault =>
            \A i, r : i = program[pending.at] /\ r = Resumed =>
                        Step(i, r, DataWords, FALSE) = pending.after

\* At the instruction at address a the program counter reads a + 4.
LEMMA AdvancedIsAhead ==
  ASSUME TypeInv, NEW a \in DOMAIN program, Here = a
  PROVE  Advanced = [reg EXCEPT ![PC] = Wrap(a + 4)] /\ Advanced[PC] = Wrap(a + 4)
<1>1. PICK x \in Word : x = reg[PC] /\ x % 2 = 0 /\ x \in Int
  BY RegsAreNumbers, FetchedType, Parity DEF RegsOK
<1>2. Wrap(x + 2) = Wrap(a + 4)
  <2>0. Modulus \in Nat \ {0} /\ x - 2 \in Int
    BY <1>1, Parity
  <2>1. PICK M \in Nat \ {0}, u \in Int : M = Modulus /\ u = x - 2
    BY <2>0
  <2>2. PICK d \in Int, t \in Int : u = M * d + t /\ t = u % M
    <3>1. u \div M \in Int /\ u % M \in 0 .. M - 1 /\ u = M * (u \div M) + (u % M)
      BY DivExists
    <3>2. QED
      BY <3>1
  <2>3. t = a
    BY <1>1, <2>1, <2>2 DEF Here, Wrap
  <2>4. PICK y \in Int, z \in Int : y = x + 2 /\ z = a + 4
    BY <1>1, <2>3
  <2>5. y = z + M * d
    <3>1. PICK p \in Int : p = M * d
      OBVIOUS
    <3>2. x = p + t + 2
      BY <1>1, <2>1, <2>2, <3>1
    <3>3. y = p + t + 4
      BY <1>1, <2>4, <3>2
    <3>4. z = t + 4
      BY <2>3, <2>4
    <3>5. QED
      BY <3>1, <3>3, <3>4
  <2>6. y % M = z % M
    <3>1. PICK e \in Int, s \in 0 .. M - 1 : s = z % M /\ z = M * e + s
      <4>1. z \div M \in Int /\ z % M \in 0 .. M - 1 /\ z = M * (z \div M) + (z % M)
        BY DivExists
      <4>2. QED
        BY <4>1
    <3>2. PICK c \in Int : c = d + e
      OBVIOUS
    <3>3. y = M * c + s
      <4>1. M * c = M * d + M * e
        BY <3>2
      <4>2. QED
        BY <2>5, <3>1, <4>1
    <3>4. y % M = s
      BY <3>3, DivUnique
    <3>5. QED
      BY <3>1, <3>4
  <2>7. QED
    BY <2>1, <2>4, <2>6 DEF Wrap
<1>3. x + 2 \in Int /\ (x + 2) % 2 = 0
  BY <1>1
<1>4. Even(Wrap(x + 2)) = Wrap(x + 2)
  <2>1. Wrap(x + 2) \in Int /\ Wrap(x + 2) % 2 = 0
    BY <1>3, Parity
  <2>2. QED
    BY <2>1 DEF Even
<1>5. Advanced = [reg EXCEPT ![PC] = Wrap(a + 4)]
  BY <1>1, <1>2, <1>4 DEF Advanced, Set
<1>6. QED
  BY <1>5, RegsAreNumbers DEF TypeInv, TypeOK

\* Only an access to the RAM can be repaired by mapping more of it.
LEMMA OnlyAccessesDiffer ==
  ASSUME NEW i, i.op \in Ops, NEW r, NEW ok, NEW h,
         Step(i, r, ok, h).fault, ~Step(i, r, DataWords, h).fault
  PROVE  i.op \in Accesses
<1>1. SUFFICES ASSUME i.op \notin Accesses
               PROVE  Step(i, r, ok, h) = Step(i, r, DataWords, h)
  OBVIOUS
<1>2. CASE i.op \in {"alu", "unary", "mov", "addhigh", "address", "swi_flags", "nop", "addsp"}
  BY <1>2, StepByName
<1>3. CASE i.op \in {"branch", "jump", "bl1", "bl2", "blx1", "blx", "bx"}
  BY <1>3, StepByName
<1>4. CASE i.op \in {"bkpt", "swi", "undefined"}
  BY <1>4, StepByName
<1>5. QED
  BY <1>1, <1>2, <1>3, <1>4 DEF Ops, Accesses

\* All of a list is reached if it was with fewer words mapped.
LEMMA MoreIsReached ==
  ASSUME NEW list, NEW base, NEW ok, ok \subseteq DataWords, Reached(list, base, ok) = list
  PROVE  Reached(list, base, DataWords) = list
BY DEF Reached

\* An access that ends with some words mapped ends so with all of them.
LEMMA EndsAlike ==
  ASSUME NEW i, i.op \in Accesses, NEW r, NEW ok, ok \subseteq DataWords, NEW h, NEW hostTraps,
         ~Step(i, r, ok, hostTraps).fault
  PROVE  Step(i, r, DataWords, h) = Step(i, r, ok, hostTraps)
<1>1. \A r1, m : Faults(r1, m).fault
  BY DEF Faults, Outcome
<1>2. CASE i.op = "ldr"
  <2>1. ~LdrStep(i, r, ok).fault
    BY <1>2, StepByName
  <2>2. WordOf(Address(i, r)) \in ok
    BY <1>1, <2>1 DEF LdrStep
  <2>3. LdrStep(i, r, DataWords) = LdrStep(i, r, ok)
    BY <2>2 DEF LdrStep
  <2>4. QED
    BY <1>2, <2>3, StepByName
<1>3. CASE i.op = "str"
  <2>1. ~StrStep(i, r, ok).fault
    BY <1>3, StepByName
  <2>2. WordOf(Address(i, r)) \in ok
    BY Zenon, <1>1, <2>1 DEF StrStep
  <2>3. StrStep(i, r, DataWords) = StrStep(i, r, ok)
    BY <2>2 DEF StrStep
  <2>4. QED
    BY <1>3, <2>3, StepByName
<1>4. CASE i.op \in NarrowLoads
  <2>1. ~NarrowLoadStep(i, r, ok).fault
    BY <1>4, StepByName
  <2>2. WordOf(Address(i, r)) \in ok
    BY Zenon, <1>1, <2>1 DEF NarrowLoadStep
  <2>3. NarrowLoadStep(i, r, DataWords) = NarrowLoadStep(i, r, ok)
    BY <2>2 DEF NarrowLoadStep
  <2>4. QED
    BY <1>4, <2>3, StepByName
<1>5. CASE i.op \in NarrowStores
  <2>1. ~NarrowStoreStep(i, r, ok).fault
    BY <1>5, StepByName
  <2>2. WordOf(Address(i, r)) \in ok
    BY Zenon, <1>1, <2>1 DEF NarrowStoreStep
  <2>3. NarrowStoreStep(i, r, DataWords) = NarrowStoreStep(i, r, ok)
    BY <2>2 DEF NarrowStoreStep
  <2>4. QED
    BY <1>5, <2>3, StepByName
<1>6. CASE i.op = "ldm"
  <2>1. ~LdmStep(i, r, ok).fault
    BY <1>6, StepByName
  <2>2. Reached(i.list, r[i.rn], ok) = i.list
    BY <1>1, <2>1 DEF LdmStep
  <2>3. LdmStep(i, r, DataWords) = LdmStep(i, r, ok)
    BY <2>2, MoreIsReached DEF LdmStep
  <2>4. QED
    BY <1>6, <2>3, StepByName
<1>7. CASE i.op = "pop"
  <2>1. ~PopStep(i, r, ok).fault
    BY <1>7, StepByName
  <2>2. Reached(i.list, r[SP], ok) = i.list
    BY <1>1, <2>1 DEF PopStep
  <2>3. PopStep(i, r, DataWords) = PopStep(i, r, ok)
    BY <2>2, MoreIsReached DEF PopStep
  <2>4. QED
    BY <1>7, <2>3, StepByName
\* Stores of a block.
<1>8. ASSUME NEW base, NEW after, NEW n, ~StoreBlock(r, i.list, base, after, n, ok).fault
      PROVE  StoreBlock(r, i.list, base, after, n, DataWords)
               = StoreBlock(r, i.list, base, after, n, ok)
  <2>1. Reached(i.list, base, ok) = i.list
    BY <1>1, <1>8 DEF StoreBlock
  <2>2. QED
    BY <2>1, MoreIsReached DEF StoreBlock
<1>9. CASE i.op = "stm"
  <2>1. ~StmStep(i, r, ok).fault
    BY <1>9, StepByName
  <2>2. StmStep(i, r, DataWords) = StmStep(i, r, ok)
    BY <1>8, <2>1 DEF StmStep
  <2>3. QED
    BY <1>9, <2>2, StepByName
<1>10. CASE i.op = "push"
  <2>1. ~PushStep(i, r, ok).fault
    BY <1>10, StepByName
  <2>2. PushStep(i, r, DataWords) = PushStep(i, r, ok)
    BY <1>8, <2>1 DEF PushStep
  <2>3. QED
    BY <1>10, <2>2, StepByName
<1>11. QED
  BY <1>2, <1>3, <1>4, <1>5, <1>6, <1>7, <1>9, <1>10 DEF Accesses

\* What a block load left loaded does not change what it loads.
LEMMA LoadedAgain ==
  ASSUME NEW r, r \in [Regs -> Word], NEW list, NEW base, NEW ok, NEW m, m = mem, mem' = mem,
         NEW loaded, loaded = Loaded(r, list, base, Reached(list, base, ok)),
         NEW r1, r1 = [loaded EXCEPT ![PC] = r[PC]]
  PROVE  /\ (Loaded(r1, list, base, list))' = Loaded(r, list, base, list)
         /\ \A n \in Regs \ {PC} : r1[n] = loaded[n]
<1>1. Reached(list, base, ok) \subseteq list
  BY DEF Reached
<1>2. ASSUME NEW q \in Regs, q \notin list PROVE r1[q] = r[q]
  BY <1>1, <1>2 DEF Loaded
<1>3. (Loaded(r1, list, base, list))' = Loaded(r, list, base, list)
  BY <1>2 DEF Loaded
<1>4. QED
  BY <1>3 DEF Loaded

\* What an access that failed left done does not change the outcome it has when it is
\* executed again with every word mapped, if it kept its base.
LEMMA FaultKeepsOutcome ==
  ASSUME TypeInv, NEW i, Decoded(i), i.op \in Accesses, NEW ok, ok \subseteq DataWords,
         NEW h, NEW r, r = Advanced,
         NEW out, out = Step(i, r, ok, h), out.fault, ~LosesBase(i, out),
         NEW full, full = Step(i, r, DataWords, h), ~full.fault,
         reg' = out.reg, cpsr' = out.cpsr, mem' = out.mem,
         NEW r1, r1 = [reg' EXCEPT ![PC] = r[PC]]
  PROVE  (Step(i, r1, DataWords, h))' = full
<1>1. r \in [Regs -> Word] /\ RegsOK(r)
  BY FetchedType DEF RegsOK
<1>2. \A r2, m : Faults(r2, m).fault
  BY DEF Faults, Outcome
<1>3. \A r2 : ~Writes(r2).fault
  BY DEF Writes, Outcome
\* An access to one word that fails does nothing.
<1>4. CASE i.op \in {"ldr", "str"} \cup NarrowLoads \cup NarrowStores
  <2>1. out = Faults(r, mem)
    <3>1. CASE i.op = "ldr"
      <4>1. out = LdrStep(i, r, ok)
        BY <3>1, StepByName
      <4>2. QED
        BY <1>3, <4>1 DEF LdrStep
    <3>2. CASE i.op = "str"
      <4>1. out = StrStep(i, r, ok)
        BY <3>2, StepByName
      <4>2. \A m : ~Outcome(r, cpsr, m, "no_trap").fault
        BY DEF Outcome
      <4>3. QED
        BY Zenon, <4>1, <4>2 DEF StrStep
    <3>3. CASE i.op \in NarrowLoads
      <4>1. out = NarrowLoadStep(i, r, ok)
        BY <3>3, StepByName
      <4>2. QED
        BY Zenon, <1>3, <4>1 DEF NarrowLoadStep
    <3>4. CASE i.op \in NarrowStores
      <4>1. out = NarrowStoreStep(i, r, ok)
        BY <3>4, StepByName
      <4>2. \A m : ~Outcome(r, cpsr, m, "no_trap").fault
        BY DEF Outcome
      <4>3. QED
        BY Zenon, <4>1, <4>2 DEF NarrowStoreStep
    <3>5. QED
      BY <1>4, <3>1, <3>2, <3>3, <3>4
  <2>2. reg' = r /\ cpsr' = cpsr /\ mem' = mem
    BY <2>1 DEF Faults, Outcome
  <2>3. r1 = r
    BY <1>1, <2>2
  <2>4. (Step(i, r, DataWords, h))' = Step(i, r, DataWords, h)
    <3>1. CASE i.op = "ldr"
      BY <2>2, <3>1 DEF Step, NarrowLoads, NarrowStores, LdrStep, Writes, Faults, Outcome
    <3>2. CASE i.op = "str"
      BY <2>2, <3>2 DEF Step, NarrowLoads, NarrowStores, StrStep, Writes, Faults, Outcome
    <3>3. CASE i.op \in NarrowLoads
      BY <2>2, <3>3 DEF Step, NarrowLoads, NarrowStores, NarrowLoadStep, Writes, Faults, Outcome
    <3>4. CASE i.op \in NarrowStores
      BY <2>2, <3>4 DEF Step, NarrowLoads, NarrowStores, NarrowStoreStep, Writes, Faults, Outcome
    <3>5. QED
      BY <1>4, <3>1, <3>2, <3>3, <3>4
  <2>5. QED
    BY <2>3, <2>4
\* A block load repeats what it has loaded, from the same base.
<1>5. ASSUME NEW n \in Regs \ {PC}, NEW base, base = r[n], NEW loaded,
             loaded = Loaded(r, i.list, base, Reached(i.list, base, ok)),
             out = Faults(loaded, mem), loaded[n] = base
      PROVE  /\ cpsr' = cpsr /\ mem' = mem /\ r1[n] = base
             /\ (Loaded(r1, i.list, base, i.list))' = Loaded(r, i.list, base, i.list)
  <2>1. reg' = loaded /\ cpsr' = cpsr /\ mem' = mem
    BY <1>5 DEF Faults, Outcome
  <2>2. r1 = [loaded EXCEPT ![PC] = r[PC]]
    BY <2>1
  <2>3. QED
    BY <1>1, <1>5, <2>1, <2>2, LoadedAgain
<1>6. CASE i.op = "ldm"
  <2>1. i.rn \in Regs \ {PC} /\ i.rn \in LowRegs
    BY <1>6, RegsAreNumbers DEF Decoded, Regs
  <2>2. PICK base, loaded : /\ base = r[i.rn]
                            /\ loaded = Loaded(r, i.list, base, Reached(i.list, base, ok))
    OBVIOUS
  <2>3. out = LdmStep(i, r, ok) /\ full = LdmStep(i, r, DataWords)
    BY <1>6, StepByName
  <2>4. out = Faults(loaded, mem)
    BY <1>3, <2>2, <2>3 DEF LdmStep
  <2>5. Reached(i.list, base, DataWords) = i.list
    BY <1>2, <2>2, <2>3 DEF LdmStep
  <2>6. loaded[i.rn] = base
    <3>1. out.reg[i.rn] = reg[i.rn]
      BY <1>6 DEF LosesBase
    <3>2. r[i.rn] = reg[i.rn]
      BY <2>1 DEF Advanced, Set
    <3>3. out.reg = loaded
      BY <2>4 DEF Faults, Outcome
    <3>4. QED
      BY <2>2, <3>1, <3>2, <3>3
  <2>7. /\ cpsr' = cpsr /\ mem' = mem /\ r1[i.rn] = base
        /\ (Loaded(r1, i.list, base, i.list))' = Loaded(r, i.list, base, i.list)
    BY <1>5, <2>1, <2>2, <2>4, <2>6
  <2>8. (LdmStep(i, r1, DataWords))' = LdmStep(i, r, DataWords)
    BY <2>2, <2>5, <2>7 DEF LdmStep, Writes, Faults, Outcome
  <2>9. (Step(i, r1, DataWords, h))' = (LdmStep(i, r1, DataWords))'
    BY <1>6 DEF Step, NarrowLoads, NarrowStores
  <2>10. QED
    BY <2>3, <2>8, <2>9
<1>7. CASE i.op = "pop"
  <2>1. SP \in Regs \ {PC} /\ SP \notin i.list
    BY <1>7, RegsAreNumbers DEF Decoded
  <2>2. PICK base, loaded : /\ base = r[SP]
                            /\ loaded = Loaded(r, i.list, base, Reached(i.list, base, ok))
    OBVIOUS
  <2>3. out = PopStep(i, r, ok) /\ full = PopStep(i, r, DataWords)
    BY <1>7, StepByName
  <2>4. out = Faults(loaded, mem)
    BY <1>3, <2>2, <2>3 DEF PopStep
  <2>5. Reached(i.list, base, DataWords) = i.list
    BY <1>2, <2>2, <2>3 DEF PopStep
  <2>6. loaded[SP] = base
    BY <2>1, <2>2 DEF Loaded, Reached
  <2>7. /\ cpsr' = cpsr /\ mem' = mem /\ r1[SP] = base
        /\ (Loaded(r1, i.list, base, i.list))' = Loaded(r, i.list, base, i.list)
    BY <1>5, <2>1, <2>2, <2>4, <2>6
  <2>8. (PopStep(i, r1, DataWords))' = PopStep(i, r, DataWords)
    BY <2>2, <2>5, <2>7 DEF PopStep, Writes, Faults, Outcome
  <2>9. (Step(i, r1, DataWords, h))' = (PopStep(i, r1, DataWords))'
    BY <1>7 DEF Step, NarrowLoads, NarrowStores
  <2>10. QED
    BY <2>3, <2>8, <2>9
\* A block store repeats what it has stored.
<1>8. ASSUME NEW base, NEW after, NEW n,
             out = StoreBlock(r, i.list, base, after, n, ok),
             full = StoreBlock(r, i.list, base, after, n, DataWords)
      PROVE  r1 = r /\ (StoreBlock(r, i.list, base, after, n, DataWords))' = full
  <2>1. PICK reached, stored : /\ reached = Reached(i.list, base, ok)
                               /\ stored = Stored(r, i.list, base, reached)
    OBVIOUS
  <2>2. \A r2, m : ~Outcome(r2, cpsr, m, "no_trap").fault
    BY DEF Outcome
  <2>3. out = Faults(r, stored)
    BY <1>8, <2>1, <2>2 DEF StoreBlock
  <2>4. Reached(i.list, base, DataWords) = i.list
    BY <1>2, <1>8 DEF StoreBlock
  <2>5. reg' = r /\ cpsr' = cpsr /\ mem' = stored
    BY <2>3 DEF Faults, Outcome
  <2>6. r1 = r
    BY <1>1, <2>5
  <2>7. reached \subseteq i.list
    BY <2>1 DEF Reached
  <2>8. (Stored(r, i.list, base, i.list))' = Stored(r, i.list, base, i.list)
    <3>1. ASSUME NEW a \in DataWords, ~\E q \in i.list : Slot(i.list, q, base) = a
          PROVE  mem'[a] = mem[a]
      BY <2>1, <2>5, <2>7, <3>1 DEF Stored
    <3>2. QED
      BY <3>1 DEF Stored
  <2>9. (StoreBlock(r, i.list, base, after, n, DataWords))'
           = StoreBlock(r, i.list, base, after, n, DataWords)
    BY <2>4, <2>5, <2>8 DEF StoreBlock, Outcome
  <2>10. QED
    BY <1>8, <2>6, <2>9
<1>9. CASE i.op = "stm"
  <2>1. out = StmStep(i, r, ok) /\ full = StmStep(i, r, DataWords)
    BY <1>9, StepByName
  <2>2. r1 = r /\ (StmStep(i, r, DataWords))' = full
    BY <1>8, <2>1 DEF StmStep
  <2>3. (Step(i, r, DataWords, h))' = (StmStep(i, r, DataWords))'
    BY <1>9 DEF Step, NarrowLoads, NarrowStores
  <2>4. QED
    BY <2>2, <2>3
<1>10. CASE i.op = "push"
  <2>1. out = PushStep(i, r, ok) /\ full = PushStep(i, r, DataWords)
    BY <1>10, StepByName
  <2>2. r1 = r /\ (PushStep(i, r, DataWords))' = full
    BY <1>8, <2>1 DEF PushStep
  <2>3. (Step(i, r, DataWords, h))' = (PushStep(i, r, DataWords))'
    BY <1>10 DEF Step, NarrowLoads, NarrowStores
  <2>4. QED
    BY <2>2, <2>3
<1>11. QED
  BY <1>4, <1>6, <1>7, <1>9, <1>10 DEF Accesses

\* An access with every word mapped depends on nothing but the registers, flags and RAM.
LEMMA AccessSame ==
  ASSUME NEW i, i.op \in Accesses, NEW r, NEW h, cpsr' = cpsr, mem' = mem
  PROVE  (Step(i, r, DataWords, h))' = Step(i, r, DataWords, h)
<1>. USE DEF Step, NarrowLoads, NarrowStores, Writes, Faults, Outcome
<1>1. CASE i.op = "ldr"
  BY <1>1 DEF LdrStep
<1>2. CASE i.op = "str"
  BY <1>2 DEF StrStep
<1>3. CASE i.op \in NarrowLoads
  BY <1>3 DEF NarrowLoadStep
<1>4. CASE i.op \in NarrowStores
  BY <1>4 DEF NarrowStoreStep
<1>5. CASE i.op = "ldm"
  BY <1>5 DEF LdmStep, Loaded
<1>6. CASE i.op = "pop"
  BY <1>6 DEF PopStep, Loaded
<1>7. CASE i.op = "stm"
  BY <1>7 DEF StmStep, StoreBlock, Stored
<1>8. CASE i.op = "push"
  BY <1>8 DEF PushStep, StoreBlock, Stored
<1>9. QED
  BY <1>1, <1>2, <1>3, <1>4, <1>5, <1>6, <1>7, <1>8 DEF Accesses

\* A step that leaves flags, RAM and every register but the program counter alone,
\* and unmaps nothing.
LEMMA RepeatStays ==
  ASSUME RepeatInv, TypeInv', UNCHANGED <<cpsr, mem, program, pending>>,
         mapped \subseteq mapped', \A q \in Regs \ {PC} : reg'[q] = reg[q]
  PROVE  RepeatInv'
<1>. SUFFICES ASSUME pending # NoPending
              PROVE  /\ WordOf(pending.at) \in mapped'
                     /\ ~pending.loses /\ ~pending.after.fault =>
                          \A i, r : i = program'[pending'.at] /\ r = Resumed' =>
                                      (Step(i, r, DataWords, FALSE))' = pending'.after
  BY DEF RepeatInv
<1>1. WordOf(pending.at) \in mapped'
  BY DEF RepeatInv
<1>2. Resumed' = Resumed
  <2>1. reg \in [Regs -> Word] /\ reg' \in [Regs -> Word]
    BY DEF RepeatInv, TypeInv, TypeOK
  <2>2. QED
    BY <2>1 DEF Resumed
<1>3. ASSUME ~pending.loses, ~pending.after.fault,
             NEW i, NEW r, i = program'[pending'.at], r = Resumed'
      PROVE  (Step(i, r, DataWords, FALSE))' = pending'.after
  <2>1. i = program[pending.at] /\ i.op \in Accesses
    BY <1>3 DEF RepeatInv
  <2>2. Step(i, r, DataWords, FALSE) = pending.after
    BY <1>2, <1>3, <2>1 DEF RepeatInv
  <2>3. (Step(i, r, DataWords, FALSE))' = Step(i, r, DataWords, FALSE)
    BY <2>1, AccessSame
  <2>4. QED
    BY <2>2, <2>3
<1>4. QED
  BY <1>1, <1>3

\* The instruction about to be executed.
LEMMA Fetched ==
  ASSUME TypeInv, Fetchable
  PROVE  /\ Here \in DOMAIN program /\ WordOf(Here) \in mapped
         /\ Decoded(program[Here]) /\ Here # 1
         /\ Advanced = [reg EXCEPT ![PC] = Wrap(Here + 4)] /\ Advanced[PC] = Wrap(Here + 4)
<1>1. Here \in DOMAIN program /\ WordOf(Here) \in mapped
  BY DEF Fetchable
<1>2. Here % 2 = 0 /\ 1 % 2 = 1
  BY <1>1, FetchedType
<1>3. QED
  BY <1>1, <1>2, FetchedType, AdvancedIsAhead

\* An exception leaves an instruction to repeat.
LEMMA DataFaultRepeats ==
  ASSUME RepeatInv, NEW abort \in BOOLEAN, DataFault(abort), TypeInv'
  PROVE  RepeatInv' /\ pending' # NoPending
<1>1. TypeInv /\ Fetchable /\ mapped' = mapped /\ program' = program
  BY DEF RepeatInv, DataFault, embedder
<1>2. PICK i, ok, r, h, out, full :
        /\ i = program[Here] /\ ok = DataWords \cap mapped /\ r = Advanced /\ h = FALSE
        /\ out = Step(i, r, ok, h) /\ full = Step(i, r, DataWords, h)
  OBVIOUS
<1>3. /\ out.fault /\ reg' = out.reg /\ cpsr' = out.cpsr /\ mem' = out.mem
      /\ pending' = IF Repeats THEN [pending EXCEPT !.loses = @ \/ LosesBase(i, out)]
                    ELSE [at |-> Here, loses |-> LosesBase(i, out), before |-> Now, after |-> full]
  BY <1>2 DEF DataFault
<1>4. Here \in DOMAIN program /\ WordOf(Here) \in mapped /\ Decoded(i) /\ Here # 1
  BY <1>1, <1>2, Fetched
<1>5. LosesBase(i, out) \in BOOLEAN
  BY DEF LosesBase
\* pending' in both cases.
<1>5a. PICK loses \in BOOLEAN : \E before, after :
        /\ pending' = [at |-> Here, loses |-> loses, before |-> before, after |-> after]
        /\ ~loses => ~LosesBase(i, out)
        /\ ~after.fault => i.op \in Accesses
        /\ ~loses /\ ~after.fault => full = after
  <2>1. CASE Repeats
    <3>1. /\ pending # NoPending /\ pending.at = Here /\ pending.loses \in BOOLEAN
          /\ pending = [at |-> pending.at, loses |-> pending.loses,
                         before |-> pending.before, after |-> pending.after]
      BY <2>1 DEF Repeats, RepeatInv
    <3>2. PICK loses \in BOOLEAN : loses = (pending.loses \/ LosesBase(i, out))
      OBVIOUS
    <3>3. pending' = [at |-> Here, loses |-> loses, before |-> pending.before, after |-> pending.after]
      BY <1>3, <2>1, <3>1, <3>2
    <3>4. ~pending.after.fault => i.op \in Accesses
      BY <1>2, <3>1 DEF RepeatInv
    <3>5. Resumed = r
      BY <1>1, <1>2, <3>1, Fetched DEF Resumed
    <3>6. ~pending.loses /\ ~pending.after.fault => full = pending.after
      BY <1>2, <3>1, <3>5 DEF RepeatInv
    <3>7. QED
      BY <1>5, <3>2, <3>3, <3>4, <3>6
  <2>2. CASE ~Repeats
    <3>1. pending' = [at |-> Here, loses |-> LosesBase(i, out), before |-> Now, after |-> full]
      BY <1>3, <2>2
    <3>2. ~full.fault => i.op \in Accesses
      BY <1>2, <1>3, <1>4, OnlyAccessesDiffer DEF Decoded
    <3>3. QED
      BY <1>5, <3>1, <3>2
  <2>3. QED
    BY <2>1, <2>2
<1>6. PICK before, after :
        /\ pending' = [at |-> Here, loses |-> loses, before |-> before, after |-> after]
        /\ ~loses => ~LosesBase(i, out)
        /\ ~after.fault => i.op \in Accesses
        /\ ~loses /\ ~after.fault => full = after
  BY <1>5a
<1>7. pending' # NoPending
  BY <1>4, <1>6 DEF NoPending
<1>8. ASSUME ~loses, ~after.fault, NEW j, NEW r1, j = i, r1 = Resumed'
      PROVE  (Step(j, r1, DataWords, FALSE))' = after
  <2>1. r1 = [reg' EXCEPT ![PC] = r[PC]]
    <3>1. r1 = [reg' EXCEPT ![PC] = Wrap(Here + 4)]
      BY <1>6, <1>8 DEF Resumed
    <3>2. QED
      BY <1>1, <1>2, <3>1, Fetched
  <2>2. /\ full = after /\ i.op \in Accesses /\ ~LosesBase(i, out) /\ ok \subseteq DataWords
    BY <1>2, <1>6, <1>8
  <2>3. (Step(i, r1, DataWords, h))' = full
    <3>1. TypeInv /\ Decoded(i) /\ i.op \in Accesses /\ ok \subseteq DataWords /\ r = Advanced
      BY <1>1, <1>2, <1>4, <2>2
    <3>2. out = Step(i, r, ok, h) /\ out.fault /\ ~LosesBase(i, out)
      BY <1>2, <1>3, <2>2
    <3>3. full = Step(i, r, DataWords, h) /\ ~full.fault
      BY Zenon, <1>2, <1>8, <2>2
    <3>4. reg' = out.reg /\ cpsr' = out.cpsr /\ mem' = out.mem /\ r1 = [reg' EXCEPT ![PC] = r[PC]]
      BY <1>3, <2>1
    <3>5. QED
      BY <3>1, <3>2, <3>3, <3>4, FaultKeepsOutcome
  <2>4. QED
    BY <1>2, <1>8, <2>2, <2>3
<1>9. program'[pending'.at] = i
  BY <1>1, <1>2, <1>6
<1>10. RepeatInv'
  <2>1. \A j, r1 : ~loses /\ ~after.fault /\ j = program'[pending'.at] /\ r1 = Resumed' =>
                    (Step(j, r1, DataWords, FALSE))' = after
    BY <1>8, <1>9
  <2>2. QED
    BY <1>1, <1>4, <1>6, <1>9, <2>1 DEF RepeatInv
<1>11. QED
  BY <1>7, <1>10

LEMMA InitRepeatInv == Init => RepeatInv
BY InitTypeInv DEF Init, RepeatInv

\* What the embedder does between two runs.
LEMMA EmbedderRepeats == RepeatInv /\ Embedder => RepeatInv'
<1>. SUFFICES ASSUME RepeatInv, Embedder PROVE RepeatInv'
  OBVIOUS
<1>1. TypeInv /\ TypeInv'
  BY EmbedderType DEF RepeatInv
<1>2. ASSUME UNCHANGED <<core, program, pending>>, mapped \subseteq mapped' PROVE RepeatInv'
  BY <1>1, <1>2, RepeatStays DEF core
<1>3. ASSUME NEW n \in 0 .. MaxRun, Run(n) PROVE RepeatInv'
  BY <1>2, <1>3 DEF Run, embedder
<1>4. CASE AbortRun
  BY <1>2, <1>4 DEF AbortRun, embedder
<1>5. ASSUME NEW a \in StopAddresses, SetStopAddress(a) PROVE RepeatInv'
  BY <1>2, <1>5 DEF SetStopAddress
<1>6. ASSUME NEW a \in UNION Holes, MapWord(a) PROVE RepeatInv'
  BY <1>2, <1>6 DEF MapWord
<1>7. CASE Retry
  <2>1. \A q \in Regs \ {PC} : reg'[q] = reg[q]
    BY <1>1, <1>7 DEF Retry, Set, TypeInv, TypeOK
  <2>2. QED
    BY <1>1, <1>7, <2>1, RepeatStays DEF Retry, embedder
<1>8. CASE Reset
  BY <1>1, <1>8 DEF Reset, RepeatInv
<1>9. QED
  BY <1>3, <1>4, <1>5, <1>6, <1>7, <1>8 DEF Embedder

\* One iteration of run's loop.
LEMMA InterpreterRepeats == RepeatInv /\ Interpreter => RepeatInv'
<1>. SUFFICES ASSUME RepeatInv, Interpreter PROVE RepeatInv'
  OBVIOUS
<1>1. TypeInv /\ TypeInv'
  BY InterpreterType DEF RepeatInv
<1>2. ASSUME UNCHANGED <<core, embedder, pending>> PROVE RepeatInv'
  BY <1>1, <1>2, RepeatStays DEF core, embedder
<1>3. CASE StopTrap
  BY <1>2, <1>3 DEF StopTrap
<1>4. ASSUME NEW abort \in BOOLEAN, FetchTrap(abort) PROVE RepeatInv'
  BY <1>2, <1>4 DEF FetchTrap
<1>5. ASSUME NEW abort \in BOOLEAN, FetchFault(abort) PROVE RepeatInv'
  BY <1>2, <1>5 DEF FetchFault
<1>6. ASSUME NEW abort \in BOOLEAN, DataFault(abort) PROVE RepeatInv'
  BY <1>1, <1>6, DataFaultRepeats
<1>7. ASSUME NEW abort \in BOOLEAN, NEW hostTraps \in BOOLEAN, Execute(abort, hostTraps)
      PROVE  RepeatInv'
  BY <1>1, <1>7 DEF Execute, RepeatInv
<1>8. QED
  BY <1>3, <1>4, <1>5, <1>6, <1>7 DEF Interpreter

LEMMA StepRepeatInv == RepeatInv /\ [Next]_vars => RepeatInv'
<1>1. ASSUME RepeatInv, UNCHANGED vars PROVE RepeatInv'
  <2>1. TypeInv /\ TypeInv'
    BY <1>1, StepTypeInv DEF RepeatInv
  <2>2. QED
    BY <1>1, <2>1, RepeatStays DEF vars, core, embedder
<1>2. QED
  BY <1>1, EmbedderRepeats, InterpreterRepeats DEF Next

\* Executed again, an instruction that kept its base works on the registers it had
\* left, so that with every word mapped it has the outcome it would have had.
LEMMA SecondTime ==
  ASSUME RepeatInv, Fetchable, pending # NoPending, pending.at = Here,
         ~pending.loses, ~pending.after.fault, NEW i, i = program[Here]
  PROVE  i.op \in Accesses /\ Step(i, Advanced, DataWords, FALSE) = pending.after
<1>1. Resumed = Advanced
  BY Fetched DEF RepeatInv, Resumed
<1>2. QED
  BY <1>1 DEF RepeatInv

\* The steps that RepeatIsTransparent is about.
LEMMA StepIsTransparent ==
  ASSUME RepeatInv, Next, running, pending # NoPending, pending.at = Here,
         ~pending.loses, ~pending.after.fault
  PROVE  /\ pending' = NoPending => /\ reg' = pending.after.reg
                                    /\ cpsr' = pending.after.cpsr
                                    /\ mem' = pending.after.mem
         /\ DataWords \subseteq mapped => result' # "exception"
<1>1. TypeInv /\ Fetchable
  BY DEF RepeatInv, Fetchable
<1>2. ASSUME NEW trap, trap # "exception", NEW abort, AfterExecute(trap, abort)
      PROVE  result' # "exception"
  BY <1>2 DEF AfterExecute
<1>3. CASE StopTrap
  BY <1>2, <1>3 DEF StopTrap
<1>4. ASSUME NEW abort \in BOOLEAN, FetchTrap(abort)
      PROVE  pending' # NoPending /\ result' # "exception"
  BY <1>2, <1>4 DEF FetchTrap
<1>5. ASSUME NEW abort \in BOOLEAN, FetchFault(abort) PROVE FALSE
  BY <1>1, <1>5 DEF FetchFault
<1>6. ASSUME NEW abort \in BOOLEAN, DataFault(abort)
      PROVE  pending' # NoPending /\ ~(DataWords \subseteq mapped)
  <2>1. TypeInv'
    BY <1>1, <1>6, InterpreterType DEF Interpreter
  <2>2. pending' # NoPending
    BY <1>6, <2>1, DataFaultRepeats
  <2>3. ASSUME DataWords \subseteq mapped PROVE FALSE
    <3>1. DataWords \cap mapped = DataWords
      BY <2>3
    <3>2. Step(program[Here], Advanced, DataWords, FALSE).fault
      BY <1>6, <3>1 DEF DataFault
    <3>3. QED
      BY <1>1, <3>2, SecondTime
  <2>4. QED
    BY <2>2, <2>3
<1>7. ASSUME NEW abort \in BOOLEAN, NEW hostTraps \in BOOLEAN, Execute(abort, hostTraps)
      PROVE  /\ reg' = pending.after.reg /\ cpsr' = pending.after.cpsr
             /\ mem' = pending.after.mem /\ result' # "exception"
  <2>1. PICK i, ok, r, h, out :
          /\ i = program[Here] /\ ok = DataWords \cap mapped /\ r = Advanced /\ h = FALSE
          /\ out = Step(i, r, ok, hostTraps)
    OBVIOUS
  <2>2. /\ ~out.fault /\ AfterExecute(out.trap, abort)
        /\ reg' = out.reg /\ cpsr' = out.cpsr /\ mem' = out.mem
    BY <1>7, <2>1 DEF Execute
  <2>3. i.op \in Accesses /\ Step(i, r, DataWords, h) = pending.after
    BY <1>1, <2>1, SecondTime
  <2>4. ok \subseteq DataWords /\ ~Step(i, r, ok, hostTraps).fault
    BY <2>1, <2>2
  <2>5. Step(i, r, DataWords, h) = out
    BY <2>1, <2>3, <2>4, EndsAlike
  <2>6. out.trap # "exception"
    <3>1. i.op \in Ops
      BY <1>1, <2>1, Fetched DEF Decoded
    <3>2. out.trap \in Reasons
      BY <2>1, <3>1, StepReasons
    <3>3. QED
      BY <3>2 DEF Reasons
  <2>7. QED
    BY <1>2, <2>2, <2>3, <2>5, <2>6
<1>8. ~Embedder
  BY DEF Embedder, Run, AbortRun, SetStopAddress, MapWord, Retry, Reset
<1>9. pending' = pending \/ ~StopTrap
  BY DEF StopTrap
<1>10. QED
  BY <1>3, <1>4, <1>5, <1>6, <1>7, <1>8, <1>9 DEF Next, Interpreter

\* An instruction left half done by an exception ends, when it is executed again, as
\* if it had never been interrupted, and faults no more once every word is mapped; a
\* load multiple that replaced its own base is the only exception.
THEOREM RepeatTransparent == Spec => RepeatIsTransparent
<1>1. RepeatInv /\ [Next]_vars =>
        [running /\ pending # NoPending /\ pending.at = Here
         /\ ~pending.loses /\ ~pending.after.fault
           => /\ pending' = NoPending => /\ reg' = pending.after.reg
                                         /\ cpsr' = pending.after.cpsr
                                         /\ mem' = pending.after.mem
              /\ DataWords \subseteq mapped => result' # "exception"]_vars
  BY StepIsTransparent
<1>2. QED
  BY <1>1, InitRepeatInv, StepRepeatInv, PTL DEF Spec, RepeatIsTransparent

-----------------------------------------------------------------------------
(* The machine that the interpreter implements. *)

\* What registers r, flags f and RAM m are to the machine.
DataBytes == {w + k : w \in DataWords, k \in 0 .. 3}
BytesOf(m) == [a \in DataBytes |-> ByteOf(m[WordOf(a)], a % 4)]
Low(r) == [q \in Regs \ {PC} |-> r[q]]
Rec(regs, pc, flags, bytes) == [regs |-> regs, pc |-> pc, flags |-> flags, bytes |-> bytes]
View(o) == Rec(Low(o.reg), Wrap(o.reg[PC] - 2), o.cpsr, BytesOf(o.mem))
Before == View(Now)
Replaced(f, a, x) == [f EXCEPT ![a] = x]

\* The machine computes with the same words.
LEMMA SameWords ==
  /\ Machine!SP = SP /\ Machine!LR = LR /\ Machine!PC = PC /\ Machine!Registers = Regs
  /\ Machine!DataBytes = DataBytes
  /\ \A x : Machine!Wrap(x) = Wrap(x)
  /\ \A x, k : Machine!ByteOf(x, k) = ByteOf(x, k)
  /\ \A a, b, c, d : Machine!FromBytes(a, b, c, d) = FromBytes(a, b, c, d)
  /\ Machine!ByteSize = ByteSize /\ Machine!HalfwordSize = HalfwordSize
  /\ \A S : Machine!Cardinality(S) = Cardinality(S)
  /\ \A b : Machine!AsBit(b) = AsBit(b)
  /\ \A c, f : Machine!Holds(c, f) = Holds(c, f)
  /\ Machine!CompareOps = CompareOps
<1>1. Machine!SP = SP /\ Machine!LR = LR /\ Machine!PC = PC /\ Machine!Registers = Regs
  BY DEF Machine!SP, Machine!LR, Machine!PC, SP, LR, PC, Machine!Registers, Regs
<1>2. Machine!DataBytes = DataBytes
  BY DEF Machine!DataBytes, DataBytes
<1>3. \A x : Machine!Wrap(x) = Wrap(x)
  BY DEF Machine!Wrap, Wrap, Machine!Modulus, Modulus
<1>4. Machine!ByteSize = ByteSize /\ Machine!HalfwordSize = HalfwordSize
  BY DEF Machine!ByteSize, ByteSize, Machine!HalfwordSize, HalfwordSize
<1>5. \A x, k : Machine!ByteOf(x, k) = ByteOf(x, k)
  BY <1>4 DEF Machine!ByteOf, ByteOf
<1>6. \A a, b, c, d : Machine!FromBytes(a, b, c, d) = FromBytes(a, b, c, d)
  BY <1>4 DEF Machine!FromBytes, FromBytes
<1>7. \A S : Machine!Cardinality(S) = Cardinality(S)
  BY DEF Machine!Cardinality, Cardinality
<1>8. \A b : Machine!AsBit(b) = AsBit(b)
  BY DEF Machine!AsBit, AsBit
<1>9. \A c, f : Machine!Holds(c, f) = Holds(c, f)
  BY Zenon DEF Machine!Holds, Holds
<1>10. Machine!CompareOps = CompareOps
  BY DEF Machine!CompareOps, CompareOps
<1>11. QED
  BY Zenon, <1>1, <1>2, <1>3, <1>4, <1>5, <1>6, <1>7, <1>8, <1>9, <1>10

LEMMA SameAlu ==
  ASSUME NEW fn, NEW a, NEW b, NEW f
  PROVE  Machine!Alu(fn, a, b, f) = Alu(fn, a, b, f)
BY Zenon
   DEF Machine!Modulus, Modulus, Machine!Word, Word, Machine!BitPositions, BitPositions,
       Machine!BitOf, BitOf, Machine!AsBit, AsBit, Machine!Not, Not, Machine!NZ, NZ,
       Machine!LowSum, LowSum, Machine!CarryOut, CarryOut, Machine!Overflow, Overflow,
       Machine!NZCV, NZCV, Machine!Add, Add, Machine!Sub, Sub, Machine!Adc, Adc,
       Machine!Sbc, Sbc, Machine!OnlyNZ, OnlyNZ, Machine!And, And, Machine!Orr, Orr,
       Machine!Eor, Eor, Machine!Lsl, Lsl, Machine!Lsr, Lsr, Machine!Asr, Asr,
       Machine!Ror, Ror, Machine!ShiftOps, ShiftOps, Machine!ShiftBy, ShiftBy,
       Machine!Shift, Shift, Machine!LogicOps, LogicOps, Machine!Logic, Logic,
       Machine!Alu, Alu

\* The steps of the machine, on a state with these components.
LEMMA MachineRecords ==
  ASSUME NEW a, NEW b, NEW c, NEW d
  PROVE  /\ Machine!Same(Rec(a, b, c, d)) = Rec(a, Wrap(b + 2), c, d)
         /\ \A x : Machine!Goto(Rec(a, b, c, d), x) = Rec(a, Even(Wrap(x)), c, d)
         /\ \A x : Machine!Def(Rec(a, b, c, d), PC, x) = Rec(a, Even(Wrap(x)), c, d)
         /\ \A q, x : q # PC =>
              Machine!Def(Rec(a, b, c, d), q, x) = Rec(Replaced(a, q, Wrap(x)), Wrap(b + 2), c, d)
         /\ \A x : Machine!Call(Rec(a, b, c, d), x)
                     = Rec(Replaced(a, LR, Wrap(b + 2) + 1), Even(Wrap(x)), c, d)
<1>0. PICK m : m = Rec(a, b, c, d)
  OBVIOUS
<1>1. Machine!Same(m) = Rec(a, Wrap(b + 2), c, d)
  BY <1>0, SameWords DEF Machine!Same, Rec
<1>2. ASSUME NEW x PROVE Machine!Goto(m, x) = Rec(a, Even(Wrap(x)), c, d)
  BY <1>0, SameWords DEF Machine!Goto, Machine!Aligned, Even, Rec
<1>3. ASSUME NEW x PROVE Machine!Def(m, PC, x) = Rec(a, Even(Wrap(x)), c, d)
  BY <1>2, SameWords DEF Machine!Def
<1>4. ASSUME NEW q, NEW x, q # PC
      PROVE  Machine!Def(m, q, x) = Rec(Replaced(a, q, Wrap(x)), Wrap(b + 2), c, d)
  BY <1>1, <1>4, SameWords DEF Machine!Def, Rec, Replaced
<1>5. ASSUME NEW x
      PROVE  Machine!Call(m, x) = Rec(Replaced(a, LR, Wrap(b + 2) + 1), Even(Wrap(x)), c, d)
  <2>1. PICK g, y : g = Machine!Goto(m, x) /\ y = Even(Wrap(x)) /\ g = Rec(a, y, c, d)
    BY <1>2
  <2>2. [g EXCEPT !.regs[LR] = Wrap(b + 2) + 1] = Rec(Replaced(a, LR, Wrap(b + 2) + 1), y, c, d)
    BY <2>1 DEF Rec, Replaced
  <2>3. m.pc = b
    BY <1>0 DEF Rec
  <2>4. QED
    BY <2>1, <2>2, <2>3, SameWords DEF Machine!Call
<1>6. QED
  BY <1>0, <1>1, <1>2, <1>3, <1>4, <1>5

-----------------------------------------------------------------------------
(* The program counter. *)

LEMMA WrapSum ==
  ASSUME NEW x \in Int, NEW y \in Int
  PROVE  Wrap(Wrap(x) + y) = Wrap(x + y)
<1>1. PICK M \in Nat \ {0} : M = Modulus
  BY Parity
<1>2. PICK d \in Int, t \in 0 .. M - 1 : t = x % M /\ x = M * d + t
  <2>1. x \div M \in Int /\ x % M \in 0 .. M - 1 /\ x = M * (x \div M) + (x % M)
    BY DivExists
  <2>2. QED
    BY <2>1
<1>3. PICK z \in Int, e \in Int, s \in 0 .. M - 1 : z = t + y /\ s = z % M /\ z = M * e + s
  <2>1. PICK z \in Int : z = t + y
    OBVIOUS
  <2>2. z \div M \in Int /\ z % M \in 0 .. M - 1 /\ z = M * (z \div M) + (z % M)
    BY DivExists
  <2>3. QED
    BY <2>1, <2>2
<1>4. PICK c \in Int, w \in Int : c = d + e /\ w = x + y
  OBVIOUS
<1>5. w = M * c + s
  <2>1. M * c = M * d + M * e
    BY <1>4
  <2>2. PICK p \in Int, q \in Int, n \in Int : p = M * d /\ q = M * e /\ n = M * c
    OBVIOUS
  <2>3. n = p + q /\ x = p + t /\ z = q + s /\ z = t + y /\ w = x + y
    BY <1>2, <1>3, <1>4, <2>1, <2>2
  <2>4. w = n + s
    BY <2>3
  <2>5. QED
    BY <2>2, <2>4
<1>6. w % M = s
  BY <1>5, DivUnique
<1>7. QED
  BY <1>1, <1>2, <1>3, <1>4, <1>6 DEF Wrap

\* Clearing bit 0 before and after wrapping around.
LEMMA WrapEven ==
  ASSUME NEW x \in Int
  PROVE  Even(Wrap(x)) = Wrap(Even(x)) /\ Even(x) \in Int /\ Even(x) % 2 = 0
<1>1. PICK H \in Nat \ {0} : H = Half /\ Modulus = 2 * H
  BY WordSize DEF Modulus
<1>2. PICK M \in Nat \ {0} : M = Modulus /\ M = 2 * H
  BY <1>1
<1>3. PICK d \in Int, t \in 0 .. M - 1 : t = x % M /\ x = M * d + t
  <2>1. x \div M \in Int /\ x % M \in 0 .. M - 1 /\ x = M * (x \div M) + (x % M)
    BY DivExists
  <2>2. QED
    BY <2>1
<1>4. PICK g \in Int : g = H * d /\ M * d = 2 * g
  BY <1>2
<1>5. x = 2 * g + t /\ x % 2 = t % 2
  BY <1>3, <1>4
<1>6. PICK e \in 0 .. M - 1 : e = t - (t % 2)
  BY <1>3
<1>7. Even(x) = M * d + e /\ Even(x) \in Int /\ Even(x) % 2 = 0
  <2>1. PICK y \in Int, n \in Int : y = Even(x) /\ n = M * d
    BY DEF Even
  <2>2. y = x - (t % 2) /\ x = n + t /\ e = t - (t % 2) /\ n = 2 * g
    BY <1>3, <1>4, <1>5, <1>6, <2>1 DEF Even
  <2>3. t \in Int /\ t % 2 \in Int /\ e % 2 = 0
    BY <1>3, <1>6
  <2>4. y = n + e
    BY <2>2, <2>3
  <2>5. y % 2 = 0
    BY <2>2, <2>3, <2>4
  <2>6. QED
    BY <2>1, <2>4, <2>5
<1>8. Even(x) % M = e
  <2>1. PICK z \in Int : z = Even(x) /\ z = M * d + e
    BY <1>7
  <2>2. z % M = e
    BY <2>1, DivUnique
  <2>3. QED
    BY <2>1, <2>2
<1>9. QED
  BY <1>2, <1>3, <1>6, <1>7, <1>8 DEF Wrap, Even

\* The program counter register is 2 ahead of the address branched to.
LEMMA PCBehind ==
  ASSUME NEW x \in Int
  PROVE  Wrap(Even(Wrap(x + 2)) - 2) = Even(Wrap(x))
<1>1. PICK y \in Int, e \in Int, f \in Int : y = x + 2 /\ e = Even(x) /\ f = Even(y)
  BY WrapEven
<1>2. f = e + 2
  BY <1>1 DEF Even
<1>3. Even(Wrap(y)) = Wrap(f) /\ Even(Wrap(x)) = Wrap(e)
  BY <1>1, WrapEven
<1>4. Wrap(Wrap(f) + (-2)) = Wrap(f + (-2))
  BY WrapSum
<1>5. Wrap(f) + (-2) = Wrap(f) - 2 /\ f + (-2) = e
  <2>1. PICK w \in Int : w = Wrap(f)
    BY Parity
  <2>2. QED
    BY <1>2, <2>1
<1>6. QED
  BY <1>1, <1>3, <1>4, <1>5

\* What the instruction about to be executed reads.
LEMMA Ahead ==
  ASSUME TypeInv, Here \in DOMAIN program
  PROVE  /\ Here \in Word /\ Here \in Int /\ Here % 2 = 0
         /\ RegsOK(Advanced) /\ Advanced[PC] = Wrap(Here + 4)
         /\ Wrap(Advanced[PC] - 2) = Wrap(Here + 2) /\ Wrap(Here + 2) % 2 = 0
         /\ Low(Advanced) = Low(reg)
         /\ Before = Rec(Low(Advanced), Here, cpsr, BytesOf(mem))
<1>1. PICK h \in Word : h = Here /\ h \in Int /\ h % 2 = 0
  BY FetchedType, Parity
<1>2. RegsOK(Advanced) /\ Advanced[PC] = Wrap(h + 4) /\ Advanced = [reg EXCEPT ![PC] = Wrap(h + 4)]
  BY <1>1, FetchedType, AdvancedIsAhead
<1>3. Wrap(Advanced[PC] - 2) = Wrap(h + 2)
  <2>1. PICK z \in Int : z = h + 4
    BY <1>1
  <2>2. Wrap(Wrap(z) + (-2)) = Wrap(z + (-2))
    BY WrapSum
  <2>3. Wrap(z) + (-2) = Wrap(z) - 2 /\ z + (-2) = h + 2
    <3>1. PICK w \in Int : w = Wrap(z)
      BY Parity
    <3>2. QED
      BY <1>1, <2>1, <3>1
  <2>4. QED
    BY <1>2, <2>1, <2>2, <2>3
<1>4. Wrap(h + 2) % 2 = 0
  <2>1. h + 2 \in Int /\ (h + 2) % 2 = 0
    BY <1>1
  <2>2. QED
    BY <2>1, Parity
<1>5. Low(Advanced) = Low(reg)
  BY <1>2 DEF Low, TypeInv, TypeOK
<1>6. Before = Rec(Low(Advanced), Here, cpsr, BytesOf(mem))
  BY <1>5 DEF Before, View, Now, Here
<1>7. QED
  BY <1>1, <1>2, <1>3, <1>4, <1>5, <1>6

\* The program counter as an operand is the machine's, 4 ahead of the instruction.
LEMMA ReadsAlike ==
  ASSUME TypeInv, Here \in DOMAIN program
  PROVE  /\ \A q \in Regs : Machine!R(Before, q) = Advanced[q]
         /\ \A q \in Regs \ {PC} : Before.regs[q] = Advanced[q]
         /\ \A i : Machine!Operand2(Before, i) = Operand(i, Advanced)
         /\ Before.flags = cpsr /\ Before.pc = Here /\ Before.bytes = BytesOf(mem)
<1>0. PICK m : m = Before
  OBVIOUS
<1>1. m = Rec(Low(Advanced), Here, cpsr, BytesOf(mem)) /\ Advanced[PC] = Wrap(Here + 4)
  BY <1>0, Ahead
<1>2. m.regs = Low(Advanced) /\ m.flags = cpsr /\ m.pc = Here /\ m.bytes = BytesOf(mem)
  BY <1>1 DEF Rec
<1>3. \A q \in Regs \ {PC} : m.regs[q] = Advanced[q]
  BY <1>2 DEF Low
<1>4. \A q \in Regs : Machine!R(m, q) = Advanced[q]
  BY <1>1, <1>2, <1>3, SameWords DEF Machine!R
<1>5. \A i : Machine!Operand2(m, i) = Operand(i, Advanced)
  BY <1>4, SameWords DEF Machine!Operand2, Operand
<1>6. QED
  BY <1>0, <1>2, <1>3, <1>4, <1>5

-----------------------------------------------------------------------------
(* Words and their bytes. *)

LEMMA BytePlaces ==
  ASSUME NEW B, B = ByteSize, NEW x \in Int
  PROVE  /\ B \in Nat \ {0} /\ B % 2 = 0 /\ HalfwordSize = B * B /\ Modulus = (B * B) * (B * B)
         /\ ByteOf(x, 0) = x % B
         /\ ByteOf(x, 1) = (x \div B) % B
         /\ ByteOf(x, 2) = ((x \div B) \div B) % B
         /\ ByteOf(x, 3) = (((x \div B) \div B) \div B) % B
<1>1. PICK n \in Nat \ {0} : n = W \div 4 /\ W = 4 * n
  <2>1. PICK w \in Nat \ {0} : w = W /\ w % 4 = 0
    BY WidthAssumption, ByteAssumption
  <2>2. w = 4 * (w \div 4) /\ w \div 4 \in Nat \ {0}
    BY <2>1
  <2>3. QED
    BY <2>1, <2>2
<1>2. B = 2 ^ n /\ B \in Nat \ {0} /\ HalfwordSize = B * B /\ Modulus = (B * B) * (B * B)
  BY <1>1, ByteSizes DEF ByteSize
<1>3. B % 2 = 0
  <2>1. B = 2 * 2 ^ (n - 1) /\ n - 1 \in Nat
    BY <1>1, <1>2, PowerStep
  <2>2. PICK g \in Nat \ {0} : g = 2 ^ (n - 1)
    BY <2>1, PowerIsNatural
  <2>3. B = 2 * g + 0
    BY <2>1, <2>2
  <2>4. QED
    BY <2>2, <2>3
<1>4. 2 ^ (0 * n) = 1 /\ 2 ^ (1 * n) = B /\ 2 ^ (2 * n) = B * B /\ 2 ^ (3 * n) = (B * B) * B
  <2>1. 0 * n = 0 /\ 1 * n = n /\ 2 * n = n + n /\ 3 * n = (n + n) + n /\ n + n \in Nat
    BY <1>1
  <2>2. 2 ^ (n + n) = B * B
    BY <1>1, <1>2, PowerSum
  <2>3. 2 ^ ((n + n) + n) = (B * B) * B
    BY <1>1, <1>2, <2>1, <2>2, PowerSum
  <2>4. 2 ^ 0 = 1
    OBVIOUS
  <2>5. QED
    BY <1>2, <2>1, <2>2, <2>3, <2>4
<1>5. /\ x \div 1 = x /\ x \div (B * B) = (x \div B) \div B
      /\ x \div ((B * B) * B) = ((x \div B) \div B) \div B
  <2>1. x \div (B * B) = (x \div B) \div B
    BY <1>2, DivTwice
  <2>2. B * B \in Nat \ {0}
    BY <1>2, ByteSizes
  <2>3. x \div ((B * B) * B) = (x \div (B * B)) \div B
    BY <1>2, <2>2, DivTwice
  <2>4. QED
    BY <2>1, <2>3
<1>6. QED
  BY <1>1, <1>2, <1>3, <1>4, <1>5 DEF ByteOf, ByteSize

\* The bytes that a word is made of are its bytes.
LEMMA BytesMakeWord ==
  ASSUME NEW B, B = ByteSize,
         NEW b0 \in 0 .. B - 1, NEW b1 \in 0 .. B - 1, NEW b2 \in 0 .. B - 1, NEW b3 \in 0 .. B - 1,
         NEW x, x = FromBytes(b0, b1, b2, b3)
  PROVE  /\ x \in Word /\ x \in Int
         /\ ByteOf(x, 0) = b0 /\ ByteOf(x, 1) = b1 /\ ByteOf(x, 2) = b2 /\ ByteOf(x, 3) = b3
         /\ x % HalfwordSize = b0 + B * b1 /\ x \div HalfwordSize = b2 + B * b3
         /\ x % B = b0 /\ b0 + B * b1 \in 0 .. HalfwordSize - 1
<1>1. B \in Nat \ {0} /\ HalfwordSize = B * B /\ Modulus = (B * B) * (B * B)
  <2>1. B \in Nat \ {0}
    BY ByteSizes
  <2>2. QED
    BY <2>1, ByteSizes
<1>2. PICK H \in Nat \ {0} : H = B * B
  BY <1>1, ByteSizes
<1>3. PICK lo \in 0 .. H - 1 : lo = b0 + B * b1
  <2>1. b1 <= B - 1 /\ B * b1 <= B * (B - 1) /\ B * (B - 1) = B * B - B
    BY <1>1
  <2>2. PICK p \in Int : p = B * b1
    BY <1>1
  <2>3. b0 + p \in 0 .. H - 1
    BY <1>1, <1>2, <2>1, <2>2
  <2>4. QED
    BY <2>2, <2>3
<1>4. PICK hi \in 0 .. H - 1 : hi = b2 + B * b3
  <2>1. b3 <= B - 1 /\ B * b3 <= B * (B - 1) /\ B * (B - 1) = B * B - B
    BY <1>1
  <2>2. PICK p \in Int : p = B * b3
    BY <1>1
  <2>3. b2 + p \in 0 .. H - 1
    BY <1>1, <1>2, <2>1, <2>2
  <2>4. QED
    BY <2>2, <2>3
<1>5. PICK y \in Int, z \in Int : y = B * hi + b1 /\ z = B * b3 + b2 /\ z = hi
  BY <1>1, <1>4
<1>6. x = B * y + b0 /\ x = H * hi + lo
  <2>1. x = b0 + B * (b1 + B * (b2 + B * b3))
    BY DEF FromBytes
  <2>2. x = b0 + B * (b1 + B * hi)
    BY <1>4, <2>1
  <2>3. b1 + B * hi = y
    BY <1>1, <1>4, <1>5
  <2>4. B * (b1 + B * hi) = B * b1 + (B * B) * hi
    BY <1>1, <1>4
  <2>5. PICK p \in Int, q \in Int : p = B * b1 /\ q = H * hi
    BY <1>1, <1>2, <1>4
  <2>6. x = b0 + (p + q) /\ lo = b0 + p
    BY <1>2, <1>3, <2>2, <2>4, <2>5
  <2>7. x = H * hi + lo
    BY <2>5, <2>6
  <2>8. x = B * y + b0
    BY <2>2, <2>3, <1>1, <1>5
  <2>9. QED
    BY <2>7, <2>8
<1>7. x \in Int /\ x \in Word
  <2>1. PICK q \in Int : q = H * hi
    BY <1>2, <1>4
  <2>2. hi <= H - 1 /\ 0 <= q /\ q <= H * (H - 1) /\ H * (H - 1) = H * H - H
    BY <1>2, <1>4, <2>1
  <2>3. PICK M \in Int : M = H * H
    BY <1>2
  <2>4. x \in 0 .. M - 1
    BY <1>2, <1>3, <1>6, <2>1, <2>2, <2>3
  <2>5. QED
    BY <1>1, <1>2, <2>3, <2>4 DEF Word
<1>8. x % B = b0 /\ x \div B = y /\ x % H = lo /\ x \div H = hi
  <2>1. PICK v \in Int : v = x /\ v = B * y + b0 /\ v = H * hi + lo
    BY <1>6, <1>7
  <2>2. v % B = b0 /\ v \div B = y
    <3>1. B \in Nat \ {0} /\ y \in Int /\ v = B * y + b0
      BY <1>1, <1>5, <2>1
    <3>2. QED
      BY <3>1, DivUnique
  <2>3. hi \in Int /\ v % H = lo /\ v \div H = hi
    BY <1>2, <1>3, <1>4, <2>1, DivUnique
  <2>4. QED
    BY <2>1, <2>2, <2>3
<1>9. y % B = b1 /\ y \div B = hi
  <2>1. y \in Int /\ hi \in Int /\ y = B * hi + b1
    BY <1>4, <1>5
  <2>2. QED
    BY <1>1, <2>1, DivUnique
<1>10. hi % B = b2 /\ hi \div B = b3
  <2>1. hi \in Int /\ b3 \in Int /\ hi = B * b3 + b2
    BY <1>1, <1>4, <1>5
  <2>2. QED
    BY <1>1, <2>1, DivUnique
<1>11. b3 % B = b3
  <2>1. b3 \in Int /\ 0 \in Int /\ b3 = B * 0 + b3
    BY <1>1
  <2>2. QED
    BY <1>1, <2>1, DivUnique
<1>12. ByteOf(x, 0) = b0 /\ ByteOf(x, 1) = b1 /\ ByteOf(x, 2) = b2 /\ ByteOf(x, 3) = b3
  <2>1. /\ ByteOf(x, 0) = x % B
        /\ ByteOf(x, 1) = (x \div B) % B
        /\ ByteOf(x, 2) = ((x \div B) \div B) % B
        /\ ByteOf(x, 3) = (((x \div B) \div B) \div B) % B
    BY <1>7, BytePlaces
  <2>2. QED
    BY <1>8, <1>9, <1>10, <1>11, <2>1
<1>13. QED
  BY <1>1, <1>2, <1>3, <1>4, <1>7, <1>8, <1>12

\* Every word is made of bytes.
LEMMA WordHasBytes ==
  ASSUME NEW x \in Word, NEW B, B = ByteSize
  PROVE  \E b0, b1, b2, b3 \in 0 .. B - 1 : x = FromBytes(b0, b1, b2, b3)
<1>1. B \in Nat \ {0} /\ Modulus = (B * B) * (B * B)
  <2>1. B \in Nat \ {0}
    BY ByteSizes
  <2>2. QED
    BY <2>1, ByteSizes
<1>2. PICK M \in Nat \ {0} : M = Modulus
  BY Parity
<1>3. x \in Nat /\ x < M /\ B \in Int /\ M = B * (B * (B * B))
  BY <1>1, <1>2 DEF Word
<1>4. PICK b0 \in 0 .. B - 1, y \in Nat : x = B * y + b0 /\ y < B * (B * B)
  <2>1. x \div B \in Int /\ x % B \in 0 .. B - 1 /\ x = B * (x \div B) + (x % B)
    BY <1>1, <1>3, DivExists
  <2>2. B * (B * B) \in Nat /\ x < B * (B * (B * B))
    BY <1>1, <1>3
  <2>3. x \div B \in 0 .. B * (B * B) - 1
    BY <1>1, <1>3, <2>2, DivBound
  <2>4. QED
    BY <2>1, <2>2, <2>3
<1>5. PICK b1 \in 0 .. B - 1, z \in Nat : y = B * z + b1 /\ z < B * B
  <2>1. y \div B \in Int /\ y % B \in 0 .. B - 1 /\ y = B * (y \div B) + (y % B)
    BY <1>1, DivExists
  <2>2. B * B \in Nat
    BY <1>1
  <2>3. y \div B \in 0 .. B * B - 1
    BY <1>1, <1>4, <2>2, DivBound
  <2>4. QED
    BY <2>1, <2>2, <2>3
<1>6. PICK b2 \in 0 .. B - 1, b3 \in Nat : z = B * b3 + b2 /\ b3 < B
  <2>1. z \div B \in Int /\ z % B \in 0 .. B - 1 /\ z = B * (z \div B) + (z % B)
    BY <1>1, DivExists
  <2>2. z \div B \in 0 .. B - 1
    BY <1>1, <1>5, DivBound
  <2>3. z \div B \in Nat /\ z \div B < B
    BY <1>1, <2>2
  <2>4. QED
    BY <2>1, <2>3
<1>7. b3 \in 0 .. B - 1
  BY <1>1, <1>6
<1>8. x = FromBytes(b0, b1, b2, b3)
  <2>1. z = b2 + B * b3 /\ y = b1 + B * z /\ x = b0 + B * y
    BY <1>1, <1>4, <1>5, <1>6
  <2>2. QED
    BY <2>1 DEF FromBytes
<1>9. QED
  BY <1>7, <1>8

\* The bytes of a word are a number below the size of a byte, and make it up.
LEMMA WordIsItsBytes ==
  ASSUME NEW x \in Word, NEW B, B = ByteSize
  PROVE  /\ ByteOf(x, 0) \in 0 .. B - 1 /\ ByteOf(x, 1) \in 0 .. B - 1
         /\ ByteOf(x, 2) \in 0 .. B - 1 /\ ByteOf(x, 3) \in 0 .. B - 1
         /\ x = FromBytes(ByteOf(x, 0), ByteOf(x, 1), ByteOf(x, 2), ByteOf(x, 3))
<1>1. PICK b0, b1, b2, b3 \in 0 .. B - 1 : x = FromBytes(b0, b1, b2, b3)
  BY WordHasBytes
<1>2. ByteOf(x, 0) = b0 /\ ByteOf(x, 1) = b1 /\ ByteOf(x, 2) = b2 /\ ByteOf(x, 3) = b3
  BY <1>1, BytesMakeWord
<1>3. QED
  BY <1>1, <1>2

\* Numbers made of a low and a high digit.
LEMMA TwoDigits ==
  ASSUME NEW B, B = ByteSize, NEW lo \in 0 .. B - 1, NEW hi \in 0 .. B - 1, NEW h, h = lo + B * hi
  PROVE  h \in Int /\ h % B = lo /\ h \div B = hi
<1>1. B \in Nat \ {0}
  BY ByteSizes
<1>2. PICK v \in Int : v = h /\ v = B * hi + lo
  BY <1>1
<1>3. hi \in Int
  OBVIOUS
<1>4. v % B = lo /\ v \div B = hi
  BY <1>1, <1>2, <1>3, DivUnique
<1>5. QED
  BY <1>2, <1>4

\* A word is made of two halfwords.
LEMMA FromHalves ==
  ASSUME NEW B, B = ByteSize, NEW b0 \in 0 .. B - 1, NEW b1 \in 0 .. B - 1,
         NEW b2 \in 0 .. B - 1, NEW b3 \in 0 .. B - 1
  PROVE  FromBytes(b0, b1, b2, b3) = (b0 + B * b1) + HalfwordSize * (b2 + B * b3)
<1>1. B \in Nat \ {0} /\ HalfwordSize = B * B
  BY ByteSizes
<1>2. PICK k \in Int : k = b2 + B * b3
  BY <1>1
<1>3. FromBytes(b0, b1, b2, b3) = b0 + B * (b1 + B * k)
  BY <1>2 DEF FromBytes
<1>4. B * (b1 + B * k) = B * b1 + (B * B) * k
  BY <1>1, <1>2
<1>5. PICK p \in Int, q \in Int : p = B * b1 /\ q = (B * B) * k
  BY <1>1, <1>2
<1>6. b0 + (p + q) = (b0 + p) + q
  BY <1>5
<1>7. QED
  BY <1>1, <1>2, <1>3, <1>4, <1>5, <1>6

\* An address and the word around it.
LEMMA AddressParts ==
  ASSUME NEW a \in Int
  PROVE  /\ WordOf(a) \in Int /\ a % 4 \in 0 .. 3 /\ a = WordOf(a) + (a % 4)
         /\ Machine!Aligned(a, 4) = WordOf(a) /\ Machine!Aligned(a, 1) = a
         /\ Machine!Aligned(a, 2) = WordOf(a) + IF a % 4 >= 2 THEN 2 ELSE 0
         /\ (a % 2 = 1) = (a % 4 \in {1, 3})
         /\ \A k \in 0 .. 3 : WordOf(WordOf(a) + k) = WordOf(a) /\ (WordOf(a) + k) % 4 = k
         /\ WordOf(WordOf(a)) = WordOf(a)
<1>1. PICK d \in Int, k \in 0 .. 3 : d = a \div 4 /\ k = a % 4 /\ a = 4 * d + k /\ WordOf(a) = 4 * d
  BY DEF WordOf
<1>2. a % 2 = k % 2
  BY <1>1
<1>3. k % 2 = IF k \in {1, 3} THEN 1 ELSE 0
  BY <1>1
<1>4. \A j \in 0 .. 3 : (4 * d + j) \div 4 = d /\ (4 * d + j) % 4 = j
  BY <1>1
<1>5. \A j \in 0 .. 3 : WordOf(4 * d + j) = 4 * d
  BY <1>1, <1>4 DEF WordOf
<1>6. WordOf(4 * d) = 4 * d
  BY <1>1 DEF WordOf
<1>7. Machine!Aligned(a, 4) = 4 * d /\ Machine!Aligned(a, 1) = a
  BY <1>1 DEF Machine!Aligned
<1>8. Machine!Aligned(a, 2) = 4 * d + IF k >= 2 THEN 2 ELSE 0
  BY <1>1, <1>2, <1>3 DEF Machine!Aligned
<1>9. (a % 2 = 1) = (k \in {1, 3})
  BY <1>2, <1>3
<1>10. (a % 2 = 1) = (a % 4 \in {1, 3})
  BY <1>1, <1>9
<1>11. \A j \in 0 .. 3 : WordOf(WordOf(a) + j) = WordOf(a) /\ (WordOf(a) + j) % 4 = j
  BY <1>1, <1>4, <1>5
<1>12. WordOf(WordOf(a)) = WordOf(a)
  BY <1>1, <1>6
<1>13. /\ WordOf(a) \in Int /\ a % 4 \in 0 .. 3 /\ a = WordOf(a) + (a % 4)
       /\ Machine!Aligned(a, 4) = WordOf(a) /\ Machine!Aligned(a, 1) = a
       /\ Machine!Aligned(a, 2) = WordOf(a) + IF a % 4 >= 2 THEN 2 ELSE 0
  BY <1>1, <1>7, <1>8
<1>14. QED
  BY <1>10, <1>11, <1>12, <1>13

\* The bytes of a word of RAM.
LEMMA Cells ==
  ASSUME NEW w \in DataWords, NEW k \in 0 .. 3
  PROVE  /\ w \in Int /\ w \in Word /\ WordOf(w) = w /\ WordOf(w + k) = w /\ (w + k) % 4 = k
         /\ w + k \in DataBytes /\ Wrap(w + k) = w + k
<1>1. w \in Word /\ w % 4 = 0 /\ w \in Int
  <2>1. w \in Word /\ w % 4 = 0
    BY AddressAssumption
  <2>2. QED
    BY <2>1, Parity
<1>2. PICK d \in Int : w = 4 * d
  BY <1>1
<1>3. WordOf(w) = w /\ WordOf(w + k) = w /\ (w + k) % 4 = k
  BY <1>2 DEF WordOf
<1>4. w + k \in DataBytes
  <2>1. DataWords \subseteq Int
    BY AddressAssumption, Parity
  <2>2. PICK c \in Int : c = w + k
    BY <1>1
  <2>3. c \in DataBytes
    BY <2>1, <2>2 DEF DataBytes
  <2>4. QED
    BY <2>2, <2>3
<1>5. PICK M \in Nat \ {0}, n \in Int : M = Modulus /\ M = 4 * n
  <2>1. PICK B \in Nat \ {0} : B = ByteSize /\ B % 2 = 0 /\ Modulus = (B * B) * (B * B)
    <3>1. 0 \in Int
      OBVIOUS
    <3>2. QED
      BY <3>1, BytePlaces
  <2>2. PICK e \in Int : B = 2 * e
    BY <2>1
  <2>3. (B * B) * (B * B) = 4 * ((e * e) * (B * B))
    BY <2>2
  <2>4. (e * e) * (B * B) \in Int
    BY <2>1, <2>2
  <2>5. QED
    BY <2>1, <2>3, <2>4, Parity
<1>6. 0 <= w /\ w < M
  BY <1>1, <1>5 DEF Word
<1>7. 0 <= w + k /\ w + k < M
  BY <1>2, <1>5, <1>6
<1>8. (w + k) % M = w + k
  BY <1>1, <1>5, <1>7
<1>9. QED
  BY <1>1, <1>3, <1>4, <1>5, <1>8 DEF Wrap

LEMMA CellsOf ==
  ASSUME NEW c \in DataBytes
  PROVE  c \in Int /\ WordOf(c) \in DataWords /\ c % 4 \in 0 .. 3 /\ c = WordOf(c) + (c % 4)
<1>1. PICK w \in DataWords, k \in 0 .. 3 : c = w + k
  BY DEF DataBytes
<1>2. w \in Int /\ WordOf(c) = w /\ c % 4 = k
  BY <1>1, Cells
<1>3. QED
  BY <1>1, <1>2

LEMMA BytesHeld ==
  ASSUME NEW m, NEW w \in DataWords, NEW k \in 0 .. 3
  PROVE  BytesOf(m)[Wrap(w + k)] = ByteOf(m[w], k)
BY Cells DEF BytesOf

\* Loading n bytes, the lowest first.
LEMMA LoadIs ==
  ASSUME NEW m, NEW a, NEW n \in 1 .. 4
  PROVE  Machine!Load(m, a, n) =
           FromBytes(m.bytes[Wrap(a + 0)],
                     IF 1 < n THEN m.bytes[Wrap(a + 1)] ELSE 0,
                     IF 2 < n THEN m.bytes[Wrap(a + 2)] ELSE 0,
                     IF 3 < n THEN m.bytes[Wrap(a + 3)] ELSE 0)
<1>1. PICK f : f = [k \in 0 .. 3 |-> IF k < n THEN m.bytes[Wrap(a + k)] ELSE 0]
  OBVIOUS
<1>2. /\ f[0] = m.bytes[Wrap(a + 0)] /\ f[1] = IF 1 < n THEN m.bytes[Wrap(a + 1)] ELSE 0
      /\ f[2] = IF 2 < n THEN m.bytes[Wrap(a + 2)] ELSE 0
      /\ f[3] = IF 3 < n THEN m.bytes[Wrap(a + 3)] ELSE 0
  BY <1>1
<1>3. Machine!Load(m, a, n) = FromBytes(f[0], f[1], f[2], f[3])
  <2>1. f = [k \in 0 .. 3 |-> IF k < n THEN m.bytes[Machine!Wrap(a + k)] ELSE 0]
    BY <1>1, SameWords
  <2>2. Machine!Load(m, a, n) = Machine!WithBytes(f)
    BY <2>1 DEF Machine!Load
  <2>3. QED
    BY <2>2, SameWords DEF Machine!WithBytes
<1>4. QED
  BY <1>2, <1>3

\* Word v is made of these bytes, and h is its halfword at address a.
MadeOf(v, a, h, b0, b1, b2, b3) ==
  /\ v = FromBytes(b0, b1, b2, b3)
  /\ ByteOf(v, 0) = b0 /\ ByteOf(v, 1) = b1 /\ ByteOf(v, 2) = b2 /\ ByteOf(v, 3) = b3
  /\ a % 4 >= 2 => h = b2 + ByteSize * b3 /\ h % ByteSize = b2 /\ h \div ByteSize = b3
  /\ ~(a % 4 >= 2) => h = b0 + ByteSize * b1 /\ h % ByteSize = b0 /\ h \div ByteSize = b1

\* A word, its halfword at an address, and the bytes of both.
LEMMA HalfwordRead ==
  ASSUME NEW v \in Word, NEW B, B = ByteSize, NEW a \in Int, NEW h, h = ReadHalf(v, a)
  PROVE  \E b0, b1, b2, b3 \in 0 .. B - 1 : MadeOf(v, a, h, b0, b1, b2, b3)
<1>1. PICK b0, b1, b2, b3 \in 0 .. B - 1 : v = FromBytes(b0, b1, b2, b3)
  BY WordHasBytes
<1>2. ByteOf(v, 0) = b0 /\ ByteOf(v, 1) = b1 /\ ByteOf(v, 2) = b2 /\ ByteOf(v, 3) = b3
  BY <1>1, BytesMakeWord
<1>3. h = IF a % 4 >= 2 THEN b2 + B * b3 ELSE b0 + B * b1
  <2>1. v % HalfwordSize = b0 + B * b1 /\ v \div HalfwordSize = b2 + B * b3
    BY <1>1, BytesMakeWord
  <2>2. QED
    BY <2>1 DEF ReadHalf
<1>4. CASE a % 4 >= 2
  <2>1. h = b2 + B * b3
    BY <1>3, <1>4
  <2>2. h % B = b2 /\ h \div B = b3
    BY <1>1, <2>1, TwoDigits
  <2>3. MadeOf(v, a, h, b0, b1, b2, b3)
    BY <1>1, <1>2, <1>4, <2>1, <2>2 DEF MadeOf
  <2>4. QED
    BY <2>3
<1>5. CASE ~(a % 4 >= 2)
  <2>1. h = b0 + B * b1
    BY <1>3, <1>5
  <2>2. h % B = b0 /\ h \div B = b1
    BY <1>1, <2>1, TwoDigits
  <2>3. MadeOf(v, a, h, b0, b1, b2, b3)
    BY <1>1, <1>2, <1>5, <2>1, <2>2 DEF MadeOf
  <2>4. QED
    BY <2>3
<1>6. QED
  BY <1>4, <1>5

\* A halfword and a byte are words with zeros for their other bytes.
LEMMA ZeroBytes ==
  ASSUME NEW B, B = ByteSize
  PROVE  /\ \A b \in 0 .. B - 1 : FromBytes(b, 0, 0, 0) = b
         /\ \A lo, hi \in 0 .. B - 1 : FromBytes(lo, hi, 0, 0) = lo + B * hi
<1>1. B \in Nat \ {0} /\ B * 0 = 0
  BY ByteSizes
<1>2. ASSUME NEW b \in 0 .. B - 1 PROVE FromBytes(b, 0, 0, 0) = b
  BY <1>1 DEF FromBytes
<1>3. ASSUME NEW lo \in 0 .. B - 1, NEW hi \in 0 .. B - 1
      PROVE  FromBytes(lo, hi, 0, 0) = lo + B * hi
  <2>1. hi + 0 = hi /\ lo \in Int
    OBVIOUS
  <2>2. FromBytes(lo, hi, 0, 0) = lo + B * (hi + B * (0 + B * 0))
    BY DEF FromBytes
  <2>3. B * (0 + B * 0) = 0
    BY <1>1
  <2>4. QED
    BY <2>1, <2>2, <2>3
<1>4. QED
  BY <1>2, <1>3

\* A word, a halfword and a byte loaded from the machine's memory.
LEMMA LoadsAlike ==
  ASSUME MemOK(mem), NEW m, m.bytes = BytesOf(mem), NEW a \in Int,
         NEW w \in DataWords, w = WordOf(a), NEW h, h = ReadHalf(mem[w], a)
  PROVE  /\ Machine!Load(m, Machine!Aligned(a, 4), 4) = mem[w]
         /\ Machine!Load(m, Machine!Aligned(a, 2), 2) = h
         /\ Machine!Load(m, Machine!Aligned(a, 1), 1) = IF a % 2 = 1 THEN h \div ByteSize
                                                         ELSE h % ByteSize
<1>1. PICK B, v : B = ByteSize /\ v = mem[w]
  OBVIOUS
<1>2. v \in Word
  BY <1>1 DEF MemOK
<1>3. PICK b0, b1, b2, b3 \in 0 .. B - 1 :
        /\ v = FromBytes(b0, b1, b2, b3)
        /\ ByteOf(v, 0) = b0 /\ ByteOf(v, 1) = b1 /\ ByteOf(v, 2) = b2 /\ ByteOf(v, 3) = b3
        /\ a % 4 >= 2 => h = b2 + B * b3 /\ h % B = b2 /\ h \div B = b3
        /\ ~(a % 4 >= 2) => h = b0 + B * b1 /\ h % B = b0 /\ h \div B = b1
  <2>1. PICK b0, b1, b2, b3 \in 0 .. B - 1 : MadeOf(v, a, h, b0, b1, b2, b3)
    BY <1>1, <1>2, HalfwordRead
  <2>2. QED
    BY <1>1, <2>1 DEF MadeOf
<1>4. PICK k \in 0 .. 3 : k = a % 4 /\ a = w + k /\ w \in Int
  BY AddressParts
<1>5. /\ Machine!Aligned(a, 4) = w /\ Machine!Aligned(a, 1) = w + k
      /\ Machine!Aligned(a, 2) = w + (IF k >= 2 THEN 2 ELSE 0) /\ (a % 2 = 1) = (k \in {1, 3})
  BY <1>4, AddressParts
<1>6. ASSUME NEW j \in 0 .. 3 PROVE m.bytes[Wrap(w + j)] = ByteOf(v, j)
  BY Zenon, <1>1, BytesHeld
<1>7. /\ m.bytes[Wrap(w + 0)] = b0 /\ m.bytes[Wrap(w + 1)] = b1
      /\ m.bytes[Wrap(w + 2)] = b2 /\ m.bytes[Wrap(w + 3)] = b3
  <2>1. 0 \in 0 .. 3 /\ 1 \in 0 .. 3 /\ 2 \in 0 .. 3 /\ 3 \in 0 .. 3
    OBVIOUS
  <2>2. QED
    BY Zenon, <1>3, <1>6, <2>1
<1>8. w + 0 = w /\ (w + 2) + 0 = w + 2 /\ (w + 2) + 1 = w + 3 /\ (w + k) + 0 = w + k
  <2>1. w \in Int /\ k \in Int
    BY <1>4
  <2>2. QED
    BY <2>1
<1>9. Machine!Load(m, w, 4) = v
  <2>1. 4 \in 1 .. 4 /\ 1 < 4 /\ 2 < 4 /\ 3 < 4
    OBVIOUS
  <2>2. Machine!Load(m, w, 4) = FromBytes(m.bytes[Wrap(w + 0)], m.bytes[Wrap(w + 1)],
                                           m.bytes[Wrap(w + 2)], m.bytes[Wrap(w + 3)])
    BY Zenon, <2>1, LoadIs
  <2>3. QED
    BY Zenon, <1>3, <1>7, <2>2
<1>10. ASSUME NEW d PROVE Machine!Load(m, d, 2) = FromBytes(m.bytes[Wrap(d + 0)], m.bytes[Wrap(d + 1)], 0, 0)
  <2>1. 2 \in 1 .. 4 /\ 1 < 2 /\ ~(2 < 2) /\ ~(3 < 2)
    OBVIOUS
  <2>2. QED
    BY Zenon, <2>1, LoadIs
<1>11. ASSUME NEW d PROVE Machine!Load(m, d, 1) = FromBytes(m.bytes[Wrap(d + 0)], 0, 0, 0)
  <2>1. 1 \in 1 .. 4 /\ ~(1 < 1) /\ ~(2 < 1) /\ ~(3 < 1)
    OBVIOUS
  <2>2. QED
    BY Zenon, <2>1, LoadIs
<1>12. Machine!Load(m, Machine!Aligned(a, 2), 2) = h
  <2>1. CASE k >= 2
    <3>1. Machine!Aligned(a, 2) = w + 2 /\ h = b2 + B * b3
      BY <1>3, <1>4, <1>5, <2>1
    <3>2. Machine!Load(m, w + 2, 2) = FromBytes(b2, b3, 0, 0)
      BY Zenon, <1>7, <1>8, <1>10
    <3>3. QED
      BY Zenon, <1>1, <3>1, <3>2, ZeroBytes
  <2>2. CASE ~(k >= 2)
    <3>1. Machine!Aligned(a, 2) = w /\ h = b0 + B * b1
      BY <1>3, <1>4, <1>5, <1>8, <2>2
    <3>2. Machine!Load(m, w, 2) = FromBytes(b0, b1, 0, 0)
      BY Zenon, <1>7, <1>8, <1>10
    <3>3. QED
      BY Zenon, <1>1, <3>1, <3>2, ZeroBytes
  <2>3. QED
    BY <2>1, <2>2
<1>13. Machine!Load(m, Machine!Aligned(a, 1), 1) = IF a % 2 = 1 THEN h \div B ELSE h % B
  <2>1. PICK b \in 0 .. B - 1 : b = (IF a % 2 = 1 THEN h \div B ELSE h % B) /\ m.bytes[Wrap(w + k)] = b
    <3>1. CASE k = 0
      <4>1. ~(a % 2 = 1) /\ h % B = b0
        BY <1>3, <1>4, <1>5, <3>1
      <4>2. m.bytes[Wrap(w + k)] = b0
        BY Zenon, <1>7, <3>1
      <4>3. QED
        BY <4>1, <4>2
    <3>2. CASE k = 1
      BY <1>3, <1>4, <1>5, <1>7, <3>2
    <3>3. CASE k = 2
      BY <1>3, <1>4, <1>5, <1>7, <3>3
    <3>4. CASE k = 3
      BY <1>3, <1>4, <1>5, <1>7, <3>4
    <3>5. QED
      BY <3>1, <3>2, <3>3, <3>4
  <2>2. Machine!Load(m, w + k, 1) = FromBytes(b, 0, 0, 0)
    BY Zenon, <1>8, <1>11, <2>1
  <2>3. QED
    BY Zenon, <1>1, <1>5, <2>1, <2>2, ZeroBytes
<1>14. QED
  BY Zenon, <1>1, <1>5, <1>9, <1>12, <1>13

\* A word of RAM replaced by one with bytes of x in n places from j on.
HasBytes(v, old, x, j, n) ==
  \A k \in 0 .. 3 : ByteOf(v, k) = IF j <= k /\ k < j + n THEN ByteOf(x, k - j) ELSE ByteOf(old, k)
LEMMA PutsAlike ==
  ASSUME NEW m, MemOK(m), NEW w \in DataWords, NEW v, NEW x,
         NEW j \in 0 .. 3, NEW n \in 1 .. 4, j + n <= 4, HasBytes(v, m[w], x, j, n)
  PROVE  Machine!Put(BytesOf(m), w + j, n, x) = BytesOf(Replaced(m, w, v))
<1>0. PICK after : after = Replaced(m, w, v)
  OBVIOUS
<1>1. ASSUME NEW c \in DataBytes
      PROVE  (IF c - (w + j) \in 0 .. n - 1 THEN ByteOf(x, c - (w + j)) ELSE BytesOf(m)[c])
               = ByteOf(after[WordOf(c)], c % 4)
  <2>1. PICK k \in 0 .. 3, u \in DataWords : u = WordOf(c) /\ k = c % 4 /\ c = u + k
    BY CellsOf
  <2>2. PICK d \in Int, e \in Int : u = 4 * d /\ w = 4 * e
    <3>1. u \in Int /\ w \in Int /\ u % 4 = 0 /\ w % 4 = 0
      BY AddressAssumption, Cells
    <3>2. QED
      BY <3>1
  <2>3. BytesOf(m)[c] = ByteOf(m[u], k)
    BY <2>1 DEF BytesOf
  <2>4. after[u] = IF u = w THEN v ELSE m[u]
    BY <1>0 DEF MemOK, Replaced
  <2>5. c - (w + j) \in 0 .. n - 1 <=> u = w /\ j <= k /\ k < j + n
    BY <2>1, <2>2
  <2>6. u = w => c - (w + j) = k - j
    BY <2>1, <2>2
  <2>7. QED
    BY <2>1, <2>3, <2>4, <2>5, <2>6 DEF HasBytes
<1>2. Machine!Put(BytesOf(m), w + j, n, x) =
        [c \in DataBytes |-> IF c - (w + j) \in 0 .. n - 1 THEN ByteOf(x, c - (w + j)) ELSE BytesOf(m)[c]]
  BY SameWords DEF Machine!Put
<1>3. BytesOf(after) = [c \in DataBytes |-> ByteOf(after[WordOf(c)], c % 4)]
  BY DEF BytesOf
<1>4. QED
  BY <1>0, <1>1, <1>2, <1>3

\* A word, a halfword and a byte stored into the machine's memory.
LEMMA StoresAlike ==
  ASSUME MemOK(mem), NEW a \in Int, NEW w \in DataWords, w = WordOf(a),
         NEW x \in Word
  PROVE  /\ Machine!Put(BytesOf(mem), Machine!Aligned(a, 4), 4, x) = BytesOf([mem EXCEPT ![w] = x])
         /\ Machine!Put(BytesOf(mem), Machine!Aligned(a, 2), 2, x)
              = BytesOf([mem EXCEPT ![w] = WriteHalf(mem[w], a, x % HalfwordSize)])
         /\ Machine!Put(BytesOf(mem), Machine!Aligned(a, 1), 1, x)
              = BytesOf([mem EXCEPT ![w] = WriteHalf(mem[w], a, MergeByte(ReadHalf(mem[w], a), a, x))])
<1>1. PICK B, v, h : B = ByteSize /\ v = mem[w] /\ h = ReadHalf(mem[w], a)
  OBVIOUS
<1>2. v \in Word /\ h = ReadHalf(v, a)
  BY <1>1 DEF MemOK
<1>3. PICK b0, b1, b2, b3 \in 0 .. B - 1 :
        /\ v = FromBytes(b0, b1, b2, b3)
        /\ ByteOf(v, 0) = b0 /\ ByteOf(v, 1) = b1 /\ ByteOf(v, 2) = b2 /\ ByteOf(v, 3) = b3
        /\ a % 4 >= 2 => h = b2 + B * b3 /\ h % B = b2 /\ h \div B = b3
        /\ ~(a % 4 >= 2) => h = b0 + B * b1 /\ h % B = b0 /\ h \div B = b1
  <2>1. PICK b0, b1, b2, b3 \in 0 .. B - 1 : MadeOf(v, a, h, b0, b1, b2, b3)
    BY <1>1, <1>2, HalfwordRead
  <2>2. QED
    BY <1>1, <2>1 DEF MadeOf
<1>4. PICK k \in 0 .. 3 : k = a % 4 /\ a = w + k /\ w \in Int
  BY AddressParts
<1>5. /\ Machine!Aligned(a, 4) = w /\ Machine!Aligned(a, 1) = w + k /\ w + 0 = w
      /\ Machine!Aligned(a, 2) = w + (IF k >= 2 THEN 2 ELSE 0) /\ (a % 2 = 1) = (k \in {1, 3})
  <2>1. w + 0 = w
    BY <1>4
  <2>2. /\ Machine!Aligned(a, 4) = w /\ Machine!Aligned(a, 1) = w + k
        /\ Machine!Aligned(a, 2) = w + (IF k >= 2 THEN 2 ELSE 0)
    BY <1>4, AddressParts
  <2>3. (a % 2 = 1) = (k \in {1, 3})
    BY <1>4, AddressParts
  <2>4. QED
    BY <2>1, <2>2, <2>3
<1>6. PICK x0, x1, x2, x3 \in 0 .. B - 1 : x = FromBytes(x0, x1, x2, x3)
  BY <1>1, WordHasBytes
<1>7. /\ ByteOf(x, 0) = x0 /\ ByteOf(x, 1) = x1 /\ ByteOf(x, 2) = x2 /\ ByteOf(x, 3) = x3
      /\ x % HalfwordSize = x0 + B * x1 /\ x % B = x0
  BY <1>1, <1>6, BytesMakeWord
<1>8. ASSUME NEW c0 \in 0 .. B - 1, NEW c1 \in 0 .. B - 1, NEW g, g = c0 + B * c1
      PROVE  WriteHalf(v, a, g) = IF k >= 2 THEN FromBytes(b0, b1, c0, c1) ELSE FromBytes(c0, c1, b2, b3)
  <2>1. PICK H : H = HalfwordSize
    OBVIOUS
  <2>2. B \in Nat \ {0} /\ H \in Nat \ {0}
    BY <1>1, <2>1, ByteSizes
  <2>3. PICK lo \in Int, hi \in Int : lo = b0 + B * b1 /\ hi = b2 + B * b3
    BY <2>2
  <2>4. v % H = lo /\ v = lo + H * hi
    <3>1. v % H = lo
      BY <1>1, <1>3, <2>1, <2>3, BytesMakeWord
    <3>2. v = lo + H * hi
      BY <1>1, <1>3, <2>1, <2>3, FromHalves
    <3>3. QED
      BY <3>1, <3>2
  <2>5. FromBytes(b0, b1, c0, c1) = lo + H * g
    BY <1>1, <1>8, <2>1, <2>3, FromHalves
  <2>6. FromBytes(c0, c1, b2, b3) = g + H * hi
    BY <1>1, <1>8, <2>1, <2>3, FromHalves
  <2>7. PICK p \in Int, f \in Int : p = H * hi /\ f = g
    BY <1>8, <2>2
  <2>8. (lo + p) - lo + f = f + p
    BY <2>7
  <2>9. WriteHalf(v, a, g) = IF k >= 2 THEN lo + H * g ELSE v - lo + g
    BY <1>4, <2>1, <2>4 DEF WriteHalf
  <2>10. QED
    BY <2>4, <2>5, <2>6, <2>7, <2>8, <2>9
<1>9. ASSUME NEW y, NEW j \in 0 .. 3, NEW n \in 1 .. 4, j + n <= 4, HasBytes(y, v, x, j, n)
      PROVE  Machine!Put(BytesOf(mem), w + j, n, x) = BytesOf([mem EXCEPT ![w] = y])
  <2>1. HasBytes(y, mem[w], x, j, n)
    BY Zenon, <1>1, <1>9
  <2>2. Machine!Put(BytesOf(mem), w + j, n, x) = BytesOf(Replaced(mem, w, y))
    BY <1>9, <2>1, PutsAlike
  <2>3. QED
    BY <2>2 DEF Replaced
<1>10. Machine!Put(BytesOf(mem), w + 0, 4, x) = BytesOf([mem EXCEPT ![w] = x])
  <2>1. HasBytes(x, v, x, 0, 4)
    BY DEF HasBytes
  <2>2. 0 \in 0 .. 3 /\ 4 \in 1 .. 4 /\ 0 + 4 <= 4
    OBVIOUS
  <2>3. QED
    BY Zenon, <1>9, <2>1, <2>2
<1>11. Machine!Put(BytesOf(mem), Machine!Aligned(a, 2), 2, x)
         = BytesOf([mem EXCEPT ![w] = WriteHalf(v, a, x % HalfwordSize)])
  <2>1. PICK y : y = WriteHalf(v, a, x % HalfwordSize)
    OBVIOUS
  <2>2. y = IF k >= 2 THEN FromBytes(b0, b1, x0, x1) ELSE FromBytes(x0, x1, b2, b3)
    BY Zenon, <1>6, <1>7, <1>8, <2>1
  <2>3. CASE k >= 2
    <3>1. ByteOf(y, 0) = b0 /\ ByteOf(y, 1) = b1 /\ ByteOf(y, 2) = x0 /\ ByteOf(y, 3) = x1
      <4>1. y = FromBytes(b0, b1, x0, x1)
        BY <2>2, <2>3
      <4>2. QED
        BY <1>1, <1>3, <1>6, <4>1, BytesMakeWord
    <3>2. HasBytes(y, v, x, 2, 2)
      BY <1>3, <1>7, <3>1 DEF HasBytes
    <3>3. 2 \in 0 .. 3 /\ 2 \in 1 .. 4 /\ 2 + 2 <= 4
      OBVIOUS
    <3>4. Machine!Put(BytesOf(mem), w + 2, 2, x) = BytesOf([mem EXCEPT ![w] = y])
      BY Zenon, <1>9, <3>2, <3>3
    <3>5. Machine!Aligned(a, 2) = w + 2
      BY <1>5, <2>3
    <3>6. QED
      BY Zenon, <2>1, <3>4, <3>5
  <2>4. CASE ~(k >= 2)
    <3>1. ByteOf(y, 0) = x0 /\ ByteOf(y, 1) = x1 /\ ByteOf(y, 2) = b2 /\ ByteOf(y, 3) = b3
      <4>1. y = FromBytes(x0, x1, b2, b3)
        BY <2>2, <2>4
      <4>2. QED
        BY <1>1, <1>3, <1>6, <4>1, BytesMakeWord
    <3>2. HasBytes(y, v, x, 0, 2)
      BY <1>3, <1>7, <3>1 DEF HasBytes
    <3>3. 0 \in 0 .. 3 /\ 2 \in 1 .. 4 /\ 0 + 2 <= 4
      OBVIOUS
    <3>4. Machine!Put(BytesOf(mem), w + 0, 2, x) = BytesOf([mem EXCEPT ![w] = y])
      BY Zenon, <1>9, <3>2, <3>3
    <3>5. Machine!Aligned(a, 2) = w + 0
      BY <1>5, <2>4
    <3>6. QED
      BY Zenon, <2>1, <3>4, <3>5
  <2>5. QED
    BY <2>3, <2>4
<1>12. ASSUME NEW y, y = WriteHalf(v, a, MergeByte(h, a, x))
       PROVE  HasBytes(y, v, x, k, 1)
  <2>1. PICK lo, hi \in 0 .. B - 1 :
          /\ h = lo + B * hi /\ h % B = lo
          /\ k >= 2 => lo = b2 /\ hi = b3
          /\ ~(k >= 2) => lo = b0 /\ hi = b1
    <3>1. CASE k >= 2
      BY <1>3, <1>4, <3>1
    <3>2. CASE ~(k >= 2)
      BY <1>3, <1>4, <3>2
    <3>3. QED
      BY <3>1, <3>2
  <2>2. B \in Nat \ {0}
    BY <1>1, ByteSizes
  <2>3. MergeByte(h, a, x) = IF k \in {1, 3} THEN lo + B * x0 ELSE x0 + B * hi
    <3>1. (h % B) + B * (x % B) = lo + B * x0
      BY <1>7, <2>1
    <3>2. (h - (h % B)) + (x % B) = x0 + B * hi
      <4>1. PICK p \in Int : p = B * hi
        BY <2>2
      <4>2. (lo + p) - lo + x0 = x0 + p
        BY <4>1
      <4>3. QED
        BY <1>7, <2>1, <4>1, <4>2
    <3>3. QED
      BY <1>1, <1>5, <3>1, <3>2 DEF MergeByte
  <2>4. CASE k = 0
    <3>1. y = FromBytes(x0, b1, b2, b3)
      <4>1. MergeByte(h, a, x) = x0 + B * b1 /\ ~(k >= 2)
        BY <2>1, <2>3, <2>4
      <4>2. QED
        BY Zenon, <1>3, <1>6, <1>8, <1>12, <4>1
    <3>2. ByteOf(y, 0) = x0 /\ ByteOf(y, 1) = b1 /\ ByteOf(y, 2) = b2 /\ ByteOf(y, 3) = b3
      BY <1>1, <1>3, <1>6, <3>1, BytesMakeWord
    <3>3. QED
      BY <1>3, <1>7, <2>4, <3>2 DEF HasBytes
  <2>5. CASE k = 1
    <3>1. y = FromBytes(b0, x0, b2, b3)
      <4>1. MergeByte(h, a, x) = b0 + B * x0 /\ ~(k >= 2)
        BY <2>1, <2>3, <2>5
      <4>2. QED
        BY Zenon, <1>3, <1>6, <1>8, <1>12, <4>1
    <3>2. ByteOf(y, 0) = b0 /\ ByteOf(y, 1) = x0 /\ ByteOf(y, 2) = b2 /\ ByteOf(y, 3) = b3
      BY <1>1, <1>3, <1>6, <3>1, BytesMakeWord
    <3>3. QED
      BY <1>3, <1>7, <2>5, <3>2 DEF HasBytes
  <2>6. CASE k = 2
    <3>1. y = FromBytes(b0, b1, x0, b3)
      <4>1. MergeByte(h, a, x) = x0 + B * b3 /\ k >= 2
        BY <2>1, <2>3, <2>6
      <4>2. QED
        BY Zenon, <1>3, <1>6, <1>8, <1>12, <4>1
    <3>2. ByteOf(y, 0) = b0 /\ ByteOf(y, 1) = b1 /\ ByteOf(y, 2) = x0 /\ ByteOf(y, 3) = b3
      BY <1>1, <1>3, <1>6, <3>1, BytesMakeWord
    <3>3. QED
      BY <1>3, <1>7, <2>6, <3>2 DEF HasBytes
  <2>7. CASE k = 3
    <3>1. y = FromBytes(b0, b1, b2, x0)
      <4>1. MergeByte(h, a, x) = b2 + B * x0 /\ k >= 2
        BY <2>1, <2>3, <2>7
      <4>2. QED
        BY Zenon, <1>3, <1>6, <1>8, <1>12, <4>1
    <3>2. ByteOf(y, 0) = b0 /\ ByteOf(y, 1) = b1 /\ ByteOf(y, 2) = b2 /\ ByteOf(y, 3) = x0
      BY <1>1, <1>3, <1>6, <3>1, BytesMakeWord
    <3>3. QED
      BY <1>3, <1>7, <2>7, <3>2 DEF HasBytes
  <2>8. QED
    BY <2>4, <2>5, <2>6, <2>7
<1>13. Machine!Put(BytesOf(mem), w + k, 1, x)
         = BytesOf([mem EXCEPT ![w] = WriteHalf(v, a, MergeByte(h, a, x))])
  <2>1. 1 \in 1 .. 4 /\ k + 1 <= 4
    OBVIOUS
  <2>2. QED
    BY Zenon, <1>9, <1>12, <2>1
<1>14. QED
  BY Zenon, <1>1, <1>5, <1>10, <1>11, <1>13

\* The sign of a narrow value: the interpreter adds the bits above it, the machine
\* counts down from zero.
LEMMA SignedAlike ==
  ASSUME NEW n \in {ByteSize, HalfwordSize}, NEW x \in 0 .. n - 1
  PROVE  Wrap(Machine!Signed(x, n)) = Wrap(SignExtend(x, n))
<1>1. PICK d \in Nat \ {0} : n = 2 * d
  <2>1. PICK B \in Nat \ {0} : B = ByteSize /\ B % 2 = 0 /\ HalfwordSize = B * B
    <3>1. 0 \in Int
      OBVIOUS
    <3>2. QED
      BY <3>1, BytePlaces
  <2>2. PICK e \in Nat \ {0} : B = 2 * e
    BY <2>1
  <2>3. B * B = 2 * (e * B) /\ e * B \in Nat \ {0}
    BY <2>1, <2>2
  <2>4. QED
    BY <2>1, <2>2, <2>3
<1>2. n \div 2 = d
  BY <1>1
<1>3. PICK M \in Nat \ {0} : M = Modulus
  BY Parity
<1>4. CASE x >= d
  <2>1. Machine!Signed(x, n) = x - n /\ SignExtend(x, n) = x + M - n
    BY <1>1, <1>2, <1>3, <1>4 DEF Machine!Signed, SignExtend
  <2>2. PICK y \in Int : y = x - n
    BY <1>1
  <2>3. Wrap(Wrap(M) + y) = Wrap(M + y)
    BY WrapSum
  <2>4. Wrap(M) = 0
    BY <1>3 DEF Wrap
  <2>5. 0 + y = y /\ M + y = x + M - n
    BY <1>1, <2>2
  <2>6. QED
    BY <2>1, <2>2, <2>3, <2>4, <2>5
<1>5. CASE ~(x >= d)
  <2>1. Machine!Signed(x, n) = x /\ SignExtend(x, n) = x
    BY <1>1, <1>2, <1>5 DEF Machine!Signed, SignExtend
  <2>2. QED
    BY <2>1
<1>6. QED
  BY <1>4, <1>5

\* Extending and reversing.
LEMMA UnaryAlike ==
  ASSUME NEW fn \in UnaryOps, NEW x \in Word
  PROVE  Wrap(Machine!Converted(fn, x)) = Wrap(Unary(fn, x))
<1>1. PICK B, H : B = ByteSize /\ H = HalfwordSize
  OBVIOUS
<1>2. B \in Nat \ {0} /\ H \in Nat \ {0} /\ x \in Int
  BY <1>1, ByteSizes, Parity
<1>3. x % B \in 0 .. B - 1 /\ x % H \in 0 .. H - 1
  BY <1>2
<1>4. PICK f : f = [k \in 0 .. 3 |-> ByteOf(x, 3 - k)]
  OBVIOUS
<1>5. Machine!WithBytes(f) = FromBytes(ByteOf(x, 3), ByteOf(x, 2), ByteOf(x, 1), ByteOf(x, 0))
  <2>1. f[0] = ByteOf(x, 3) /\ f[1] = ByteOf(x, 2) /\ f[2] = ByteOf(x, 1) /\ f[3] = ByteOf(x, 0)
    BY <1>4
  <2>2. QED
    BY <2>1, SameWords DEF Machine!WithBytes
<1>6. PICK g : g = [k \in 0 .. 3 |-> ByteOf(x, IF k % 2 = 0 THEN k + 1 ELSE k - 1)]
  OBVIOUS
<1>7. Machine!WithBytes(g) = FromBytes(ByteOf(x, 1), ByteOf(x, 0), ByteOf(x, 3), ByteOf(x, 2))
  <2>1. g[0] = ByteOf(x, 1) /\ g[1] = ByteOf(x, 0) /\ g[2] = ByteOf(x, 3) /\ g[3] = ByteOf(x, 2)
    BY <1>6
  <2>2. QED
    BY <2>1, SameWords DEF Machine!WithBytes
<1>8. Machine!Swapped(x) = FromBytes(ByteOf(x, 1), ByteOf(x, 0), ByteOf(x, 3), ByteOf(x, 2))
  <2>1. Machine!Swapped(x) = Machine!WithBytes(g)
    BY <1>6, SameWords DEF Machine!Swapped
  <2>2. QED
    BY <1>7, <2>1
<1>9. /\ Machine!Swapped(x) % H = ByteOf(x, 1) + B * ByteOf(x, 0)
      /\ ByteOf(x, 1) + B * ByteOf(x, 0) \in 0 .. H - 1
  <2>1. PICK b0, b1, b2, b3 \in 0 .. B - 1 :
          b0 = ByteOf(x, 0) /\ b1 = ByteOf(x, 1) /\ b2 = ByteOf(x, 2) /\ b3 = ByteOf(x, 3)
    BY <1>1, WordIsItsBytes
  <2>2. Machine!Swapped(x) = FromBytes(b1, b0, b3, b2)
    BY <1>8, <2>1
  <2>3. Machine!Swapped(x) % H = b1 + B * b0 /\ b1 + B * b0 \in 0 .. H - 1
    BY <1>1, <2>2, BytesMakeWord
  <2>4. QED
    BY <2>1, <2>3
<1>10. CASE fn = "sxtb"
  <2>1. Machine!Converted(fn, x) = Machine!Signed(x % B, B)
    BY <1>1, <1>10, SameWords DEF Machine!Converted
  <2>2. Unary(fn, x) = SignExtend(x % B, B)
    BY <1>1, <1>10 DEF Unary
  <2>3. QED
    BY <1>1, <1>3, <2>1, <2>2, SignedAlike
<1>11. CASE fn = "sxth"
  <2>1. Machine!Converted(fn, x) = Machine!Signed(x % H, H)
    BY <1>1, <1>11, SameWords DEF Machine!Converted
  <2>2. Unary(fn, x) = SignExtend(x % H, H)
    BY <1>1, <1>11 DEF Unary
  <2>3. QED
    BY <1>1, <1>3, <2>1, <2>2, SignedAlike
<1>12. CASE fn = "uxtb"
  BY <1>12, SameWords DEF Machine!Converted, Unary
<1>13. CASE fn = "uxth"
  BY <1>13, SameWords DEF Machine!Converted, Unary
<1>14. CASE fn = "rev"
  <2>1. Machine!Converted(fn, x) = Machine!WithBytes(f)
    BY <1>4, <1>14, SameWords DEF Machine!Converted
  <2>2. Unary(fn, x) = FromBytes(ByteOf(x, 3), ByteOf(x, 2), ByteOf(x, 1), ByteOf(x, 0))
    BY <1>14 DEF Unary
  <2>3. QED
    BY <1>5, <2>1, <2>2
<1>15. CASE fn = "rev16"
  <2>1. Machine!Converted(fn, x) = Machine!Swapped(x)
    BY <1>15 DEF Machine!Converted
  <2>2. Unary(fn, x) = FromBytes(ByteOf(x, 1), ByteOf(x, 0), ByteOf(x, 3), ByteOf(x, 2))
    BY <1>15 DEF Unary
  <2>3. QED
    BY <1>8, <2>1, <2>2
<1>16. CASE fn = "revsh"
  <2>1. Machine!Converted(fn, x) = Machine!Signed(Machine!Swapped(x) % H, H)
    BY <1>1, <1>16, SameWords DEF Machine!Converted
  <2>2. Unary(fn, x) = SignExtend(ByteOf(x, 1) + B * ByteOf(x, 0), H)
    BY <1>1, <1>16 DEF Unary
  <2>3. QED
    BY <1>1, <1>9, <2>1, <2>2, SignedAlike
<1>17. QED
  BY <1>10, <1>11, <1>12, <1>13, <1>14, <1>15, <1>16 DEF UnaryOps

\* What the bus made of a narrow load.
LEMMA NarrowAlike ==
  ASSUME MemOK(mem), NEW m, m.bytes = BytesOf(mem), NEW a \in Int,
         NEW w \in DataWords, w = WordOf(a), NEW op \in NarrowLoads,
         NEW x, x = Machine!Load(m, Machine!Aligned(a, Machine!Width(op)), Machine!Width(op))
  PROVE  Wrap(CASE op = "ldrsb" -> Machine!Signed(x, Machine!ByteSize)
                [] op = "ldrsh" -> Machine!Signed(x, Machine!HalfwordSize)
                [] OTHER -> x)
           = Wrap(Narrow(op, ReadHalf(mem[w], a), a))
<1>1. PICK h, b : /\ h = ReadHalf(mem[w], a)
                  /\ b = IF a % 2 = 1 THEN h \div ByteSize ELSE h % ByteSize
  OBVIOUS
<1>2. /\ Machine!Load(m, Machine!Aligned(a, 2), 2) = h
      /\ Machine!Load(m, Machine!Aligned(a, 1), 1) = b
  BY <1>1, LoadsAlike
<1>3. h \in 0 .. HalfwordSize - 1 /\ b \in 0 .. ByteSize - 1
  <2>1. PICK B, v : B = ByteSize /\ v = mem[w]
    OBVIOUS
  <2>2. v \in Word /\ h = ReadHalf(v, a)
    BY <1>1, <2>1 DEF MemOK
  <2>3. h \in 0 .. HalfwordSize - 1
    BY <2>2, ReadHalfType
  <2>4. PICK b0, b1, b2, b3 \in 0 .. B - 1 : MadeOf(v, a, h, b0, b1, b2, b3)
    BY <2>1, <2>2, HalfwordRead
  <2>5. h % ByteSize \in 0 .. B - 1 /\ h \div ByteSize \in 0 .. B - 1
    BY <2>4 DEF MadeOf
  <2>6. QED
    BY <1>1, <2>1, <2>3, <2>5
<1>4. CASE op = "ldrb"
  <2>1. Machine!Width(op) = 1 /\ Narrow(op, h, a) = b
    BY <1>1, <1>4 DEF Machine!Width, Narrow
  <2>2. QED
    BY <1>1, <1>2, <1>4, <2>1
<1>5. CASE op = "ldrsb"
  <2>1. Machine!Width(op) = 1 /\ Narrow(op, h, a) = SignExtend(b, ByteSize)
    BY <1>1, <1>5 DEF Machine!Width, Narrow
  <2>2. x = b /\ Wrap(Machine!Signed(b, ByteSize)) = Wrap(SignExtend(b, ByteSize))
    BY <1>2, <1>3, <2>1, SignedAlike
  <2>3. QED
    BY <1>1, <1>5, <2>1, <2>2, SameWords
<1>6. CASE op = "ldrh"
  <2>1. Machine!Width(op) = 2 /\ Narrow(op, h, a) = h
    BY <1>1, <1>6 DEF Machine!Width, Narrow
  <2>2. QED
    BY <1>1, <1>2, <1>6, <2>1
<1>7. CASE op = "ldrsh"
  <2>1. Machine!Width(op) = 2 /\ Narrow(op, h, a) = SignExtend(h, HalfwordSize)
    BY <1>1, <1>7 DEF Machine!Width, Narrow
  <2>2. x = h /\ Wrap(Machine!Signed(h, HalfwordSize)) = Wrap(SignExtend(h, HalfwordSize))
    BY <1>2, <1>3, <2>1, SignedAlike
  <2>3. QED
    BY <1>1, <1>7, <2>1, <2>2, SameWords
<1>8. QED
  BY <1>4, <1>5, <1>6, <1>7 DEF NarrowLoads

-----------------------------------------------------------------------------
(* Every instruction is the machine's. *)

LEMMA WrapWord == \A x \in Word : Wrap(x) = x
<1>1. PICK M \in Nat \ {0} : M = Modulus
  BY Parity
<1>2. \A x \in 0 .. M - 1 : x % M = x
  BY <1>1
<1>3. QED
  BY <1>1, <1>2 DEF Word, Wrap

LEMMA ViewIs ==
  ASSUME NEW r, NEW f, NEW m, NEW trap
  PROVE  /\ View(Outcome(r, f, m, trap)) = Rec(Low(r), Wrap(r[PC] - 2), f, BytesOf(m))
         /\ View(Writes(r)) = Rec(Low(r), Wrap(r[PC] - 2), cpsr, BytesOf(mem))
         /\ View(Traps(r, trap)) = Rec(Low(r), Wrap(r[PC] - 2), cpsr, BytesOf(mem))
BY DEF View, Outcome, Writes, Traps

\* An instruction that goes on behind itself.
LEMMA SameShows ==
  ASSUME TypeInv, Here \in DOMAIN program
  PROVE  /\ Machine!Same(Before) = Rec(Low(Advanced), Wrap(Advanced[PC] - 2), cpsr, BytesOf(mem))
         /\ View(Writes(Advanced)) = Machine!Same(Before)
         /\ \A trap : View(Traps(Advanced, trap)) = Machine!Same(Before)
<1>1. Before = Rec(Low(Advanced), Here, cpsr, BytesOf(mem)) /\ Wrap(Advanced[PC] - 2) = Wrap(Here + 2)
  BY Ahead
<1>2. Machine!Same(Before) = Rec(Low(Advanced), Wrap(Here + 2), cpsr, BytesOf(mem))
  BY <1>1, MachineRecords
<1>3. QED
  BY <1>1, <1>2, ViewIs

\* One that also writes a register other than the program counter.
LEMMA LowShows ==
  ASSUME TypeInv, Here \in DOMAIN program,
         NEW d \in Regs \ {PC}, NEW x, NEW y, Wrap(x) = Wrap(y)
  PROVE  View(Writes(Set(Advanced, d, x))) = Machine!Def(Before, d, y)
<1>0. PICK r : r = Set(Advanced, d, x)
  OBVIOUS
<1>1. Before = Rec(Low(Advanced), Here, cpsr, BytesOf(mem)) /\ Wrap(Advanced[PC] - 2) = Wrap(Here + 2)
  BY Ahead
<1>2. Advanced \in [Regs -> Word] /\ d # PC
  BY Ahead DEF RegsOK
<1>3. r = [Advanced EXCEPT ![d] = Wrap(y)]
  BY <1>0, <1>2 DEF Set
<1>4. Low(r) = [Low(Advanced) EXCEPT ![d] = Wrap(y)] /\ r[PC] = Advanced[PC]
  <2>1. PICK A, v : A = Advanced /\ v = Wrap(y) /\ A \in [Regs -> Word] /\ r = [A EXCEPT ![d] = v]
    BY <1>2, <1>3
  <2>2. r[PC] = A[PC] /\ \A q \in Regs \ {PC} : r[q] = IF q = d THEN v ELSE A[q]
    BY <1>2, <2>1, RegsAreNumbers
  <2>3. Low(r) = [q \in Regs \ {PC} |-> r[q]] /\ Low(A) = [q \in Regs \ {PC} |-> A[q]]
    BY DEF Low
  <2>4. Low(r) = [Low(A) EXCEPT ![d] = v]
    BY <2>2, <2>3
  <2>5. QED
    BY <2>1, <2>2, <2>4
<1>5. Machine!Def(Before, d, y) = Rec(Replaced(Low(Advanced), d, Wrap(y)), Wrap(Here + 2), cpsr, BytesOf(mem))
  BY <1>1, <1>2, MachineRecords
<1>6. View(Writes(r)) = Rec(Low(r), Wrap(r[PC] - 2), cpsr, BytesOf(mem))
  BY ViewIs
<1>7. QED
  BY <1>0, <1>1, <1>4, <1>5, <1>6 DEF Replaced

\* Where a write of the program counter goes: the register runs 2 ahead.
LEMMA TargetIs ==
  ASSUME NEW y \in Int
  PROVE  /\ Wrap(Even(Wrap(y + 2)) - 2) = Even(Wrap(y))
         /\ Wrap(Even(Wrap(Wrap(y + 2))) - 2) = Even(Wrap(y))
         /\ Wrap(Even(Wrap(Even(y) + 2)) - 2) = Even(Wrap(y))
         /\ Wrap(Even(Wrap(Even(Wrap(y)) + 2)) - 2) = Even(Wrap(y))
<1>1. PICK w \in Int, e \in Int : w = Wrap(y) /\ e = Even(y)
  BY Parity, WrapEven
<1>2. Wrap(w) = w /\ Wrap(Wrap(y + 2)) = Wrap(y + 2)
  BY <1>1, Parity, WrapWord
<1>3. Even(e) = e
  BY <1>1, WrapEven DEF Even
<1>4. PICK v \in Int : v = Even(w)
  BY <1>1, WrapEven
<1>5. Even(v) = v /\ v \in Word
  <2>1. v % 2 = 0 /\ v \in Word
    <3>1. w \in Word
      BY <1>1, Parity
    <3>2. QED
      BY <1>4, <3>1, Parity
  <2>2. QED
    BY <2>1 DEF Even
<1>6. Wrap(Even(Wrap(y + 2)) - 2) = Even(Wrap(y))
  BY PCBehind
<1>7. Wrap(Even(Wrap(e + 2)) - 2) = Even(Wrap(y))
  <2>1. Wrap(Even(Wrap(e + 2)) - 2) = Even(Wrap(e))
    BY <1>1, PCBehind
  <2>2. Even(Wrap(e)) = Wrap(Even(e)) /\ Even(Wrap(y)) = Wrap(Even(y))
    BY <1>1, WrapEven
  <2>3. QED
    BY <1>1, <1>3, <2>1, <2>2
<1>8. Wrap(Even(Wrap(v + 2)) - 2) = Even(Wrap(y))
  <2>1. Wrap(Even(Wrap(v + 2)) - 2) = Even(Wrap(v))
    BY <1>4, PCBehind
  <2>2. Wrap(v) = v
    BY <1>5, WrapWord
  <2>3. QED
    BY <1>1, <1>4, <1>5, <2>1, <2>2
<1>9. QED
  BY <1>1, <1>2, <1>4, <1>6, <1>7, <1>8

\* An instruction that branches.
LEMMA GotoShows ==
  ASSUME TypeInv, Here \in DOMAIN program,
         NEW y \in Int, NEW x, x \in {y + 2, Wrap(y + 2), Even(y) + 2, Even(Wrap(y)) + 2}
  PROVE  /\ View(Writes(Set(Advanced, PC, x))) = Machine!Goto(Before, y)
         /\ View(Writes(Set(Advanced, PC, x))) = Machine!Def(Before, PC, y)
<1>0. PICK r : r = Set(Advanced, PC, x)
  OBVIOUS
<1>1. Before = Rec(Low(Advanced), Here, cpsr, BytesOf(mem))
  BY Ahead
<1>2. Advanced \in [Regs -> Word] /\ PC \in Regs
  BY Ahead, RegsAreNumbers DEF RegsOK
<1>3. r = [Advanced EXCEPT ![PC] = Even(Wrap(x))]
  BY <1>0 DEF Set
<1>4. Low(r) = Low(Advanced) /\ r[PC] = Even(Wrap(x))
  BY <1>2, <1>3 DEF Low
<1>5. Wrap(Even(Wrap(x)) - 2) = Even(Wrap(y))
  BY TargetIs
<1>6. Machine!Goto(Before, y) = Rec(Low(Advanced), Even(Wrap(y)), cpsr, BytesOf(mem))
  BY <1>1, MachineRecords
<1>7. Machine!Def(Before, PC, y) = Rec(Low(Advanced), Even(Wrap(y)), cpsr, BytesOf(mem))
  BY <1>1, MachineRecords
<1>8. View(Writes(r)) = Rec(Low(r), Wrap(r[PC] - 2), cpsr, BytesOf(mem))
  BY ViewIs
<1>9. QED
  BY <1>0, <1>4, <1>5, <1>6, <1>7, <1>8

\* The address of the next instruction, as a link.
LEMMA LinkIs ==
  ASSUME TypeInv, Here \in DOMAIN program
  PROVE  /\ ReturnLink(Advanced) = Wrap(Here + 2) + 1
         /\ Wrap(ReturnLink(Advanced)) = Wrap(Here + 2) + 1
<1>1. PICK w \in Int : w = Wrap(Here + 2) /\ w = Wrap(Advanced[PC] - 2) /\ w \in Word /\ w % 2 = 0
  <2>1. Here + 2 \in Int
    BY Ahead
  <2>2. Wrap(Here + 2) \in Word /\ Wrap(Here + 2) \in Int
    BY <2>1, Parity
  <2>3. QED
    BY <2>2, Ahead
<1>2. ReturnLink(Advanced) = w + 1
  BY <1>1 DEF ReturnLink, Even
<1>3. w + 1 \in Word
  <2>1. PICK M \in Int : M = Modulus /\ M % 2 = 0
    BY Parity
  <2>2. w \in 0 .. M - 1
    BY <1>1, <2>1 DEF Word
  <2>3. w + 1 \in 0 .. M - 1
    BY <1>1, <2>1, <2>2
  <2>4. QED
    BY <2>1, <2>3 DEF Word
<1>4. QED
  BY <1>1, <1>2, <1>3, WrapWord

\* A call.
LEMMA CallShows ==
  ASSUME TypeInv, Here \in DOMAIN program,
         NEW y \in Int, NEW x, x \in {y + 2, Wrap(y + 2)}
  PROVE  View(Writes(Set(Set(Advanced, LR, ReturnLink(Advanced)), PC, x))) = Machine!Call(Before, y)
<1>0. PICK r : r = Set(Set(Advanced, LR, ReturnLink(Advanced)), PC, x)
  OBVIOUS
<1>1. Before = Rec(Low(Advanced), Here, cpsr, BytesOf(mem))
  BY Ahead
<1>2. Advanced \in [Regs -> Word] /\ PC \in Regs /\ LR \in Regs /\ LR # PC
  BY Ahead, RegsAreNumbers DEF RegsOK
<1>3. PICK l : l = Wrap(Here + 2) + 1 /\ Wrap(ReturnLink(Advanced)) = l
  BY LinkIs
<1>4. r = [[Advanced EXCEPT ![LR] = l] EXCEPT ![PC] = Even(Wrap(x))]
  BY <1>0, <1>2, <1>3 DEF Set
<1>5. Low(r) = [Low(Advanced) EXCEPT ![LR] = l] /\ r[PC] = Even(Wrap(x))
  BY <1>2, <1>4 DEF Low
<1>6. Wrap(Even(Wrap(x)) - 2) = Even(Wrap(y))
  BY TargetIs
<1>7. Machine!Call(Before, y) = Rec(Replaced(Low(Advanced), LR, l), Even(Wrap(y)), cpsr, BytesOf(mem))
  BY <1>1, <1>3, MachineRecords
<1>8. View(Writes(r)) = Rec(Low(r), Wrap(r[PC] - 2), cpsr, BytesOf(mem))
  BY ViewIs
<1>9. QED
  BY <1>0, <1>5, <1>6, <1>7, <1>8 DEF Replaced

\* The machine's effects by the name of the instruction.
LEMMA EffectsByName ==
  ASSUME NEW m, NEW i, NEW size, size = 4 * Cardinality(i.list)
  PROVE  /\ i.op = "alu" => Machine!Effects(m, i) = {Machine!Computed(m, i)}
         /\ i.op = "unary" =>
              Machine!Effects(m, i) = {Machine!Def(m, i.rd, Machine!Converted(i.fn, Machine!R(m, i.rm)))}
         /\ i.op = "mov" => Machine!Effects(m, i) = {Machine!Def(m, i.rd, Machine!R(m, i.rm))}
         /\ i.op = "addhigh" =>
              Machine!Effects(m, i) = {Machine!Def(m, i.rd, Machine!R(m, i.rd) + Machine!R(m, i.rm))}
         /\ i.op = "address" =>
              Machine!Effects(m, i) =
                {Machine!Def(m, i.rd, Machine!Aligned(Machine!R(m, i.rn), IF i.rn = PC THEN 4 ELSE 1) + i.imm)}
         /\ i.op = "addsp" => Machine!Effects(m, i) = {Machine!Def(m, SP, m.regs[SP] + i.imm)}
         /\ i.op \in {"ldr"} \cup NarrowLoads => Machine!Effects(m, i) = {Machine!Loading(m, i)}
         /\ i.op \in {"str"} \cup NarrowStores => Machine!Effects(m, i) = {Machine!Storing(m, i)}
         /\ i.op = "ldm" =>
              Machine!Effects(m, i) = {Machine!LoadingBlock(m, i.list, i.rn, m.regs[i.rn] + size)}
         /\ i.op = "pop" =>
              Machine!Effects(m, i) = {Machine!LoadingBlock(m, i.list, SP, m.regs[SP] + size)}
         /\ i.op = "stm" =>
              Machine!Effects(m, i) =
                {Machine!StoringBlock(m, i.list, i.rn, m.regs[i.rn], m.regs[i.rn] + size)}
         /\ i.op = "push" =>
              Machine!Effects(m, i) =
                {Machine!StoringBlock(m, i.list, SP, m.regs[SP] - size, m.regs[SP] - size)}
         /\ i.op = "branch" =>
              Machine!Effects(m, i) = {IF Holds(i.cond, m.flags) THEN Machine!Goto(m, Machine!R(m, PC) + i.imm)
                                       ELSE Machine!Same(m)}
         /\ i.op = "jump" => Machine!Effects(m, i) = {Machine!Goto(m, Machine!R(m, PC) + i.imm)}
         /\ i.op = "bl1" => Machine!Effects(m, i) = {Machine!Def(m, LR, Machine!R(m, PC) + i.imm)}
         /\ i.op = "bl2" => Machine!Effects(m, i) = {Machine!Call(m, m.regs[LR] + i.imm)}
         /\ i.op = "blx1" =>
              Machine!Effects(m, i) = {Machine!Call(m, Machine!Aligned(Machine!Wrap(m.regs[LR] + i.imm), 4))}
         /\ i.op = "blx" =>
              Machine!Effects(m, i) = {IF Machine!R(m, i.rm) % 2 = 1 THEN Machine!Call(m, Machine!R(m, i.rm))
                                       ELSE Machine!Same(m)}
         /\ i.op = "bx" =>
              Machine!Effects(m, i) = IF Machine!R(m, i.rm) % 2 = 1 THEN {Machine!Goto(m, Machine!R(m, i.rm))}
                                      ELSE {Machine!Same(m), Machine!Goto(m, m.regs[LR])}
         /\ i.op = "swi_flags" => Machine!Effects(m, i) = {Machine!Def(m, 0, Machine!FlagBits(m.flags))}
         /\ i.op \in {"nop", "bkpt", "swi", "undefined"} => Machine!Effects(m, i) = {Machine!Same(m)}
<1>1. size = 4 * Machine!Cardinality(i.list)
  BY Zenon, SameWords
<1>2. QED
  BY <1>1, SameWords DEF Machine!Effects, NarrowLoads, NarrowStores

LEMMA AluAlike ==
  ASSUME TypeInv, Here \in DOMAIN program, NEW i, Decoded(i), i.op = "alu"
  PROVE  View(AluStep(i, Advanced)) = Machine!Computed(Before, i)
<1>1. PICK out : out = Alu(i.fn, Advanced[i.rn], AluOperand(i, Advanced), cpsr)
  OBVIOUS
<1>2. i.rn \in Regs /\ (i.fn \notin CompareOps => i.rd \in Regs \ {PC})
  BY RegsAreNumbers DEF Decoded
<1>3. out = Machine!Alu(i.fn, Machine!R(Before, i.rn), Machine!ShiftOperand(Before, i), Before.flags)
  <2>1. /\ Machine!R(Before, i.rn) = Advanced[i.rn]
        /\ Machine!Operand2(Before, i) = Operand(i, Advanced) /\ Before.flags = cpsr
    BY <1>2, ReadsAlike
  <2>2. Machine!ShiftOperand(Before, i) = AluOperand(i, Advanced)
    <3>1. Machine!Registers = Regs
      BY SameWords
    <3>2. PICK n : n = Operand(i, Advanced) /\ n = Machine!Operand2(Before, i)
      BY <2>1
    <3>3. CASE i.rm \in Regs
      BY <3>1, <3>2, <3>3 DEF Machine!ShiftOperand, AluOperand
    <3>4. CASE i.rm \notin Regs
      <4>1. i.fn # "ror" /\ n = i.imm
        BY <3>2, <3>4, RegsAreNumbers DEF Decoded, Operand
      <4>2. QED
        BY <3>1, <3>2, <3>4, <4>1 DEF Machine!ShiftOperand, AluOperand, ImmediateAmount, ShiftOps
    <3>5. QED
      BY <3>3, <3>4
  <2>3. QED
    BY Zenon, <1>1, <2>1, <2>2, SameAlu
<1>4. PICK r : r = IF i.fn \in CompareOps THEN Advanced ELSE Set(Advanced, i.rd, out.r)
  OBVIOUS
<1>5. PICK a, b : a = Low(r) /\ b = Wrap(r[PC] - 2)
  OBVIOUS
<1>6. (IF i.fn \in CompareOps THEN Machine!Same(Before) ELSE Machine!Def(Before, i.rd, out.r))
        = Rec(a, b, cpsr, BytesOf(mem))
  <2>1. View(Writes(r)) = Rec(a, b, cpsr, BytesOf(mem))
    BY <1>5, ViewIs
  <2>2. CASE i.fn \in CompareOps
    BY <1>4, <2>1, <2>2, SameShows
  <2>3. CASE i.fn \notin CompareOps
    BY <1>2, <1>4, <2>1, <2>3, LowShows
  <2>4. QED
    BY <2>2, <2>3
<1>7. Machine!Computed(Before, i) = Rec(a, b, out.f, BytesOf(mem))
  <2>1. PICK g : g = Rec(a, b, cpsr, BytesOf(mem))
    OBVIOUS
  <2>2. g = IF i.fn \in Machine!CompareOps THEN Machine!Same(Before) ELSE Machine!Def(Before, i.rd, out.r)
    BY <1>6, <2>1, SameWords
  <2>3. Machine!Computed(Before, i) = [g EXCEPT !.flags = out.f]
    BY <1>3, <2>2 DEF Machine!Computed
  <2>4. QED
    BY <2>1, <2>3 DEF Rec
<1>8. View(AluStep(i, Advanced)) = Rec(a, b, out.f, BytesOf(mem))
  <2>1. AluStep(i, Advanced) = Outcome(r, out.f, mem, "no_trap")
    BY <1>1, <1>4 DEF AluStep
  <2>2. QED
    BY <1>5, <2>1, ViewIs
<1>9. QED
  BY <1>7, <1>8

\* The instructions on registers only.
LEMMA RegisterOpsAlike ==
  ASSUME TypeInv, Here \in DOMAIN program, NEW i, Decoded(i)
  PROVE  /\ i.op = "unary" =>
              View(UnaryStep(i, Advanced)) = Machine!Def(Before, i.rd, Machine!Converted(i.fn, Machine!R(Before, i.rm)))
         /\ i.op = "mov" => View(MovStep(i, Advanced)) = Machine!Def(Before, i.rd, Machine!R(Before, i.rm))
         /\ i.op = "addhigh" /\ ~AddHighStep(i, Advanced).fault =>
              View(AddHighStep(i, Advanced))
                = Machine!Def(Before, i.rd, Machine!R(Before, i.rd) + Machine!R(Before, i.rm))
         /\ i.op = "address" =>
              View(AddressStep(i, Advanced))
                = Machine!Def(Before, i.rd,
                    Machine!Aligned(Machine!R(Before, i.rn), IF i.rn = PC THEN 4 ELSE 1) + i.imm)
         /\ i.op = "addsp" =>
              View(AddSPStep(i, Advanced)) = Machine!Def(Before, SP, Before.regs[SP] + i.imm)
         /\ i.op = "swi_flags" =>
              View(SwiFlagsStep(Advanced)) = Machine!Def(Before, 0, Machine!FlagBits(Before.flags))
<1>1. RegsOK(Advanced)
  BY Ahead
<1>2. \A q \in Regs : Advanced[q] \in Word /\ Advanced[q] \in Int
  BY <1>1, ReadsType
<1>3. LowRegs \subseteq Regs \ {PC} /\ SP \in Regs \ {PC} /\ LR \in Regs \ {PC} /\ PC \in Regs
  BY RegsAreNumbers DEF Regs
<1>4. ASSUME i.op = "unary"
      PROVE  View(UnaryStep(i, Advanced)) = Machine!Def(Before, i.rd, Machine!Converted(i.fn, Machine!R(Before, i.rm)))
  <2>1. i.fn \in UnaryOps /\ i.rd \in Regs \ {PC} /\ i.rm \in Regs
    BY <1>3, <1>4 DEF Decoded
  <2>2. PICK x, y : x = Unary(i.fn, Advanced[i.rm]) /\ y = Machine!Converted(i.fn, Advanced[i.rm])
    OBVIOUS
  <2>3. Wrap(x) = Wrap(y)
    BY <1>2, <2>1, <2>2, UnaryAlike
  <2>4. View(Writes(Set(Advanced, i.rd, x))) = Machine!Def(Before, i.rd, y)
    BY <2>1, <2>3, LowShows
  <2>5. Machine!R(Before, i.rm) = Advanced[i.rm]
    BY <2>1, ReadsAlike
  <2>6. QED
    BY <2>2, <2>4, <2>5 DEF UnaryStep
<1>5. ASSUME i.op = "mov"
      PROVE  View(MovStep(i, Advanced)) = Machine!Def(Before, i.rd, Machine!R(Before, i.rm))
  <2>1. i.rd \in Regs /\ i.rm \in Regs
    BY <1>5 DEF Decoded
  <2>2. PICK y \in Int : y = Advanced[i.rm] /\ y = Machine!R(Before, i.rm)
    BY <1>2, <2>1, ReadsAlike
  <2>3. CASE i.rd = PC
    <3>1. PICK x : x = Even(y) + 2
      OBVIOUS
    <3>2. View(Writes(Set(Advanced, PC, x))) = Machine!Def(Before, PC, y)
      BY <3>1, GotoShows
    <3>3. MovStep(i, Advanced) = Writes(Set(Advanced, PC, x))
      BY <2>2, <2>3, <3>1 DEF MovStep
    <3>4. QED
      BY <2>2, <2>3, <3>2, <3>3
  <2>4. CASE i.rd # PC
    <3>1. MovStep(i, Advanced) = Writes(Set(Advanced, i.rd, y))
      BY <2>2, <2>4 DEF MovStep
    <3>2. View(Writes(Set(Advanced, i.rd, y))) = Machine!Def(Before, i.rd, y)
      BY <2>1, <2>4, LowShows
    <3>3. QED
      BY <2>2, <3>1, <3>2
  <2>5. QED
    BY <2>3, <2>4
<1>6. ASSUME i.op = "addhigh", ~AddHighStep(i, Advanced).fault
      PROVE  View(AddHighStep(i, Advanced))
               = Machine!Def(Before, i.rd, Machine!R(Before, i.rd) + Machine!R(Before, i.rm))
  <2>1. i.rd \in Regs /\ i.rm \in Regs
    BY <1>6 DEF Decoded
  <2>2. PICK y \in Int : y = Advanced[i.rd] + Advanced[i.rm] /\ y = Machine!R(Before, i.rd) + Machine!R(Before, i.rm)
    BY <1>2, <2>1, ReadsAlike
  <2>3. PICK s : s = Wrap(y)
    OBVIOUS
  <2>4. ~(i.rd = PC /\ s % 2 = 0)
    BY <1>6, <2>2, <2>3 DEF AddHighStep, Faults, Outcome
  <2>5. CASE i.rd = PC
    <3>1. PICK x : x = Even(s) + 2
      OBVIOUS
    <3>2. View(Writes(Set(Advanced, PC, x))) = Machine!Def(Before, PC, y)
      BY <2>3, <3>1, GotoShows
    <3>3. AddHighStep(i, Advanced) = Writes(Set(Advanced, PC, x))
      BY <2>2, <2>3, <2>4, <2>5, <3>1 DEF AddHighStep
    <3>4. QED
      BY <2>2, <2>5, <3>2, <3>3
  <2>6. CASE i.rd # PC
    <3>1. AddHighStep(i, Advanced) = Writes(Set(Advanced, i.rd, s))
      BY <2>2, <2>3, <2>6 DEF AddHighStep
    <3>2. Wrap(s) = Wrap(y)
      BY <2>3, Parity, WrapWord
    <3>3. View(Writes(Set(Advanced, i.rd, s))) = Machine!Def(Before, i.rd, y)
      BY <2>1, <2>6, <3>2, LowShows
    <3>4. QED
      BY <2>2, <3>1, <3>3
  <2>7. QED
    BY <2>5, <2>6
<1>7. ASSUME i.op = "address"
      PROVE  View(AddressStep(i, Advanced))
               = Machine!Def(Before, i.rd,
                   Machine!Aligned(Machine!R(Before, i.rn), IF i.rn = PC THEN 4 ELSE 1) + i.imm)
  <2>1. i.rd \in Regs \ {PC} /\ i.rn \in {SP, PC} /\ i.rn \in Regs
    BY <1>3, <1>7 DEF Decoded
  <2>2. PICK a \in Int : a = Advanced[i.rn] /\ a = Machine!R(Before, i.rn)
    BY <1>2, <2>1, ReadsAlike
  <2>3. Machine!Aligned(a, 4) = WordOf(a) /\ Machine!Aligned(a, 1) = a
    BY AddressParts
  <2>4. PICK x : x = (IF i.rn = PC THEN WordOf(a) ELSE a) + i.imm
    OBVIOUS
  <2>5. x = Machine!Aligned(a, IF i.rn = PC THEN 4 ELSE 1) + i.imm
    BY <2>3, <2>4
  <2>6. AddressStep(i, Advanced) = Writes(Set(Advanced, i.rd, x))
    BY <2>1, <2>2, <2>4, RegsAreNumbers DEF AddressStep
  <2>7. View(Writes(Set(Advanced, i.rd, x))) = Machine!Def(Before, i.rd, x)
    BY <2>1, LowShows
  <2>8. QED
    BY <2>2, <2>5, <2>6, <2>7
<1>8. ASSUME i.op = "addsp"
      PROVE  View(AddSPStep(i, Advanced)) = Machine!Def(Before, SP, Before.regs[SP] + i.imm)
  <2>1. Before.regs[SP] = Advanced[SP]
    BY <1>3, ReadsAlike
  <2>2. View(Writes(Set(Advanced, SP, Advanced[SP] + i.imm))) = Machine!Def(Before, SP, Advanced[SP] + i.imm)
    BY <1>3, LowShows
  <2>3. QED
    BY <2>1, <2>2 DEF AddSPStep
<1>9. ASSUME i.op = "swi_flags"
      PROVE  View(SwiFlagsStep(Advanced)) = Machine!Def(Before, 0, Machine!FlagBits(Before.flags))
  <2>1. 0 \in Regs \ {PC}
    BY <1>3, <1>9 DEF Decoded
  <2>2. Machine!FlagBits(Before.flags) = FlagsWord(cpsr)
    <3>1. Before.flags = cpsr
      BY ReadsAlike
    <3>2. QED
      BY <3>1, SameWords DEF Machine!FlagBits, FlagsWord
  <2>3. View(Writes(Set(Advanced, 0, FlagsWord(cpsr)))) = Machine!Def(Before, 0, FlagsWord(cpsr))
    BY <2>1, LowShows
  <2>4. QED
    BY <2>2, <2>3 DEF SwiFlagsStep
<1>10. QED
  BY <1>4, <1>5, <1>6, <1>7, <1>8, <1>9

\* Branches, calls and returns.
LEMMA BranchesAlike ==
  ASSUME TypeInv, Here \in DOMAIN program, NEW i, Decoded(i), NEW h
  PROVE  /\ i.op = "branch" =>
              View(BranchStep(i, Advanced)) =
                IF Holds(i.cond, Before.flags) THEN Machine!Goto(Before, Machine!R(Before, PC) + i.imm)
                ELSE Machine!Same(Before)
         /\ i.op = "jump" => View(JumpStep(i, Advanced)) = Machine!Goto(Before, Machine!R(Before, PC) + i.imm)
         /\ i.op = "bl1" => View(Bl1Step(i, Advanced)) = Machine!Def(Before, LR, Machine!R(Before, PC) + i.imm)
         /\ i.op = "bl2" => View(Bl2Step(i, Advanced)) = Machine!Call(Before, Before.regs[LR] + i.imm)
         /\ i.op = "blx1" =>
              View(Blx1Step(i, Advanced))
                = Machine!Call(Before, Machine!Aligned(Machine!Wrap(Before.regs[LR] + i.imm), 4))
         /\ i.op = "blx" =>
              View(BlxStep(i, Advanced)) =
                IF Machine!R(Before, i.rm) % 2 = 1 THEN Machine!Call(Before, Machine!R(Before, i.rm))
                ELSE Machine!Same(Before)
         /\ i.op = "bx" =>
              View(BxStep(i, Advanced, h)) \in
                IF Machine!R(Before, i.rm) % 2 = 1 THEN {Machine!Goto(Before, Machine!R(Before, i.rm))}
                ELSE {Machine!Same(Before), Machine!Goto(Before, Before.regs[LR])}
<1>1. RegsOK(Advanced) /\ Before.flags = cpsr
  BY Ahead, ReadsAlike
<1>2. \A q \in Regs : Advanced[q] \in Word /\ Advanced[q] \in Int
  BY <1>1, ReadsType
<1>3. SP \in Regs \ {PC} /\ LR \in Regs \ {PC} /\ PC \in Regs
  BY RegsAreNumbers DEF Regs
<1>4. PICK p \in Int : p = Advanced[PC] /\ p = Machine!R(Before, PC)
  BY <1>2, <1>3, ReadsAlike
<1>5. PICK l \in Int : l = Advanced[LR] /\ l = Before.regs[LR]
  BY <1>2, <1>3, ReadsAlike
<1>6. i.op \in {"branch", "jump", "bl1", "bl2", "blx1"} => i.imm \in Int
  BY DEF Decoded
<1>7. ASSUME i.op \in {"branch", "jump"}
      PROVE  View(Writes(Set(Advanced, PC, Advanced[PC] + i.imm + 2))) = Machine!Goto(Before, Machine!R(Before, PC) + i.imm)
  <2>1. PICK y \in Int : y = p + i.imm
    BY <1>6, <1>7
  <2>2. View(Writes(Set(Advanced, PC, y + 2))) = Machine!Goto(Before, y)
    BY GotoShows
  <2>3. QED
    BY <1>4, <2>1, <2>2
<1>8. ASSUME i.op = "branch"
      PROVE  View(BranchStep(i, Advanced)) =
               IF Holds(i.cond, Before.flags) THEN Machine!Goto(Before, Machine!R(Before, PC) + i.imm)
               ELSE Machine!Same(Before)
  BY <1>1, <1>7, <1>8, SameShows DEF BranchStep
<1>9. ASSUME i.op = "jump"
      PROVE  View(JumpStep(i, Advanced)) = Machine!Goto(Before, Machine!R(Before, PC) + i.imm)
  BY <1>7, <1>9 DEF JumpStep
<1>10. ASSUME i.op = "bl1"
       PROVE  View(Bl1Step(i, Advanced)) = Machine!Def(Before, LR, Machine!R(Before, PC) + i.imm)
  <2>1. View(Writes(Set(Advanced, LR, p + i.imm))) = Machine!Def(Before, LR, p + i.imm)
    BY <1>3, LowShows
  <2>2. QED
    BY <1>4, <2>1 DEF Bl1Step
<1>11. ASSUME i.op = "bl2"
       PROVE  View(Bl2Step(i, Advanced)) = Machine!Call(Before, Before.regs[LR] + i.imm)
  <2>1. PICK y \in Int : y = l + i.imm
    BY <1>6, <1>11
  <2>2. View(Writes(Set(Set(Advanced, LR, ReturnLink(Advanced)), PC, y + 2))) = Machine!Call(Before, y)
    BY CallShows
  <2>3. QED
    BY <1>5, <2>1, <2>2 DEF Bl2Step
<1>12. ASSUME i.op \in {"blx", "bx"}
       PROVE  /\ i.rm \in Regs /\ Advanced[i.rm] \in Int /\ Machine!R(Before, i.rm) = Advanced[i.rm]
              /\ (Wrap(Advanced[i.rm] + 2) % 2 = 1) = (Advanced[i.rm] % 2 = 1)
  <2>1. i.rm \in Regs
    BY <1>12 DEF Decoded
  <2>2. PICK y \in Int : y = Advanced[i.rm] /\ y = Machine!R(Before, i.rm)
    BY <1>2, <2>1, ReadsAlike
  <2>3. PICK w \in Int : w = Wrap(y + 2)
    <3>1. PICK z \in Int : z = y + 2
      OBVIOUS
    <3>2. Wrap(z) \in Word /\ Wrap(z) \in Int
      BY Parity
    <3>3. QED
      BY <3>1, <3>2
  <2>4. w % 2 = y % 2
    <3>1. PICK H \in Nat \ {0} : Modulus = 2 * H
      BY WordSize DEF Modulus
    <3>2. PICK M \in Nat \ {0} : M = Modulus /\ M = 2 * H
      BY <3>1
    <3>3. PICK z \in Int : z = y + 2
      OBVIOUS
    <3>4. z \div M \in Int /\ z % M \in 0 .. M - 1 /\ z = M * (z \div M) + (z % M)
      BY <3>2, DivExists
    <3>5. PICK g \in Int : M * (z \div M) = 2 * g
      BY <3>2, <3>4
    <3>6. w = z % M
      BY <2>3, <3>2, <3>3 DEF Wrap
    <3>7. z = 2 * g + w
      BY <3>4, <3>5, <3>6
    <3>8. QED
      BY <3>3, <3>7
  <2>5. QED
    BY <2>1, <2>2, <2>3, <2>4
<1>13. ASSUME i.op = "blx"
       PROVE  View(BlxStep(i, Advanced)) =
                IF Machine!R(Before, i.rm) % 2 = 1 THEN Machine!Call(Before, Machine!R(Before, i.rm))
                ELSE Machine!Same(Before)
  <2>1. PICK y \in Int : y = Advanced[i.rm] /\ y = Machine!R(Before, i.rm) /\ (Wrap(y + 2) % 2 = 1) = (y % 2 = 1)
    BY <1>12, <1>13
  <2>2. View(Writes(Set(Set(Advanced, LR, ReturnLink(Advanced)), PC, Wrap(y + 2)))) = Machine!Call(Before, y)
    BY CallShows
  <2>3. View(Traps(Advanced, "blx_leave_thumb")) = Machine!Same(Before)
    BY SameShows
  <2>4. QED
    BY <2>1, <2>2, <2>3 DEF BlxStep
<1>14. ASSUME i.op = "bx"
       PROVE  View(BxStep(i, Advanced, h)) \in
                IF Machine!R(Before, i.rm) % 2 = 1 THEN {Machine!Goto(Before, Machine!R(Before, i.rm))}
                ELSE {Machine!Same(Before), Machine!Goto(Before, Before.regs[LR])}
  <2>1. PICK y \in Int : y = Advanced[i.rm] /\ y = Machine!R(Before, i.rm) /\ (Wrap(y + 2) % 2 = 1) = (y % 2 = 1)
    BY <1>12, <1>14
  <2>2. View(Writes(Set(Advanced, PC, Wrap(y + 2)))) = Machine!Goto(Before, y)
    BY GotoShows
  <2>3. View(Traps(Advanced, "bx_leave_thumb")) = Machine!Same(Before)
    BY SameShows
  <2>4. View(Writes(Set(Advanced, PC, l + 2))) = Machine!Goto(Before, l)
    BY GotoShows
  <2>5. QED
    BY <1>5, <2>1, <2>2, <2>3, <2>4 DEF BxStep
<1>15. ASSUME i.op = "blx1"
       PROVE  View(Blx1Step(i, Advanced))
                = Machine!Call(Before, Machine!Aligned(Machine!Wrap(Before.regs[LR] + i.imm), 4))
  <2>1. PICK z \in Int : z = l + i.imm
    BY <1>6, <1>15
  <2>2. PICK x \in Int : x = Wrap(z) /\ x = Machine!Wrap(z)
    <3>1. Wrap(z) \in Int
      BY Parity
    <3>2. QED
      BY <3>1, SameWords
  <2>3. PICK y \in Int : y = WordOf(x) /\ y = Machine!Aligned(x, 4)
    <3>1. 4 * (x \div 4) = x - (x % 4) /\ 4 * (x \div 4) \in Int
      OBVIOUS
    <3>2. QED
      BY <3>1 DEF WordOf, Machine!Aligned
  <2>4. View(Writes(Set(Set(Advanced, LR, ReturnLink(Advanced)), PC, y + 2))) = Machine!Call(Before, y)
    BY CallShows
  <2>5. QED
    BY <1>5, <2>1, <2>2, <2>3, <2>4 DEF Blx1Step
<1>16. QED
  BY <1>8, <1>9, <1>10, <1>11, <1>13, <1>14, <1>15

\* Loads and stores of one word, halfword or byte.
LEMMA LoadAlike ==
  ASSUME TypeInv, Here \in DOMAIN program, NEW i, Decoded(i), NEW ok, ok \subseteq DataWords
  PROVE  /\ i.op = "ldr" /\ ~LdrStep(i, Advanced, ok).fault =>
              View(LdrStep(i, Advanced, ok)) = Machine!Loading(Before, i)
         /\ i.op \in NarrowLoads /\ ~NarrowLoadStep(i, Advanced, ok).fault =>
              View(NarrowLoadStep(i, Advanced, ok)) = Machine!Loading(Before, i)
<1>1. SUFFICES ASSUME i.op \in {"ldr"} \cup NarrowLoads
               PROVE  /\ i.op = "ldr" /\ ~LdrStep(i, Advanced, ok).fault =>
                           View(LdrStep(i, Advanced, ok)) = Machine!Loading(Before, i)
                      /\ i.op \in NarrowLoads /\ ~NarrowLoadStep(i, Advanced, ok).fault =>
                           View(NarrowLoadStep(i, Advanced, ok)) = Machine!Loading(Before, i)
  OBVIOUS
<1>2. MemOK(mem) /\ RegsOK(Advanced) /\ Before.bytes = BytesOf(mem)
  BY FetchedType, ReadsAlike
<1>3. i.rd \in Regs \ {PC} /\ i.rn \in Regs
  BY <1>1, RegsAreNumbers DEF Decoded, Regs
<1>4. PICK a \in Int : a = Address(i, Advanced)
  BY <1>1, <1>2, AddressType
<1>5. Machine!EffectiveAddress(Before, i) = Machine!Aligned(a, Machine!Width(i.op))
  <2>1. Machine!R(Before, i.rn) = Advanced[i.rn] /\ Machine!Operand2(Before, i) = Operand(i, Advanced)
    BY <1>3, ReadsAlike
  <2>2. QED
    BY <1>4, <2>1, SameWords DEF Machine!EffectiveAddress, Address
<1>6. PICK w : w = WordOf(a)
  OBVIOUS
<1>7. PICK x : x = Machine!Load(Before, Machine!Aligned(a, Machine!Width(i.op)), Machine!Width(i.op))
  OBVIOUS
<1>8. Machine!Loading(Before, i) =
        Machine!Def(Before, i.rd, CASE i.op = "ldrsb" -> Machine!Signed(x, Machine!ByteSize)
                                    [] i.op = "ldrsh" -> Machine!Signed(x, Machine!HalfwordSize)
                                    [] OTHER -> x)
  BY <1>5, <1>7 DEF Machine!Loading
<1>9. ASSUME i.op = "ldr", ~LdrStep(i, Advanced, ok).fault
      PROVE  View(LdrStep(i, Advanced, ok)) = Machine!Loading(Before, i)
  <2>1. w \in ok
    BY <1>4, <1>6, <1>9 DEF LdrStep, Faults, Outcome
  <2>2. LdrStep(i, Advanced, ok) = Writes(Set(Advanced, i.rd, mem[w]))
    BY <1>4, <1>6, <2>1 DEF LdrStep
  <2>3. Machine!Width(i.op) = 4
    BY <1>9 DEF Machine!Width
  <2>4. x = mem[w]
    BY <1>2, <1>6, <1>7, <2>1, <2>3, LoadsAlike
  <2>5. View(Writes(Set(Advanced, i.rd, x))) = Machine!Def(Before, i.rd, x)
    BY <1>3, LowShows
  <2>6. Machine!Loading(Before, i) = Machine!Def(Before, i.rd, x)
    BY <1>8, <1>9
  <2>7. QED
    BY <2>2, <2>4, <2>5, <2>6
<1>10. ASSUME i.op \in NarrowLoads, ~NarrowLoadStep(i, Advanced, ok).fault
       PROVE  View(NarrowLoadStep(i, Advanced, ok)) = Machine!Loading(Before, i)
  <2>1. w \in ok
    BY <1>4, <1>6, <1>10 DEF NarrowLoadStep, Faults, Outcome
  <2>2. PICK y : y = Narrow(i.op, ReadHalf(mem[w], a), a)
    OBVIOUS
  <2>3. NarrowLoadStep(i, Advanced, ok) = Writes(Set(Advanced, i.rd, y))
    BY <1>4, <1>6, <2>1, <2>2 DEF NarrowLoadStep
  <2>4. PICK z : z = CASE i.op = "ldrsb" -> Machine!Signed(x, Machine!ByteSize)
                       [] i.op = "ldrsh" -> Machine!Signed(x, Machine!HalfwordSize)
                       [] OTHER -> x
    OBVIOUS
  <2>5. Wrap(z) = Wrap(y)
    <3>1. w \in DataWords
      BY <2>1
    <3>2. Wrap(CASE i.op = "ldrsb" -> Machine!Signed(x, Machine!ByteSize)
                 [] i.op = "ldrsh" -> Machine!Signed(x, Machine!HalfwordSize)
                 [] OTHER -> x) = Wrap(Narrow(i.op, ReadHalf(mem[w], a), a))
      BY <1>2, <1>6, <1>7, <1>10, <3>1, NarrowAlike
    <3>3. QED
      BY <2>2, <2>4, <3>2
  <2>6. View(Writes(Set(Advanced, i.rd, y))) = Machine!Def(Before, i.rd, z)
    BY <1>3, <2>5, LowShows
  <2>7. QED
    BY <1>8, <2>3, <2>4, <2>6
<1>11. QED
  BY <1>9, <1>10

LEMMA StoreAlike ==
  ASSUME TypeInv, Here \in DOMAIN program, NEW i, Decoded(i), NEW ok, ok \subseteq DataWords
  PROVE  /\ i.op = "str" /\ ~StrStep(i, Advanced, ok).fault =>
              View(StrStep(i, Advanced, ok)) = Machine!Storing(Before, i)
         /\ i.op \in NarrowStores /\ ~NarrowStoreStep(i, Advanced, ok).fault =>
              View(NarrowStoreStep(i, Advanced, ok)) = Machine!Storing(Before, i)
<1>1. SUFFICES ASSUME i.op \in {"str"} \cup NarrowStores
               PROVE  /\ i.op = "str" /\ ~StrStep(i, Advanced, ok).fault =>
                           View(StrStep(i, Advanced, ok)) = Machine!Storing(Before, i)
                      /\ i.op \in NarrowStores /\ ~NarrowStoreStep(i, Advanced, ok).fault =>
                           View(NarrowStoreStep(i, Advanced, ok)) = Machine!Storing(Before, i)
  OBVIOUS
<1>2. MemOK(mem) /\ RegsOK(Advanced) /\ Before.bytes = BytesOf(mem)
  BY FetchedType, ReadsAlike
<1>3. i.rd \in Regs \ {PC} /\ i.rn \in Regs
  BY <1>1, RegsAreNumbers DEF Decoded, Regs
<1>4. PICK a \in Int : a = Address(i, Advanced)
  BY <1>1, <1>2, AddressType
<1>5. Machine!EffectiveAddress(Before, i) = Machine!Aligned(a, Machine!Width(i.op))
  <2>1. Machine!R(Before, i.rn) = Advanced[i.rn] /\ Machine!Operand2(Before, i) = Operand(i, Advanced)
    BY <1>3, ReadsAlike
  <2>2. QED
    BY <1>4, <2>1, SameWords DEF Machine!EffectiveAddress, Address
<1>6. PICK w : w = WordOf(a)
  OBVIOUS
<1>7. PICK x \in Word : x = Advanced[i.rd] /\ x = Before.regs[i.rd]
  <2>1. Advanced[i.rd] \in Word
    BY <1>2, <1>3 DEF RegsOK
  <2>2. QED
    BY <1>3, <2>1, ReadsAlike
<1>8. PICK c, b : c = Low(Advanced) /\ b = Wrap(Advanced[PC] - 2)
  OBVIOUS
<1>9. ASSUME NEW m, Machine!Put(BytesOf(mem), Machine!Aligned(a, Machine!Width(i.op)), Machine!Width(i.op), x) = BytesOf(m)
      PROVE  View(Outcome(Advanced, cpsr, m, "no_trap")) = Machine!Storing(Before, i)
  <2>1. PICK g : g = Machine!Same(Before) /\ g = Rec(c, b, cpsr, BytesOf(mem))
    BY <1>8, SameShows
  <2>2. Machine!Storing(Before, i) =
          [g EXCEPT !.bytes = Machine!Put(@, Machine!Aligned(a, Machine!Width(i.op)), Machine!Width(i.op), x)]
    BY <1>5, <1>7, <2>1 DEF Machine!Storing
  <2>3. g.bytes = BytesOf(mem)
    BY <2>1 DEF Rec
  <2>4. Machine!Storing(Before, i) = [g EXCEPT !.bytes = BytesOf(m)]
    BY <1>9, <2>2, <2>3
  <2>5. Machine!Storing(Before, i) = Rec(c, b, cpsr, BytesOf(m))
    BY <2>1, <2>4 DEF Rec
  <2>6. QED
    BY <1>8, <2>5, ViewIs
<1>10. ASSUME i.op = "str", ~StrStep(i, Advanced, ok).fault
       PROVE  View(StrStep(i, Advanced, ok)) = Machine!Storing(Before, i)
  <2>1. w \in ok
    BY <1>4, <1>6, <1>10 DEF StrStep, Faults, Outcome
  <2>2. PICK m : m = [mem EXCEPT ![w] = x]
    OBVIOUS
  <2>3. StrStep(i, Advanced, ok) = Outcome(Advanced, cpsr, m, "no_trap")
    BY <1>4, <1>6, <1>7, <2>1, <2>2 DEF StrStep
  <2>4. Machine!Width(i.op) = 4
    BY <1>10 DEF Machine!Width
  <2>5. Machine!Put(BytesOf(mem), Machine!Aligned(a, 4), 4, x) = BytesOf(m)
    BY <1>2, <1>6, <2>1, <2>2, StoresAlike
  <2>6. QED
    BY <1>9, <2>3, <2>4, <2>5
<1>11. ASSUME i.op \in NarrowStores, ~NarrowStoreStep(i, Advanced, ok).fault
       PROVE  View(NarrowStoreStep(i, Advanced, ok)) = Machine!Storing(Before, i)
  <2>1. w \in ok
    BY <1>4, <1>6, <1>11 DEF NarrowStoreStep, Faults, Outcome
  <2>2. CASE i.op = "strh"
    <3>1. PICK m : m = [mem EXCEPT ![w] = WriteHalf(mem[w], a, x % HalfwordSize)]
      OBVIOUS
    <3>2. NarrowStoreStep(i, Advanced, ok) = Outcome(Advanced, cpsr, m, "no_trap")
      BY <1>4, <1>6, <1>7, <2>1, <2>2, <3>1 DEF NarrowStoreStep
    <3>3. Machine!Width(i.op) = 2
      BY <2>2 DEF Machine!Width
    <3>4. Machine!Put(BytesOf(mem), Machine!Aligned(a, 2), 2, x) = BytesOf(m)
      BY <1>2, <1>6, <2>1, <3>1, StoresAlike
    <3>5. QED
      BY <1>9, <3>2, <3>3, <3>4
  <2>3. CASE i.op = "strb"
    <3>1. PICK m : m = [mem EXCEPT ![w] = WriteHalf(mem[w], a, MergeByte(ReadHalf(mem[w], a), a, x))]
      OBVIOUS
    <3>2. NarrowStoreStep(i, Advanced, ok) = Outcome(Advanced, cpsr, m, "no_trap")
      BY <1>4, <1>6, <1>7, <2>1, <2>3, <3>1 DEF NarrowStoreStep
    <3>3. Machine!Width(i.op) = 1
      BY <2>3 DEF Machine!Width
    <3>4. Machine!Put(BytesOf(mem), Machine!Aligned(a, 1), 1, x) = BytesOf(m)
      BY <1>2, <1>6, <2>1, <3>1, StoresAlike
    <3>5. QED
      BY <1>9, <3>2, <3>3, <3>4
  <2>4. QED
    BY <1>11, <2>2, <2>3 DEF NarrowStores
<1>12. QED
  BY <1>10, <1>11

\* Block transfers: a register's word is where the machine has it.
LEMMA PlaceIsSlot ==
  ASSUME NEW list, list \subseteq Regs, NEW base \in Int, NEW start, start \in {base, Wrap(base)}, NEW q
  PROVE  /\ Machine!Place(list, base, q) = Slot(list, q, start)
         /\ Slot(list, q, start) \in Int /\ WordOf(Slot(list, q, start)) = Slot(list, q, start)
<1>1. PICK y \in Int : y = 4 * Cardinality({p \in list : p < q})
  <2>1. {p \in list : p < q} \subseteq Regs
    OBVIOUS
  <2>2. Cardinality({p \in list : p < q}) \in Nat
    BY <2>1, ListIsFinite
  <2>3. QED
    BY <2>2
<1>2. Wrap(start + y) = Wrap(base + y)
  <2>1. Wrap(Wrap(base) + y) = Wrap(base + y)
    BY WrapSum
  <2>2. QED
    BY <2>1
<1>3. PICK a \in Int : a = Wrap(base + y)
  <2>1. base + y \in Int
    OBVIOUS
  <2>2. QED
    BY <2>1, Parity
<1>4. Slot(list, q, start) = WordOf(a)
  BY <1>1, <1>2, <1>3 DEF Slot
<1>5. Machine!Place(list, base, q) = WordOf(a)
  <2>1. Machine!Place(list, base, q) = Machine!Aligned(a, 4)
    BY <1>1, <1>3, SameWords DEF Machine!Place
  <2>2. QED
    BY <2>1, AddressParts
<1>6. WordOf(a) \in Int /\ WordOf(WordOf(a)) = WordOf(a)
  BY AddressParts
<1>7. QED
  BY <1>4, <1>5, <1>6

LEMMA WordLoaded ==
  ASSUME MemOK(mem), NEW m, m.bytes = BytesOf(mem), NEW w \in DataWords
  PROVE  Machine!Load(m, w, 4) = mem[w]
<1>1. w \in Int /\ WordOf(w) = w
  <2>1. 0 \in 0 .. 3
    OBVIOUS
  <2>2. QED
    BY <2>1, Cells
<1>2. Machine!Aligned(w, 4) = w
  BY <1>1, AddressParts
<1>3. Machine!Load(m, Machine!Aligned(w, 4), 4) = mem[w]
  BY <1>1, LoadsAlike
<1>4. QED
  BY <1>2, <1>3

LEMMA BlockLoads ==
  ASSUME TypeInv, Here \in DOMAIN program, NEW list, list \subseteq Regs,
         NEW n \in Regs \ {PC}, NEW updated, NEW ok, ok \subseteq DataWords,
         Reached(list, Advanced[n], ok) = list
  PROVE  View(Writes(IF n \in list THEN Loaded(Advanced, list, Advanced[n], list)
                     ELSE Set(Loaded(Advanced, list, Advanced[n], list), n, updated)))
           = Machine!LoadingBlock(Before, list, n, updated)
<1>1. PICK base \in Int : base = Advanced[n] /\ base = Before.regs[n]
  BY Ahead, ReadsAlike, ReadsType
<1>2. MemOK(mem) /\ RegsOK(Advanced) /\ Before.bytes = BytesOf(mem)
  BY FetchedType, ReadsAlike
<1>3. ASSUME NEW q \in list
      PROVE  /\ Slot(list, q, base) \in DataWords
             /\ Machine!Load(Before, Machine!Place(list, base, q), 4) = mem[Slot(list, q, base)]
  <2>1. q \in Reached(list, base, ok)
    BY <1>1
  <2>2. \A p \in list : p <= q => Slot(list, p, base) \in ok
    BY <2>1 DEF Reached
  <2>3. q <= q
    BY RegsAreNumbers
  <2>4. Slot(list, q, base) \in DataWords
    BY <2>2, <2>3
  <2>5. Machine!Place(list, base, q) = Slot(list, q, base)
    BY PlaceIsSlot
  <2>6. Machine!Load(Before, Slot(list, q, base), 4) = mem[Slot(list, q, base)]
    BY <1>2, <2>4, WordLoaded
  <2>7. QED
    BY <2>4, <2>5, <2>6
<1>4. PICK loaded : loaded = Loaded(Advanced, list, base, list)
  OBVIOUS
<1>5. loaded = [q \in Regs |-> IF q \notin list THEN Advanced[q]
                              ELSE IF q = PC THEN Wrap(Even(mem[Slot(list, q, base)]) + 2)
                              ELSE mem[Slot(list, q, base)]]
  BY <1>4 DEF Loaded
<1>6. PICK r : r = IF n \in list THEN loaded ELSE Set(loaded, n, updated)
  OBVIOUS
<1>7. r = IF n \in list THEN loaded ELSE [loaded EXCEPT ![n] = Wrap(updated)]
  BY <1>6 DEF Set
<1>8. \A q \in Regs \ {PC} : r[q] = IF q \in list THEN mem[Slot(list, q, base)]
                                    ELSE IF q = n THEN Wrap(updated) ELSE Advanced[q]
  BY <1>5, <1>7
<1>9. r[PC] = IF PC \in list THEN Wrap(Even(mem[Slot(list, PC, base)]) + 2) ELSE Advanced[PC]
  BY <1>5, <1>7, RegsAreNumbers
<1>10. PICK after : after = [q \in Machine!Registers \ {PC} |->
                               IF q \in list THEN Machine!Load(Before, Machine!Place(list, base, q), 4)
                               ELSE IF q = n THEN Wrap(updated) ELSE Before.regs[q]]
  OBVIOUS
<1>11. after = Low(r)
  <2>1. Machine!Registers = Regs
    BY SameWords
  <2>2. \A q \in Regs \ {PC} : Before.regs[q] = Advanced[q]
    BY ReadsAlike
  <2>3. QED
    BY <1>3, <1>8, <1>10, <2>1, <2>2 DEF Low
<1>12. PICK next : next = IF PC \in list
                          THEN Machine!Goto(Before, Machine!Load(Before, Machine!Place(list, base, PC), 4))
                          ELSE Machine!Same(Before)
  OBVIOUS
<1>13. next = Rec(Low(Advanced), Wrap(r[PC] - 2), cpsr, BytesOf(mem))
  <2>1. CASE PC \in list
    <3>1. PICK x \in Word : x = mem[Slot(list, PC, base)] /\ x \in Int
      BY <1>2, <1>3, <2>1, Parity DEF MemOK
    <3>2. next = Machine!Goto(Before, x)
      BY <1>3, <1>12, <2>1, <3>1
    <3>3. Before = Rec(Low(Advanced), Here, cpsr, BytesOf(mem))
      BY Ahead
    <3>4. Machine!Goto(Before, x) = Rec(Low(Advanced), Even(Wrap(x)), cpsr, BytesOf(mem))
      BY <3>3, MachineRecords
    <3>5. PICK y \in Int : y = Even(x) + 2 /\ y % 2 = 0
      <4>1. PICK e \in Int : e = Even(x) /\ e % 2 = 0
        BY <3>1, WrapEven
      <4>2. e + 2 \in Int /\ (e + 2) % 2 = 0
        BY <4>1
      <4>3. QED
        BY <4>1, <4>2
    <3>6. Even(Wrap(y)) = Wrap(y)
      <4>1. PICK v \in Int : v = Wrap(y) /\ v % 2 = 0
        BY <3>5, Parity
      <4>2. QED
        BY <4>1 DEF Even
    <3>7. Wrap(Even(Wrap(y)) - 2) = Even(Wrap(x))
      BY <3>1, <3>5, TargetIs
    <3>8. r[PC] = Wrap(y)
      BY <1>9, <2>1, <3>1, <3>5
    <3>9. QED
      BY <3>2, <3>4, <3>6, <3>7, <3>8
  <2>2. CASE PC \notin list
    <3>1. Machine!Same(Before) = Rec(Low(Advanced), Wrap(Advanced[PC] - 2), cpsr, BytesOf(mem))
      BY SameShows
    <3>2. QED
      BY <1>9, <1>12, <2>2, <3>1
  <2>3. QED
    BY <2>1, <2>2
<1>14. Machine!LoadingBlock(Before, list, n, updated) = [next EXCEPT !.regs = after]
  BY <1>1, <1>10, <1>12, SameWords DEF Machine!LoadingBlock
<1>15. Machine!LoadingBlock(Before, list, n, updated) = Rec(Low(r), Wrap(r[PC] - 2), cpsr, BytesOf(mem))
  BY <1>11, <1>13, <1>14 DEF Rec
<1>16. View(Writes(r)) = Rec(Low(r), Wrap(r[PC] - 2), cpsr, BytesOf(mem))
  BY ViewIs
<1>17. QED
  BY <1>1, <1>4, <1>6, <1>15, <1>16

LEMMA BlockStores ==
  ASSUME TypeInv, Here \in DOMAIN program, NEW list, list \subseteq Regs \ {PC},
         NEW n \in Regs \ {PC}, NEW base \in Int, NEW start, start \in {base, Wrap(base)},
         NEW updated, NEW x, Wrap(x) = Wrap(updated),
         NEW ok, Reached(list, start, ok) = list
  PROVE  View(StoreBlock(Advanced, list, start, x, n, ok))
           = Machine!StoringBlock(Before, list, n, base, updated)
<1>1. PICK m : m = Stored(Advanced, list, start, list)
  OBVIOUS
<1>2. StoreBlock(Advanced, list, start, x, n, ok) = Outcome(Set(Advanced, n, x), cpsr, m, "no_trap")
  BY <1>1 DEF StoreBlock
<1>3. PICK r : r = Set(Advanced, n, x)
  OBVIOUS
<1>4. \A q : Machine!Place(list, base, q) = Slot(list, q, start)
  BY PlaceIsSlot
<1>5. \A q \in Regs \ {PC} : Before.regs[q] = Advanced[q]
  BY ReadsAlike
<1>6. ASSUME NEW c \in DataBytes
      PROVE  (IF \E q \in list : Machine!Place(list, base, q) = Machine!Aligned(c, 4)
              THEN ByteOf(Before.regs[CHOOSE q \in list :
                                        Machine!Place(list, base, q) = Machine!Aligned(c, 4)], c % 4)
              ELSE BytesOf(mem)[c]) = BytesOf(m)[c]
  <2>1. PICK a \in DataWords : a = WordOf(c) /\ Machine!Aligned(c, 4) = a
    BY CellsOf, AddressParts
  <2>2. m[a] = IF \E q \in list : Slot(list, q, start) = a
               THEN Advanced[CHOOSE q \in list : Slot(list, q, start) = a] ELSE mem[a]
    BY <1>1 DEF Stored
  <2>3. BytesOf(m)[c] = ByteOf(m[a], c % 4) /\ BytesOf(mem)[c] = ByteOf(mem[a], c % 4)
    BY <2>1 DEF BytesOf
  <2>4. (CHOOSE q \in list : Machine!Place(list, base, q) = Machine!Aligned(c, 4))
          = (CHOOSE q \in list : Slot(list, q, start) = a)
    BY <1>4, <2>1
  <2>5. CASE \E q \in list : Slot(list, q, start) = a
    <3>1. PICK p : p = CHOOSE q \in list : Slot(list, q, start) = a
      OBVIOUS
    <3>2. p \in list
      BY <2>5, <3>1
    <3>3. Before.regs[p] = Advanced[p] /\ m[a] = Advanced[p]
      BY <1>5, <2>2, <2>5, <3>1, <3>2
    <3>4. \E q \in list : Machine!Place(list, base, q) = Machine!Aligned(c, 4)
      BY <1>4, <2>1, <2>5
    <3>5. QED
      BY Zenon, <2>3, <2>4, <3>1, <3>3, <3>4
  <2>6. CASE ~(\E q \in list : Slot(list, q, start) = a)
    BY <1>4, <2>1, <2>2, <2>3, <2>6
  <2>7. QED
    BY <2>5, <2>6
<1>7. PICK g : g = Machine!Same(Before) /\ g = Rec(Low(Advanced), Wrap(Advanced[PC] - 2), cpsr, BytesOf(mem))
  BY SameShows
<1>8. PICK bytes_after :
        bytes_after = [c \in DataBytes |->
           IF \E q \in list : Machine!Place(list, base, q) = Machine!Aligned(c, 4)
           THEN ByteOf(Before.regs[CHOOSE q \in list :
                                     Machine!Place(list, base, q) = Machine!Aligned(c, 4)], c % 4)
           ELSE BytesOf(mem)[c]]
  OBVIOUS
<1>9. bytes_after = BytesOf(m)
  <2>1. BytesOf(m) = [c \in DataBytes |-> BytesOf(m)[c]]
    BY DEF BytesOf
  <2>2. QED
    BY <1>6, <1>8, <2>1
<1>10. Machine!StoringBlock(Before, list, n, base, updated)
         = [g EXCEPT !.regs[n] = Wrap(updated), !.bytes = bytes_after]
  <2>1. g.bytes = BytesOf(mem)
    BY <1>7 DEF Rec
  <2>2. QED
    BY <1>7, <1>8, <2>1, SameWords DEF Machine!StoringBlock
<1>11. Machine!StoringBlock(Before, list, n, base, updated)
         = Rec(Replaced(Low(Advanced), n, Wrap(updated)), Wrap(Advanced[PC] - 2), cpsr, BytesOf(m))
  <2>1. PICK R, b, D, v, after : /\ R = Low(Advanced) /\ b = Wrap(Advanced[PC] - 2) /\ D = BytesOf(mem)
                                 /\ v = Wrap(updated) /\ after = BytesOf(m)
    OBVIOUS
  <2>2. g = Rec(R, b, cpsr, D)
    BY <1>7, <2>1
  <2>3. [g EXCEPT !.regs[n] = v, !.bytes = after] = Rec(Replaced(R, n, v), b, cpsr, after)
    <3>1. PICK g1 : g1 = [g EXCEPT !.regs[n] = v]
      OBVIOUS
    <3>2. g.regs = R
      BY <2>2 DEF Rec
    <3>3. g1 = [g EXCEPT !.regs = Replaced(R, n, v)]
      BY <3>1, <3>2 DEF Replaced
    <3>4. [g EXCEPT !.regs[n] = v, !.bytes = after] = [g1 EXCEPT !.bytes = after]
      BY <3>1
    <3>5. PICK R1 : R1 = Replaced(R, n, v) /\ g1 = [g EXCEPT !.regs = R1]
      BY <3>3
    <3>6. g1 = Rec(R1, b, cpsr, D)
      BY <2>2, <3>5 DEF Rec
    <3>7. [g1 EXCEPT !.bytes = after] = Rec(R1, b, cpsr, after)
      BY <3>6 DEF Rec
    <3>8. QED
      BY <3>4, <3>5, <3>7
  <2>4. QED
    BY <1>9, <1>10, <2>1, <2>3
<1>12. Low(r) = Replaced(Low(Advanced), n, Wrap(updated)) /\ r[PC] = Advanced[PC]
  <2>1. PICK A, v : A = Advanced /\ v = Wrap(updated) /\ A \in [Regs -> Word] /\ r = [A EXCEPT ![n] = v]
    BY <1>3, Ahead DEF RegsOK, Set
  <2>2. r[PC] = A[PC] /\ \A q \in Regs \ {PC} : r[q] = IF q = n THEN v ELSE A[q]
    BY <2>1, RegsAreNumbers
  <2>3. Low(r) = [Low(A) EXCEPT ![n] = v]
    BY <2>2 DEF Low
  <2>4. QED
    BY <2>1, <2>2, <2>3 DEF Replaced
<1>13. View(Outcome(r, cpsr, m, "no_trap")) = Rec(Low(r), Wrap(r[PC] - 2), cpsr, BytesOf(m))
  BY ViewIs
<1>14. QED
  BY <1>2, <1>3, <1>11, <1>12, <1>13

LEMMA BlocksAlike ==
  ASSUME TypeInv, Here \in DOMAIN program, NEW i, Decoded(i), NEW ok, ok \subseteq DataWords,
         NEW size, size = 4 * Cardinality(i.list)
  PROVE  /\ i.op = "ldm" /\ ~LdmStep(i, Advanced, ok).fault =>
              View(LdmStep(i, Advanced, ok))
                = Machine!LoadingBlock(Before, i.list, i.rn, Before.regs[i.rn] + size)
         /\ i.op = "pop" /\ ~PopStep(i, Advanced, ok).fault =>
              View(PopStep(i, Advanced, ok))
                = Machine!LoadingBlock(Before, i.list, SP, Before.regs[SP] + size)
         /\ i.op = "stm" /\ ~StmStep(i, Advanced, ok).fault =>
              View(StmStep(i, Advanced, ok))
                = Machine!StoringBlock(Before, i.list, i.rn, Before.regs[i.rn], Before.regs[i.rn] + size)
         /\ i.op = "push" /\ ~PushStep(i, Advanced, ok).fault =>
              View(PushStep(i, Advanced, ok))
                = Machine!StoringBlock(Before, i.list, SP, Before.regs[SP] - size, Before.regs[SP] - size)
<1>1. SUFFICES ASSUME i.op \in {"ldm", "pop", "stm", "push"}
               PROVE  /\ i.op = "ldm" /\ ~LdmStep(i, Advanced, ok).fault =>
                           View(LdmStep(i, Advanced, ok))
                             = Machine!LoadingBlock(Before, i.list, i.rn, Before.regs[i.rn] + size)
                      /\ i.op = "pop" /\ ~PopStep(i, Advanced, ok).fault =>
                           View(PopStep(i, Advanced, ok))
                             = Machine!LoadingBlock(Before, i.list, SP, Before.regs[SP] + size)
                      /\ i.op = "stm" /\ ~StmStep(i, Advanced, ok).fault =>
                           View(StmStep(i, Advanced, ok))
                             = Machine!StoringBlock(Before, i.list, i.rn, Before.regs[i.rn], Before.regs[i.rn] + size)
                      /\ i.op = "push" /\ ~PushStep(i, Advanced, ok).fault =>
                           View(PushStep(i, Advanced, ok))
                             = Machine!StoringBlock(Before, i.list, SP, Before.regs[SP] - size, Before.regs[SP] - size)
  OBVIOUS
<1>2. PICK list : list = i.list /\ list \subseteq Regs /\ size = 4 * Cardinality(list) /\ size \in Int
  <2>1. i.list \subseteq Regs
    BY <1>1, RegsAreNumbers DEF Decoded
  <2>2. Cardinality(i.list) \in Nat
    BY <2>1, ListIsFinite
  <2>3. QED
    BY <2>1, <2>2
<1>3. \A q \in Regs \ {PC} : Before.regs[q] = Advanced[q] /\ Advanced[q] \in Int
  BY Ahead, ReadsAlike, ReadsType
<1>4. \A r, m : Faults(r, m).fault
  BY DEF Faults, Outcome
<1>5. ASSUME i.op = "ldm", ~LdmStep(i, Advanced, ok).fault
      PROVE  View(LdmStep(i, Advanced, ok))
               = Machine!LoadingBlock(Before, i.list, i.rn, Before.regs[i.rn] + size)
  <2>1. PICK n \in Regs \ {PC} : n = i.rn
    BY <1>5, RegsAreNumbers DEF Decoded, Regs
  <2>2. Reached(list, Advanced[n], ok) = list
    BY <1>2, <1>4, <1>5, <2>1 DEF LdmStep
  <2>3. PICK loaded : loaded = Loaded(Advanced, list, Advanced[n], list)
    OBVIOUS
  <2>4. LdmStep(i, Advanced, ok) = Writes(IF n \in list THEN loaded ELSE Set(loaded, n, Advanced[n] + size))
    BY <1>2, <2>1, <2>2, <2>3 DEF LdmStep
  <2>5. View(Writes(IF n \in list THEN loaded ELSE Set(loaded, n, Advanced[n] + size)))
          = Machine!LoadingBlock(Before, list, n, Advanced[n] + size)
    <3>1. PICK updated : updated = Advanced[n] + size
      OBVIOUS
    <3>2. View(Writes(IF n \in list THEN Loaded(Advanced, list, Advanced[n], list)
                      ELSE Set(Loaded(Advanced, list, Advanced[n], list), n, updated)))
            = Machine!LoadingBlock(Before, list, n, updated)
      BY <1>2, <2>2, BlockLoads
    <3>3. QED
      BY <2>3, <3>1, <3>2
  <2>6. Before.regs[n] = Advanced[n]
    BY <1>3
  <2>7. QED
    BY <1>2, <2>1, <2>4, <2>5, <2>6
<1>6. ASSUME i.op = "pop", ~PopStep(i, Advanced, ok).fault
      PROVE  View(PopStep(i, Advanced, ok))
               = Machine!LoadingBlock(Before, i.list, SP, Before.regs[SP] + size)
  <2>1. SP \in Regs \ {PC} /\ SP \notin list
    BY <1>2, <1>6, RegsAreNumbers DEF Decoded
  <2>2. Reached(list, Advanced[SP], ok) = list
    BY <1>2, <1>4, <1>6 DEF PopStep
  <2>3. PICK loaded : loaded = Loaded(Advanced, list, Advanced[SP], list)
    OBVIOUS
  <2>4. PopStep(i, Advanced, ok) = Writes(Set(loaded, SP, Advanced[SP] + size))
    BY <1>2, <2>2, <2>3 DEF PopStep
  <2>5. View(Writes(IF SP \in list THEN loaded ELSE Set(loaded, SP, Advanced[SP] + size)))
          = Machine!LoadingBlock(Before, list, SP, Advanced[SP] + size)
    <3>1. PICK updated : updated = Advanced[SP] + size
      OBVIOUS
    <3>2. View(Writes(IF SP \in list THEN Loaded(Advanced, list, Advanced[SP], list)
                      ELSE Set(Loaded(Advanced, list, Advanced[SP], list), SP, updated)))
            = Machine!LoadingBlock(Before, list, SP, updated)
      BY <1>2, <2>1, <2>2, BlockLoads
    <3>3. QED
      BY <2>3, <3>1, <3>2
  <2>6. Before.regs[SP] = Advanced[SP]
    BY <1>3, <2>1
  <2>7. QED
    BY <1>2, <2>1, <2>4, <2>5, <2>6
<1>7. ASSUME i.op = "stm", ~StmStep(i, Advanced, ok).fault
      PROVE  View(StmStep(i, Advanced, ok))
               = Machine!StoringBlock(Before, i.list, i.rn, Before.regs[i.rn], Before.regs[i.rn] + size)
  <2>1. PICK n \in Regs \ {PC} : n = i.rn
    BY <1>7, RegsAreNumbers DEF Decoded, Regs
  <2>2. PICK base \in Int : base = Advanced[n] /\ base = Before.regs[n]
    BY <1>3
  <2>3. list \subseteq Regs \ {PC}
    BY <1>2, <1>7, RegsAreNumbers DEF Decoded
  <2>4. StmStep(i, Advanced, ok) = StoreBlock(Advanced, list, base, base + size, n, ok)
    BY <1>2, <2>1, <2>2 DEF StmStep
  <2>5. Reached(list, base, ok) = list
    BY <1>4, <1>7, <2>4 DEF StoreBlock
  <2>6. View(StoreBlock(Advanced, list, base, base + size, n, ok))
          = Machine!StoringBlock(Before, list, n, base, base + size)
    BY <2>3, <2>5, BlockStores
  <2>7. QED
    BY <1>2, <2>1, <2>2, <2>4, <2>6
<1>8. ASSUME i.op = "push", ~PushStep(i, Advanced, ok).fault
      PROVE  View(PushStep(i, Advanced, ok))
               = Machine!StoringBlock(Before, i.list, SP, Before.regs[SP] - size, Before.regs[SP] - size)
  <2>1. SP \in Regs \ {PC}
    BY RegsAreNumbers
  <2>2. PICK base \in Int : base = Advanced[SP] - size /\ base = Before.regs[SP] - size
    BY <1>2, <1>3, <2>1
  <2>3. list \subseteq Regs \ {PC}
    BY <1>2, <1>8, RegsAreNumbers DEF Decoded
  <2>4. PICK start : start = Wrap(base) /\ Wrap(start) = Wrap(base)
    BY Parity, WrapWord
  <2>5. PushStep(i, Advanced, ok) = StoreBlock(Advanced, list, start, start, SP, ok)
    BY <1>2, <2>2, <2>4 DEF PushStep
  <2>6. Reached(list, start, ok) = list
    BY <1>4, <1>8, <2>5 DEF StoreBlock
  <2>7. View(StoreBlock(Advanced, list, start, start, SP, ok))
          = Machine!StoringBlock(Before, list, SP, base, base)
    BY <2>1, <2>3, <2>4, <2>6, BlockStores
  <2>8. QED
    BY <1>2, <2>2, <2>5, <2>7
<1>9. QED
  BY <1>5, <1>6, <1>7, <1>8

\* An instruction that does not fault is one of the machine's.
LEMMA StepIsInstruction ==
  ASSUME TypeInv, Here \in DOMAIN program, NEW i, Decoded(i), NEW ok, ok \subseteq DataWords,
         NEW h, ~Step(i, Advanced, ok, h).fault
  PROVE  View(Step(i, Advanced, ok, h)) \in Machine!Effects(Before, i)
<1>1. i.op \in Ops
  BY DEF Decoded
<1>2. PICK out, m : out = Step(i, Advanced, ok, h) /\ m = Before /\ ~out.fault
  OBVIOUS
<1>3. PICK size : size = 4 * Cardinality(i.list)
  OBVIOUS
<1>4. CASE i.op = "alu"
  BY <1>2, <1>4, AluAlike, StepByName, EffectsByName
<1>5. CASE i.op \in {"unary", "mov", "addhigh", "address", "addsp", "swi_flags"}
  BY <1>2, <1>5, RegisterOpsAlike, StepByName, EffectsByName
<1>6. CASE i.op \in {"branch", "jump", "bl1", "bl2", "blx1", "blx", "bx"}
  BY <1>2, <1>6, BranchesAlike, StepByName, EffectsByName
<1>7. CASE i.op \in {"nop", "bkpt", "swi", "undefined"}
  BY <1>2, <1>7, SameShows, StepByName, EffectsByName
<1>8. CASE i.op \in {"ldr"} \cup NarrowLoads
  BY <1>2, <1>8, LoadAlike, StepByName, EffectsByName
<1>9. CASE i.op \in {"str"} \cup NarrowStores
  BY <1>2, <1>9, StoreAlike, StepByName, EffectsByName
<1>10. CASE i.op \in {"ldm", "pop", "stm", "push"}
  BY <1>2, <1>3, <1>10, BlocksAlike, StepByName, EffectsByName
<1>11. QED
  BY <1>1, <1>4, <1>5, <1>6, <1>7, <1>8, <1>9, <1>10 DEF Ops

-----------------------------------------------------------------------------
(* An instruction left half done. *)

\* An instruction that needs a word that is not RAM, or that ends the program, faults
\* whatever is mapped; the registers say which one does.
CannotEnd(i, r) ==
  \/ i.op = "addhigh" /\ i.rd = PC /\ Wrap(r[i.rd] + r[i.rm]) % 2 = 0
  \/ i.op \in {"ldr", "str"} \cup NarrowLoads \cup NarrowStores /\ WordOf(Address(i, r)) \notin DataWords
  \/ i.op \in {"ldm", "stm"} /\ Reached(i.list, r[i.rn], DataWords) # i.list
  \/ i.op = "pop" /\ Reached(i.list, r[SP], DataWords) # i.list
  \/ i.op = "push" /\ Reached(i.list, Wrap(r[SP] - 4 * Cardinality(i.list)), DataWords) # i.list

\* What faults with every word mapped cannot end, and what cannot end faults.
LEMMA FaultsAnyway ==
  ASSUME NEW i, i.op \in Ops, NEW r, NEW h, Step(i, r, DataWords, h).fault
  PROVE  CannotEnd(i, r)
<1>1. PICK out : out = Step(i, r, DataWords, h) /\ out.fault
  OBVIOUS
<1>2. \A r1, f, m, trap : ~Outcome(r1, f, m, trap).fault /\ ~Writes(r1).fault /\ ~Traps(r1, trap).fault
  BY DEF Outcome, Writes, Traps
<1>3. CASE i.op \in {"alu", "unary", "mov", "address", "addsp", "swi_flags", "nop"}
  <2>1. \/ out \in {AluStep(i, r), UnaryStep(i, r), MovStep(i, r), AddressStep(i, r)}
        \/ out \in {AddSPStep(i, r), SwiFlagsStep(r), Writes(r)}
    BY <1>1, <1>3, StepByName
  <2>2. ~AluStep(i, r).fault
    BY <1>2 DEF AluStep
  <2>3. ~UnaryStep(i, r).fault /\ ~MovStep(i, r).fault /\ ~AddressStep(i, r).fault
    BY Zenon, <1>2 DEF UnaryStep, MovStep, AddressStep
  <2>4. ~AddSPStep(i, r).fault /\ ~SwiFlagsStep(r).fault /\ ~Writes(r).fault
    BY Zenon, <1>2 DEF AddSPStep, SwiFlagsStep
  <2>5. QED
    BY <1>1, <2>1, <2>2, <2>3, <2>4
<1>4. CASE i.op \in {"branch", "jump", "bl1", "bl2", "blx1", "blx", "bx", "bkpt", "swi", "undefined"}
  <2>1. \/ out \in {BranchStep(i, r), JumpStep(i, r), Bl1Step(i, r), Bl2Step(i, r), Blx1Step(i, r)}
        \/ out \in {BlxStep(i, r), BxStep(i, r, h), Traps(r, "breakpoint")}
    BY <1>1, <1>4, StepByName
  <2>2. ~BranchStep(i, r).fault /\ ~JumpStep(i, r).fault /\ ~Bl1Step(i, r).fault /\ ~Bl2Step(i, r).fault
    BY Zenon, <1>2 DEF BranchStep, JumpStep, Bl1Step, Bl2Step
  <2>3. ~Blx1Step(i, r).fault /\ ~BlxStep(i, r).fault
    BY Zenon, <1>2 DEF Blx1Step, BlxStep
  <2>4. ~BxStep(i, r, h).fault /\ ~Traps(r, "breakpoint").fault
    BY Zenon, <1>2 DEF BxStep
  <2>5. QED
    BY <1>1, <2>1, <2>2, <2>3, <2>4
<1>5. CASE i.op = "addhigh"
  <2>1. out = AddHighStep(i, r)
    BY <1>1, <1>5, StepByName
  <2>2. QED
    BY <1>1, <1>2, <1>5, <2>1 DEF AddHighStep, CannotEnd
<1>6. CASE i.op \in {"ldr", "str"} \cup NarrowLoads \cup NarrowStores
  <2>1. out \in {LdrStep(i, r, DataWords), StrStep(i, r, DataWords),
                 NarrowLoadStep(i, r, DataWords), NarrowStoreStep(i, r, DataWords)}
    BY <1>1, <1>6, StepByName
  <2>2. PICK w : w = WordOf(Address(i, r))
    OBVIOUS
  <2>3. w \in DataWords => ~LdrStep(i, r, DataWords).fault /\ ~StrStep(i, r, DataWords).fault
    BY Zenon, <1>2, <2>2 DEF LdrStep, StrStep
  <2>4. w \in DataWords => ~NarrowLoadStep(i, r, DataWords).fault /\ ~NarrowStoreStep(i, r, DataWords).fault
    BY Zenon, <1>2, <2>2 DEF NarrowLoadStep, NarrowStoreStep
  <2>5. w \notin DataWords
    BY Zenon, <1>1, <2>1, <2>3, <2>4
  <2>6. QED
    BY Zenon, <1>6, <2>2, <2>5 DEF CannotEnd
<1>7. CASE i.op = "ldm"
  <2>1. out = LdmStep(i, r, DataWords)
    BY <1>1, <1>7, StepByName
  <2>2. Reached(i.list, r[i.rn], DataWords) # i.list
    BY Zenon, <1>1, <1>2, <2>1 DEF LdmStep
  <2>3. QED
    BY Zenon, <1>7, <2>2 DEF CannotEnd
<1>8. CASE i.op = "pop"
  <2>1. out = PopStep(i, r, DataWords)
    BY <1>1, <1>8, StepByName
  <2>2. Reached(i.list, r[SP], DataWords) # i.list
    BY Zenon, <1>1, <1>2, <2>1 DEF PopStep
  <2>3. QED
    BY Zenon, <1>8, <2>2 DEF CannotEnd
<1>9. CASE i.op = "stm"
  <2>1. out = StmStep(i, r, DataWords)
    BY <1>1, <1>9, StepByName
  <2>2. Reached(i.list, r[i.rn], DataWords) # i.list
    BY Zenon, <1>1, <1>2, <2>1 DEF StmStep, StoreBlock
  <2>3. QED
    BY Zenon, <1>9, <2>2 DEF CannotEnd
<1>10. CASE i.op = "push"
  <2>1. out = PushStep(i, r, DataWords)
    BY <1>1, <1>10, StepByName
  <2>2. Reached(i.list, Wrap(r[SP] - 4 * Cardinality(i.list)), DataWords) # i.list
    BY Zenon, <1>1, <1>2, <2>1 DEF PushStep, StoreBlock
  <2>3. QED
    BY Zenon, <1>10, <2>2 DEF CannotEnd
<1>11. QED
  BY <1>3, <1>4, <1>5, <1>6, <1>7, <1>8, <1>9, <1>10 DEF Ops

LEMMA MustFault ==
  ASSUME NEW i, i.op \in Ops, NEW r, CannotEnd(i, r), NEW ok, ok \subseteq DataWords, NEW h
  PROVE  Step(i, r, ok, h).fault
<1>1. \A r1, m : Faults(r1, m).fault
  BY DEF Faults, Outcome
<1>2. CASE i.op = "addhigh"
  BY <1>1, <1>2, StepByName DEF CannotEnd, AddHighStep, NarrowLoads, NarrowStores
<1>3. CASE i.op \in {"ldr", "str"} \cup NarrowLoads \cup NarrowStores
  <2>1. PICK w : w = WordOf(Address(i, r))
    OBVIOUS
  <2>2. w \notin ok
    BY <1>3, <2>1 DEF CannotEnd, NarrowLoads, NarrowStores
  <2>3. LdrStep(i, r, ok).fault /\ StrStep(i, r, ok).fault
    BY Zenon, <1>1, <2>1, <2>2 DEF LdrStep, StrStep
  <2>4. NarrowLoadStep(i, r, ok).fault /\ NarrowStoreStep(i, r, ok).fault
    BY Zenon, <1>1, <2>1, <2>2 DEF NarrowLoadStep, NarrowStoreStep
  <2>5. QED
    BY <1>3, <2>3, <2>4, StepByName
<1>4. ASSUME NEW base, Reached(i.list, base, DataWords) # i.list PROVE Reached(i.list, base, ok) # i.list
  BY <1>4, MoreIsReached
<1>5. CASE i.op = "ldm"
  <2>1. Reached(i.list, r[i.rn], DataWords) # i.list
    BY <1>5 DEF CannotEnd, NarrowLoads, NarrowStores
  <2>2. Reached(i.list, r[i.rn], ok) # i.list
    BY <1>4, <2>1
  <2>3. LdmStep(i, r, ok).fault
    BY Zenon, <1>1, <2>2 DEF LdmStep
  <2>4. QED
    BY <1>5, <2>3, StepByName
<1>6. CASE i.op = "pop"
  <2>1. Reached(i.list, r[SP], DataWords) # i.list
    BY <1>6 DEF CannotEnd, NarrowLoads, NarrowStores
  <2>2. Reached(i.list, r[SP], ok) # i.list
    BY <1>4, <2>1
  <2>3. PopStep(i, r, ok).fault
    BY Zenon, <1>1, <2>2 DEF PopStep
  <2>4. QED
    BY <1>6, <2>3, StepByName
<1>7. CASE i.op = "stm"
  <2>1. Reached(i.list, r[i.rn], DataWords) # i.list
    BY <1>7 DEF CannotEnd, NarrowLoads, NarrowStores
  <2>2. Reached(i.list, r[i.rn], ok) # i.list
    BY <1>4, <2>1
  <2>3. StmStep(i, r, ok).fault
    BY Zenon, <1>1, <2>2 DEF StmStep, StoreBlock
  <2>4. QED
    BY <1>7, <2>3, StepByName
<1>8. CASE i.op = "push"
  <2>1. Reached(i.list, Wrap(r[SP] - 4 * Cardinality(i.list)), DataWords) # i.list
    BY <1>8 DEF CannotEnd, NarrowLoads, NarrowStores
  <2>2. Reached(i.list, Wrap(r[SP] - 4 * Cardinality(i.list)), ok) # i.list
    BY <1>4, <2>1
  <2>3. PushStep(i, r, ok).fault
    BY Zenon, <1>1, <2>2 DEF PushStep, StoreBlock
  <2>4. QED
    BY <1>8, <2>3, StepByName
<1>9. QED
  BY <1>2, <1>3, <1>5, <1>6, <1>7, <1>8 DEF CannotEnd

\* What a fault leaves in the registers does not change whether the instruction can end.
LEMMA StillCannotEnd ==
  ASSUME TypeInv, NEW i, Decoded(i), NEW ok, NEW h, CannotEnd(i, Advanced),
         Step(i, Advanced, ok, h).fault, ~LosesBase(i, Step(i, Advanced, ok, h))
  PROVE  CannotEnd(i, [Step(i, Advanced, ok, h).reg EXCEPT ![PC] = Advanced[PC]])
<1>1. PICK r, out, r1 : r = Advanced /\ out = Step(i, r, ok, h) /\ r1 = [out.reg EXCEPT ![PC] = r[PC]]
  OBVIOUS
<1>2. r \in [Regs -> Word] /\ out.fault /\ i.op \in Ops
  BY <1>1, FetchedType DEF RegsOK, Decoded
<1>3. \A r2 : ~Writes(r2).fault /\ Faults(r2, mem).reg = r2
  BY DEF Writes, Outcome, Faults
<1>4. ASSUME out.reg = r PROVE CannotEnd(i, r1)
  <2>1. r1 = r
    BY <1>1, <1>2, <1>4
  <2>2. QED
    BY <1>1, <2>1
<1>5. \A r2, m : Faults(r2, m).reg = r2
  BY DEF Faults, Outcome
<1>6. \A r2, m : ~Outcome(r2, cpsr, m, "no_trap").fault
  BY DEF Outcome
<1>7. CASE i.op = "addhigh"
  <2>1. out = AddHighStep(i, r)
    BY <1>1, <1>7, StepByName
  <2>2. out.reg = r
    BY Zenon, <1>2, <1>3, <2>1 DEF AddHighStep
  <2>3. QED
    BY <1>1, <1>4, <2>2
<1>8. CASE i.op \in {"ldr", "str"} \cup NarrowLoads \cup NarrowStores
  <2>1. \/ out = LdrStep(i, r, ok) \/ out = StrStep(i, r, ok)
        \/ out = NarrowLoadStep(i, r, ok) \/ out = NarrowStoreStep(i, r, ok)
    BY <1>1, <1>8, StepByName
  <2>2. ASSUME out = LdrStep(i, r, ok) PROVE out.reg = r
    BY Zenon, <1>2, <1>3, <2>2 DEF LdrStep
  <2>3. ASSUME out = StrStep(i, r, ok) PROVE out.reg = r
    BY Zenon, <1>2, <1>3, <1>6, <2>3 DEF StrStep
  <2>4. ASSUME out = NarrowLoadStep(i, r, ok) PROVE out.reg = r
    BY Zenon, <1>2, <1>3, <2>4 DEF NarrowLoadStep
  <2>5. ASSUME out = NarrowStoreStep(i, r, ok) PROVE out.reg = r
    BY Zenon, <1>2, <1>3, <1>6, <2>5 DEF NarrowStoreStep
  <2>6. out.reg = r
    BY <1>3, <2>1, <2>2, <2>3, <2>4, <2>5
  <2>7. QED
    BY <1>1, <1>4, <2>6
<1>9. CASE i.op \in {"stm", "push"}
  <2>1. \E base, after, n : out = StoreBlock(r, i.list, base, after, n, ok)
    BY <1>1, <1>9, StepByName DEF StmStep, PushStep
  <2>2. out.reg = r
    BY Zenon, <1>2, <1>5, <1>6, <2>1 DEF StoreBlock
  <2>3. QED
    BY <1>1, <1>4, <2>2
<1>10. CASE i.op = "ldm"
  <2>1. i.rn \in Regs \ {PC} /\ i.rn \in LowRegs
    BY <1>10, RegsAreNumbers DEF Decoded, Regs
  <2>2. out.reg[i.rn] = reg[i.rn] /\ reg[i.rn] = r[i.rn]
    BY <1>1, <1>10, <2>1 DEF LosesBase, Advanced, Set
  <2>3. r1[i.rn] = r[i.rn]
    <3>1. out = LdmStep(i, r, ok)
      BY <1>1, <1>10, StepByName
    <3>2. PICK loaded : out.reg = loaded /\ loaded = Loaded(r, i.list, r[i.rn], Reached(i.list, r[i.rn], ok))
      BY Zenon, <1>2, <1>3, <3>1 DEF LdmStep
    <3>3. loaded = [q \in Regs |-> loaded[q]]
      BY <3>2 DEF Loaded
    <3>4. QED
      BY <1>1, <2>1, <2>2, <3>2, <3>3
  <2>4. Reached(i.list, r[i.rn], DataWords) # i.list
    BY <1>1, <1>10 DEF CannotEnd, NarrowLoads, NarrowStores
  <2>5. CannotEnd(i, r1)
    BY <1>10, <2>3, <2>4 DEF CannotEnd
  <2>6. QED
    BY <1>1, <2>5
<1>11. CASE i.op = "pop"
  <2>1. SP \in Regs \ {PC} /\ SP \notin i.list
    BY <1>11, RegsAreNumbers DEF Decoded
  <2>2. PICK reached : reached = Reached(i.list, r[SP], ok) /\ SP \notin reached
    BY <2>1 DEF Reached
  <2>3. r1[SP] = r[SP]
    <3>1. out = PopStep(i, r, ok)
      BY <1>1, <1>11, StepByName
    <3>2. PICK loaded : out.reg = loaded /\ loaded = Loaded(r, i.list, r[SP], reached)
      BY Zenon, <1>2, <1>3, <2>2, <3>1 DEF PopStep
    <3>3. loaded = [q \in Regs |-> loaded[q]] /\ loaded[SP] = r[SP]
      BY <2>1, <2>2, <3>2 DEF Loaded
    <3>4. QED
      BY <1>1, <2>1, <3>2, <3>3
  <2>4. Reached(i.list, r[SP], DataWords) # i.list
    BY <1>1, <1>11 DEF CannotEnd, NarrowLoads, NarrowStores
  <2>5. CannotEnd(i, r1)
    BY <1>11, <2>3, <2>4 DEF CannotEnd
  <2>6. QED
    BY <1>1, <2>5
<1>12. QED
  BY <1>7, <1>8, <1>9, <1>10, <1>11 DEF CannotEnd

\* The machine is an implementation only while what a faulted instruction left behind
\* can still lead to what the machine does in one step: the machine stands before the
\* instruction, and the outcome the instruction would have had is one of the machine's.
Explained(i, before, after) == View(after) \in Machine!Effects(View(before), i)
MachineInv ==
  /\ RepeatInv
  /\ pending # NoPending =>
       /\ Wrap(pending.before.reg[PC] - 2) = pending.at
       /\ ~pending.after.fault => Explained(program[pending.at], pending.before, pending.after)
       /\ ~pending.loses /\ pending.after.fault => CannotEnd(program[pending.at], Resumed)

LEMMA InitMachineInv == Init => MachineInv
BY InitRepeatInv DEF Init, MachineInv

\* A step that leaves the program, every register but the program counter, and what
\* is pending alone.
LEMMA MachineInvStays ==
  ASSUME MachineInv, RepeatInv', UNCHANGED <<program, pending>>, \A q \in Regs \ {PC} : reg'[q] = reg[q]
  PROVE  MachineInv'
<1>1. Resumed' = Resumed
  <2>1. reg \in [Regs -> Word] /\ reg' \in [Regs -> Word]
    BY DEF MachineInv, RepeatInv, TypeInv, TypeOK
  <2>2. QED
    BY <2>1 DEF Resumed
<1>2. QED
  BY <1>1 DEF MachineInv

\* An exception leaves an instruction that the machine explains.
LEMMA DataFaultExplained ==
  ASSUME MachineInv, NEW abort \in BOOLEAN, DataFault(abort), RepeatInv'
  PROVE  MachineInv'
<1>1. RepeatInv /\ TypeInv /\ Fetchable /\ program' = program
  BY DEF MachineInv, RepeatInv, DataFault, embedder
<1>2. PICK i, ok, r, h, out, full :
        /\ i = program[Here] /\ ok = DataWords \cap mapped /\ r = Advanced /\ h = FALSE
        /\ out = Step(i, r, ok, h) /\ full = Step(i, r, DataWords, h)
  OBVIOUS
<1>3. /\ out.fault /\ reg' = out.reg /\ cpsr' = out.cpsr /\ mem' = out.mem
      /\ pending' = IF Repeats THEN [pending EXCEPT !.loses = @ \/ LosesBase(i, out)]
                    ELSE [at |-> Here, loses |-> LosesBase(i, out), before |-> Now, after |-> full]
  BY <1>2 DEF DataFault
<1>4. /\ Here \in DOMAIN program /\ Decoded(i) /\ i.op \in Ops
      /\ Advanced = [reg EXCEPT ![PC] = Wrap(Here + 4)] /\ Advanced[PC] = Wrap(Here + 4)
  BY <1>1, <1>2, Fetched DEF Decoded
<1>5. ASSUME ~LosesBase(i, out), CannotEnd(i, r), pending'.at = Here
      PROVE  CannotEnd(i, Resumed')
  <2>1. CannotEnd(i, [out.reg EXCEPT ![PC] = r[PC]])
    BY <1>1, <1>2, <1>3, <1>4, <1>5, StillCannotEnd
  <2>2. Resumed' = [out.reg EXCEPT ![PC] = r[PC]]
    BY <1>2, <1>3, <1>4, <1>5 DEF Resumed
  <2>3. QED
    BY <2>1, <2>2
<1>6. CASE Repeats
  <2>1. /\ pending # NoPending /\ pending.at = Here
        /\ pending = [at |-> pending.at, loses |-> pending.loses,
                       before |-> pending.before, after |-> pending.after]
    BY <1>1, <1>6 DEF Repeats, RepeatInv
  <2>2. /\ pending'.at = Here /\ pending'.before = pending.before /\ pending'.after = pending.after
        /\ ~pending'.loses => ~pending.loses /\ ~LosesBase(i, out)
    BY <1>3, <1>6, <2>1
  <2>3. Resumed = r
    BY <1>2, <1>4, <2>1 DEF Resumed
  <2>4. ASSUME ~pending'.loses, pending'.after.fault PROVE CannotEnd(i, Resumed')
    <3>1. CannotEnd(i, r)
      BY <1>2, <2>1, <2>2, <2>3, <2>4 DEF MachineInv
    <3>2. QED
      BY <1>5, <2>2, <2>4, <3>1
  <2>5. /\ Wrap(pending.before.reg[PC] - 2) = pending.at
        /\ ~pending.after.fault => Explained(i, pending.before, pending.after)
    BY <1>2, <2>1 DEF MachineInv
  <2>6. program'[pending'.at] = i
    BY <1>1, <1>2, <2>2
  <2>7. QED
    BY <2>1, <2>2, <2>4, <2>5, <2>6 DEF MachineInv
<1>7. CASE ~Repeats
  <2>1. pending' = [at |-> Here, loses |-> LosesBase(i, out), before |-> Now, after |-> full]
    BY <1>3, <1>7
  <2>2. Wrap(Now.reg[PC] - 2) = Here
    BY DEF Now, Here
  <2>3. ASSUME ~full.fault PROVE Explained(i, Now, full)
    <3>1. View(full) \in Machine!Effects(Before, i)
      BY <1>1, <1>2, <1>4, <2>3, StepIsInstruction
    <3>2. QED
      BY <3>1 DEF Explained, Before
  <2>4. ASSUME ~LosesBase(i, out), full.fault PROVE CannotEnd(i, Resumed')
    <3>1. CannotEnd(i, r)
      BY <1>2, <1>4, <2>4, FaultsAnyway
    <3>2. QED
      BY <1>5, <2>1, <2>4, <3>1
  <2>5. program'[pending'.at] = i
    BY <1>1, <1>2, <2>1
  <2>6. QED
    BY <2>1, <2>2, <2>3, <2>4, <2>5 DEF MachineInv
<1>8. QED
  BY <1>6, <1>7

LEMMA StepMachineInv == MachineInv /\ [Next]_vars => MachineInv'
<1>. SUFFICES ASSUME MachineInv, [Next]_vars PROVE MachineInv'
  OBVIOUS
<1>1. RepeatInv /\ TypeInv /\ RepeatInv' /\ TypeInv'
  BY StepRepeatInv DEF MachineInv, RepeatInv
<1>2. ASSUME UNCHANGED <<reg, program, pending>> PROVE MachineInv'
  BY <1>1, <1>2, MachineInvStays
<1>3. ASSUME pending' = NoPending PROVE MachineInv'
  BY <1>1, <1>3 DEF MachineInv
<1>4. CASE UNCHANGED vars
  BY <1>2, <1>4 DEF vars, core, embedder
<1>5. CASE Interpreter
  <2>1. CASE StopTrap
    BY <1>2, <2>1 DEF StopTrap, core, embedder
  <2>2. ASSUME NEW abort \in BOOLEAN, FetchTrap(abort) PROVE MachineInv'
    BY <1>2, <2>2 DEF FetchTrap, core, embedder
  <2>3. ASSUME NEW abort \in BOOLEAN, FetchFault(abort) PROVE MachineInv'
    BY <1>2, <2>3 DEF FetchFault, core, embedder
  <2>4. ASSUME NEW abort \in BOOLEAN, DataFault(abort) PROVE MachineInv'
    BY <1>1, <2>4, DataFaultExplained
  <2>5. ASSUME NEW abort \in BOOLEAN, NEW hostTraps \in BOOLEAN, Execute(abort, hostTraps)
        PROVE  MachineInv'
    BY <1>3, <2>5 DEF Execute
  <2>6. QED
    BY <1>5, <2>1, <2>2, <2>3, <2>4, <2>5 DEF Interpreter
<1>6. CASE Embedder
  <2>1. ASSUME NEW n \in 0 .. MaxRun, Run(n) PROVE MachineInv'
    BY <1>2, <2>1 DEF Run, core, embedder
  <2>2. CASE AbortRun
    BY <1>2, <2>2 DEF AbortRun, core, embedder
  <2>3. ASSUME NEW a \in StopAddresses, SetStopAddress(a) PROVE MachineInv'
    BY <1>2, <2>3 DEF SetStopAddress, core
  <2>4. ASSUME NEW a \in UNION Holes, MapWord(a) PROVE MachineInv'
    BY <1>2, <2>4 DEF MapWord, core
  <2>5. CASE Retry
    <3>1. \A q \in Regs \ {PC} : reg'[q] = reg[q]
      BY <1>1, <2>5 DEF Retry, Set, TypeInv, TypeOK
    <3>2. QED
      BY <1>1, <2>5, <3>1, MachineInvStays DEF Retry, embedder
  <2>6. CASE Reset
    BY <1>3, <2>6 DEF Reset
  <2>7. QED
    BY <1>6, <2>1, <2>2, <2>3, <2>4, <2>5, <2>6 DEF Embedder
<1>7. QED
  BY <1>4, <1>5, <1>6 DEF Next

-----------------------------------------------------------------------------
(* The machine's steps. *)

Status == IF lost THEN "lost" ELSE IF pending # NoPending THEN "torn" ELSE "ready"

LEMMA StateIs ==
  Machine!State = View(Shown) /\ View(Shown).pc = Wrap(Shown.reg[PC] - 2)
BY DEF Machine!State, View, Rec, Low, BytesOf, DataBytes

LEMMA InitMachine == Init => Machine!Init
<1>. SUFFICES ASSUME Init PROVE Machine!Init
  OBVIOUS
<1>1. TypeInv /\ Shown = Now /\ ~lost /\ pending = NoPending
  BY InitTypeInv DEF Init, Shown
<1>2. RegsOK(reg) /\ cpsr \in Flags /\ MemOK(mem)
  BY <1>1, FetchedType
<1>3. [q \in Regs \ {PC} |-> Shown.reg[q]] \in [Machine!Registers \ {Machine!PC} -> Word]
  <2>1. Machine!Registers = Regs /\ Machine!PC = PC
    BY SameWords
  <2>2. QED
    BY <1>1, <1>2, <2>1 DEF Now, RegsOK
<1>4. Wrap(Shown.reg[PC] - 2) \in Word
  <2>1. PICK x \in Int : x = reg[PC]
    BY <1>2, ReadsType
  <2>2. x - 2 \in Int
    OBVIOUS
  <2>3. QED
    BY <1>1, <2>1, <2>2, Parity DEF Now
<1>5. [a \in DataBytes |-> ByteOf(Shown.mem[WordOf(a)], a % 4)] \in [DataBytes -> 0 .. ByteSize - 1]
  <2>1. ASSUME NEW a \in DataBytes PROVE ByteOf(mem[WordOf(a)], a % 4) \in 0 .. ByteSize - 1
    <3>1. PICK k \in 0 .. 3 : k = a % 4 /\ mem[WordOf(a)] \in Word
      BY <1>2, CellsOf DEF MemOK
    <3>2. PICK v \in Word : v = mem[WordOf(a)]
      BY <3>1
    <3>3. PICK B, b0, b1, b2, b3 : /\ B = ByteSize /\ b0 \in 0 .. B - 1 /\ b1 \in 0 .. B - 1
                                   /\ b2 \in 0 .. B - 1 /\ b3 \in 0 .. B - 1
                                   /\ v = FromBytes(b0, b1, b2, b3)
      BY WordHasBytes
    <3>4. ByteOf(v, 0) = b0 /\ ByteOf(v, 1) = b1 /\ ByteOf(v, 2) = b2 /\ ByteOf(v, 3) = b3
      BY <3>3, BytesMakeWord
    <3>5. QED
      BY <3>1, <3>2, <3>3, <3>4
  <2>2. QED
    BY <1>1, <2>1 DEF Now
<1>6. /\ Machine!Word = Word /\ Machine!Flags = Flags /\ Machine!ByteSize = ByteSize
      /\ Machine!DataBytes = DataBytes /\ Machine!SP = SP /\ Machine!LR = LR
  BY SameWords DEF Machine!Word, Word, Machine!Modulus, Modulus, Machine!Flags, Flags
<1>7. QED
  BY <1>1, <1>2, <1>3, <1>4, <1>5, <1>6 DEF Machine!Init, Now, DataBytes

\* A step that does not show.
LEMMA Unseen ==
  ASSUME UNCHANGED <<Shown, Status, program>>
  PROVE  UNCHANGED Machine!vars
BY DEF Machine!vars, Machine!machine, Status

LEMMA SeenInstruction ==
  ASSUME Status \in {"ready", "torn"}, Status' = "ready", View(Shown).pc \in DOMAIN program,
         View(Shown)' \in Machine!Effects(View(Shown), program[View(Shown).pc]), program' = program
  PROVE  Machine!Instruction
<1>1. Machine!State = View(Shown) /\ View(Shown).pc = Wrap(Shown.reg[PC] - 2)
  BY StateIs
<1>2. Machine!State' = View(Shown)'
  BY DEF Machine!State, View, Rec, Low, BytesOf, DataBytes
<1>3. QED
  BY <1>1, <1>2 DEF Machine!Instruction, Status

LEMMA SeenLoss ==
  ASSUME Status' = "lost", program' = program
  PROVE  /\ Status = "torn" => Machine!Lose
         /\ Status = "lost" => Machine!Wander
BY DEF Machine!Lose, Machine!Wander, Status

LEMMA SeenTear ==
  ASSUME Status = "ready", Status' = "torn", UNCHANGED <<Shown, program>>
  PROVE  Machine!Tear
BY DEF Machine!Tear, Machine!machine, Status

\* An instruction that ends.
LEMMA ExecuteSeen ==
  ASSUME MachineInv, NEW abort \in BOOLEAN, NEW hostTraps \in BOOLEAN, Execute(abort, hostTraps)
  PROVE  Machine!Next
<1>1. RepeatInv /\ TypeInv /\ Fetchable /\ program' = program /\ pending' = NoPending
  BY DEF MachineInv, RepeatInv, Execute, embedder
<1>2. PICK i, ok, r, h, out :
        /\ i = program[Here] /\ ok = DataWords \cap mapped /\ r = Advanced /\ h = FALSE
        /\ out = Step(i, r, ok, hostTraps)
  OBVIOUS
<1>3. /\ ~out.fault /\ reg' = out.reg /\ cpsr' = out.cpsr /\ mem' = out.mem
      /\ lost' = (lost \/ Skips \/ (Repeats /\ pending.loses))
  BY <1>2 DEF Execute
<1>4. Here \in DOMAIN program /\ Decoded(i) /\ i.op \in Ops /\ ok \subseteq DataWords
  BY <1>1, <1>2, Fetched DEF Decoded
<1>5. CASE lost'
  <2>1. Status' = "lost" /\ Status \in {"lost", "torn"}
    BY <1>3, <1>5 DEF Status, Skips, Repeats
  <2>2. QED
    BY <1>1, <2>1, SeenLoss DEF Machine!Next
<1>6. CASE ~lost'
  <2>1. Status \in {"ready", "torn"} /\ Status' = "ready"
    BY <1>1, <1>3, <1>6 DEF Status
  <2>2. View(Shown)' = View(out)
    <3>1. Shown' = [reg |-> out.reg, cpsr |-> out.cpsr, mem |-> out.mem]
      BY <1>1, <1>3 DEF Shown, Now
    <3>2. QED
      BY <3>1 DEF View
  <2>3. /\ View(Shown).pc = Here
        /\ View(out) \in Machine!Effects(View(Shown), i)
    <3>1. CASE pending = NoPending
      <4>1. View(Shown) = Before
        BY <3>1 DEF Shown, Before
      <4>2. View(Shown).pc = Here
        BY <1>1, <1>4, <4>1, ReadsAlike
      <4>3. View(out) \in Machine!Effects(Before, i)
        BY <1>1, <1>2, <1>3, <1>4, StepIsInstruction
      <4>4. QED
        BY <4>1, <4>2, <4>3
    <3>2. CASE pending # NoPending
      <4>1. pending.at = Here /\ ~pending.loses
        BY <1>3, <1>6, <3>2 DEF Skips, Repeats
      <4>2. Resumed = r
        BY <1>1, <1>2, <4>1, Fetched DEF Resumed
      <4>3. ~pending.after.fault
        <5>1. ASSUME pending.after.fault PROVE FALSE
          <6>1. CannotEnd(i, r)
            BY <1>2, <3>2, <4>1, <4>2, <5>1 DEF MachineInv
          <6>2. Step(i, r, ok, hostTraps).fault
            BY <1>4, <6>1, MustFault
          <6>3. QED
            BY <1>2, <1>3, <6>2
        <5>2. QED
          BY <5>1
      <4>4. i.op \in Accesses /\ Step(i, r, DataWords, h) = pending.after
        BY <1>1, <1>2, <3>2, <4>1, <4>3, SecondTime
      <4>5. Step(i, r, DataWords, h) = out
        BY <1>2, <1>3, <1>4, <4>4, EndsAlike
      <4>6. Explained(i, pending.before, out) /\ Wrap(pending.before.reg[PC] - 2) = Here
        BY <1>2, <3>2, <4>1, <4>3, <4>4, <4>5 DEF MachineInv
      <4>7. Shown = pending.before
        BY <3>2 DEF Shown
      <4>8. QED
        BY <4>6, <4>7, StateIs DEF Explained
    <3>3. QED
      BY <3>1, <3>2
  <2>4. QED
    BY <1>1, <1>2, <1>4, <2>1, <2>2, <2>3, SeenInstruction DEF Machine!Next
<1>7. QED
  BY <1>5, <1>6

\* An instruction left by an exception.
LEMMA DataFaultSeen ==
  ASSUME MachineInv, RepeatInv', NEW abort \in BOOLEAN, DataFault(abort)
  PROVE  [Machine!Next]_(Machine!vars)
<1>1. RepeatInv /\ TypeInv /\ program' = program /\ lost' = (lost \/ Skips) /\ pending' # NoPending
  <2>1. TypeInv'
    BY DEF RepeatInv
  <2>2. QED
    BY <2>1, DataFaultRepeats DEF MachineInv, RepeatInv, DataFault, embedder
<1>2. pending' = IF Repeats
                 THEN [pending EXCEPT !.loses = @ \/ LosesBase(program[Here],
                         Step(program[Here], Advanced, DataWords \cap mapped, FALSE))]
                 ELSE [at |-> Here,
                       loses |-> LosesBase(program[Here],
                                   Step(program[Here], Advanced, DataWords \cap mapped, FALSE)),
                       before |-> Now,
                       after |-> Step(program[Here], Advanced, DataWords, FALSE)]
  BY DEF DataFault
<1>3. CASE lost'
  <2>1. Status' = "lost" /\ Status \in {"lost", "torn"}
    BY <1>1, <1>3 DEF Status, Skips
  <2>2. QED
    BY <1>1, <2>1, SeenLoss DEF Machine!Next
<1>4. CASE ~lost'
  <2>1. Status' = "torn" /\ ~lost /\ ~Skips
    BY <1>1, <1>4 DEF Status
  <2>2. CASE Repeats
    <3>1. pending # NoPending /\ Status = "torn"
      BY <2>1, <2>2 DEF Repeats, Status
    <3>2. pending'.before = pending.before
      <4>1. pending = [at |-> pending.at, loses |-> pending.loses,
                        before |-> pending.before, after |-> pending.after]
        BY <1>1, <3>1 DEF RepeatInv
      <4>2. QED
        BY <1>2, <2>2, <4>1
    <3>3. Shown' = Shown
      BY <1>1, <3>1, <3>2 DEF Shown
    <3>4. QED
      BY <1>1, <2>1, <3>1, <3>3, Unseen
  <2>3. CASE ~Repeats
    <3>1. pending = NoPending /\ Status = "ready"
      BY <2>1, <2>3 DEF Repeats, Skips, Status
    <3>2. Shown = Now /\ Shown' = Now
      BY <1>1, <1>2, <2>3, <3>1 DEF Shown
    <3>3. QED
      BY <1>1, <2>1, <3>1, <3>2, SeenTear DEF Machine!Next
  <2>4. QED
    BY <2>2, <2>3
<1>5. QED
  BY <1>3, <1>4

\* A reset, with both vectors or with one of them unreadable.
LEMMA ResetSeen ==
  ASSUME TypeInv, Reset
  PROVE  Machine!Next
<1>1. /\ program' = program /\ mem' = mem /\ pending' = NoPending
      /\ cpsr' = [N |-> FALSE, Z |-> FALSE, C |-> FALSE, V |-> FALSE]
      /\ reg' = [q \in Regs |->
                   CASE q = SP /\ 0 \in mapped -> InitialSP
                     [] q = LR /\ 0 \in mapped -> Modulus - 1
                     [] q = PC /\ VectorWords \subseteq mapped -> StartOf(ResetVectors[program])
                     [] OTHER -> reg[q]]
      /\ lost' = (~(VectorWords \subseteq mapped) /\ (lost \/ pending # NoPending))
  BY DEF Reset, embedder
<1>2. Shown' = [reg |-> reg', cpsr |-> cpsr', mem |-> mem']
  BY <1>1 DEF Shown, Now
<1>3. Status = "ready" => Shown = [reg |-> reg, cpsr |-> cpsr, mem |-> mem]
  BY DEF Status, Shown, Now
<1>4. SP \in Regs /\ LR \in Regs /\ PC \in Regs /\ SP # LR /\ SP # PC /\ LR # PC
  BY RegsAreNumbers
<1>5. CASE VectorWords \subseteq mapped
  <2>1. 0 \in mapped /\ Status' = "ready"
    BY <1>1, <1>5 DEF VectorWords, Status
  <2>2. reg'[SP] = InitialSP /\ reg'[LR] = Modulus - 1 /\ reg'[PC] = StartOf(ResetVectors[program])
    BY <1>1, <1>4, <1>5, <2>1
  <2>3. \A q \in GeneralRegs : reg'[q] = reg[q]
    BY <1>1, RegsAreNumbers
  <2>4. Wrap(reg'[PC] - 2) = Machine!StartAt(ResetVectors[program])
    <3>1. PICK v \in Word : v = ResetVectors[program] /\ v \in Int
      BY VectorAssumption, Parity DEF TypeInv
    <3>2. CASE v % 2 = 1
      <4>1. Wrap(v) = v
        BY WrapWord
      <4>2. Wrap(Even(Wrap(Even(v) + 2)) - 2) = Even(v)
        BY <3>1, <4>1, TargetIs
      <4>3. QED
        BY <2>2, <3>1, <3>2, <4>2 DEF StartOf, Even, Machine!StartAt
    <3>3. CASE v % 2 # 1
      BY <2>2, <3>1, <3>3, SameWords DEF StartOf, Machine!StartAt
    <3>4. QED
      BY <3>2, <3>3
  <2>5. Machine!Cleared = [N |-> FALSE, Z |-> FALSE, C |-> FALSE, V |-> FALSE]
    BY DEF Machine!Cleared
  <2>6. GeneralRegs \subseteq Regs \ {PC} /\ SP \in Regs \ {PC} /\ LR \in Regs \ {PC}
    BY RegsAreNumbers
  <2>7. Machine!Modulus = Modulus
    BY DEF Machine!Modulus, Modulus
  <2>8. Machine!Reset
    <3>1. /\ Shown'.cpsr = Machine!Cleared /\ Wrap(Shown'.reg[PC] - 2) = Machine!StartAt(ResetVectors[program])
          /\ Shown'.reg[SP] = InitialSP /\ Shown'.reg[LR] = Machine!Modulus - 1
      BY <1>1, <1>2, <2>2, <2>4, <2>5, <2>7
    <3>2. Status = "ready" => /\ Shown'.mem = Shown.mem
                              /\ \A q \in GeneralRegs : Shown'.reg[q] = Shown.reg[q]
      BY <1>1, <1>2, <1>3, <2>3
    <3>3. Machine!SP = SP /\ Machine!LR = LR
      BY SameWords
    <3>4. QED
      BY <1>1, <2>1, <2>6, <3>1, <3>2, <3>3 DEF Machine!Reset, Status
  <2>9. QED
    BY <2>8 DEF Machine!Next
<1>6. CASE ~(VectorWords \subseteq mapped) /\ lost'
  <2>1. Status' = "lost" /\ Status \in {"lost", "torn"}
    BY <1>1, <1>6 DEF Status
  <2>2. QED
    BY <1>1, <2>1, SeenLoss DEF Machine!Next
<1>7. CASE ~(VectorWords \subseteq mapped) /\ ~lost'
  <2>1. Status = "ready" /\ Status' = "ready"
    BY <1>1, <1>7 DEF Status
  <2>2. Machine!Cleared = [N |-> FALSE, Z |-> FALSE, C |-> FALSE, V |-> FALSE]
    BY DEF Machine!Cleared
  <2>3. reg'[PC] = reg[PC]
    BY <1>1, <1>4, <1>7
  <2>4. PICK a, b : a = Low(reg) /\ b = Low(reg')
    OBVIOUS
  <2>5. b \in {a, [a EXCEPT ![SP] = InitialSP, ![LR] = Modulus - 1]}
    <3>1. CASE 0 \in mapped
      <4>1. \A q \in Regs \ {PC} : reg'[q] = IF q = LR THEN Modulus - 1 ELSE IF q = SP THEN InitialSP ELSE reg[q]
        BY <1>1, <1>4, <3>1
      <4>2. QED
        BY <1>4, <2>4, <4>1 DEF Low
    <3>2. CASE 0 \notin mapped
      <4>1. \A q \in Regs \ {PC} : reg'[q] = reg[q]
        BY <1>1, <3>2
      <4>2. QED
        BY <2>4, <4>1 DEF Low
    <3>3. QED
      BY <3>1, <3>2
  <2>6. Machine!Modulus = Modulus
    BY DEF Machine!Modulus, Modulus
  <2>7. Machine!HalfReset
    <3>1. Shown'.cpsr = Machine!Cleared /\ Shown'.reg[PC] = Shown.reg[PC] /\ Shown'.mem = Shown.mem
      BY <1>1, <1>2, <1>3, <2>1, <2>2, <2>3
    <3>2. a = [q \in Regs \ {PC} |-> Shown.reg[q]] /\ b = [q \in Regs \ {PC} |-> Shown'.reg[q]]
      BY <1>2, <1>3, <2>1, <2>4 DEF Low
    <3>3. Machine!SP = SP /\ Machine!LR = LR
      BY SameWords
    <3>4. QED
      BY <1>1, <2>1, <2>5, <2>6, <3>1, <3>2, <3>3 DEF Machine!HalfReset, Status
  <2>8. QED
    BY <2>7 DEF Machine!Next
<1>8. QED
  BY <1>5, <1>6, <1>7

LEMMA StepMachine == MachineInv /\ MachineInv' /\ [Next]_vars => [Machine!Next]_(Machine!vars)
<1>. SUFFICES ASSUME MachineInv, MachineInv', [Next]_vars PROVE [Machine!Next]_(Machine!vars)
  OBVIOUS
<1>1. RepeatInv /\ TypeInv /\ RepeatInv'
  BY DEF MachineInv, RepeatInv
<1>2. ASSUME UNCHANGED <<core, program, pending, lost>> PROVE UNCHANGED Machine!vars
  BY <1>2, Unseen DEF core, Shown, Now, Status
<1>3. CASE UNCHANGED vars
  BY <1>2, <1>3 DEF vars, embedder
<1>4. CASE Interpreter
  <2>1. CASE StopTrap
    BY <1>2, <2>1 DEF StopTrap, embedder
  <2>2. ASSUME NEW abort \in BOOLEAN, FetchTrap(abort) PROVE UNCHANGED Machine!vars
    BY <1>2, <2>2 DEF FetchTrap, embedder
  <2>3. ASSUME NEW abort \in BOOLEAN, FetchFault(abort) PROVE UNCHANGED Machine!vars
    BY <1>2, <2>3 DEF FetchFault, embedder
  <2>4. ASSUME NEW abort \in BOOLEAN, DataFault(abort) PROVE [Machine!Next]_(Machine!vars)
    BY <1>1, <2>4, DataFaultSeen
  <2>5. ASSUME NEW abort \in BOOLEAN, NEW hostTraps \in BOOLEAN, Execute(abort, hostTraps)
        PROVE  Machine!Next
    BY <2>5, ExecuteSeen
  <2>6. QED
    BY <1>4, <2>1, <2>2, <2>3, <2>4, <2>5 DEF Interpreter
<1>5. CASE Embedder
  <2>1. ASSUME NEW n \in 0 .. MaxRun, Run(n) PROVE UNCHANGED Machine!vars
    BY <1>2, <2>1 DEF Run, embedder
  <2>2. CASE AbortRun
    BY <1>2, <2>2 DEF AbortRun, embedder
  <2>3. ASSUME NEW a \in StopAddresses, SetStopAddress(a) PROVE UNCHANGED Machine!vars
    BY <1>2, <2>3 DEF SetStopAddress
  <2>4. ASSUME NEW a \in UNION Holes, MapWord(a) PROVE UNCHANGED Machine!vars
    BY <1>2, <2>4 DEF MapWord
  <2>5. CASE Retry
    BY <2>5, Unseen DEF Retry, Shown, Status, embedder
  <2>6. CASE Reset
    BY <1>1, <2>6, ResetSeen
  <2>7. QED
    BY <1>5, <2>1, <2>2, <2>3, <2>4, <2>5, <2>6 DEF Embedder
<1>6. QED
  BY <1>3, <1>4, <1>5 DEF Next

\* The interpreter implements a machine that executes whole instructions in order on
\* bytes of memory: no slice, stop, abort, trap, exception or repetition shows, unless
\* an instruction left by an exception is skipped or loses its base.
THEOREM MachineImplemented == Spec => MachineSpec
<1>1. Spec => []MachineInv
  BY InitMachineInv, StepMachineInv, PTL DEF Spec
<1>2. QED
  BY <1>1, InitMachine, StepMachine, PTL DEF Spec, MachineSpec, Machine!Spec
=============================================================================
