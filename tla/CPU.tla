--------------------------------- MODULE CPU ---------------------------------
(***************************************************************************)
(* The Thumb interpreter (thumbulator/thumbulator.c) as the embedder sees  *)
(* it: reset, run, abort_run, set_stop_address and write_register on one   *)
(* side, the bus hooks and trap hooks that an instruction calls on the     *)
(* other.  A bus hook may throw; the exception leaves the instruction, and *)
(* run, wherever they are.  The embedder may then map what was missing and *)
(* set the program counter back, or just call run again.                   *)
(*                                                                         *)
(* Everything is one thread, so an instruction is one step.  Its accesses  *)
(* are kept in order, since any of them may be the one that throws.        *)
(* Register 15 holds the address of the next instruction plus 2.           *)
(***************************************************************************)
EXTENDS ThumbBytes, Sequences, FiniteSets

CONSTANTS LowRegs, HighRegs,        \* of r0 .. r7 and of r8 .. r12, those the programs use
          Programs,                 \* code, as instructions by address
          DataWords,                \* word addresses of the RAM
          InitialSP, ResetVectors,  \* the words at 0 and, for each program, at 4
          Holes,                    \* sets of word addresses nothing answers at first
          StopAddresses,            \* arguments of set_stop_address
          FetchTraps,               \* addresses where trapOnInstructionFetch may trap
          MaxRun                    \* bound: argument of run

SP == 13
LR == 14
PC == 15
GeneralRegs == LowRegs \cup HighRegs
Regs == GeneralRegs \cup {SP, LR, PC}

WordOf(a) == 4 * (a \div 4)
VectorWords == {0, 4}

NarrowLoads == {"ldrb", "ldrsb", "ldrh", "ldrsh"}
NarrowStores == {"strb", "strh"}
Ops == {"alu", "unary", "mov", "addhigh", "address", "addsp", "ldr", "str", "ldm", "stm",
        "pop", "push", "branch", "jump", "bl1", "bl2", "blx1", "blx", "bx", "bkpt", "swi",
        "swi_flags", "nop", "undefined"} \cup NarrowLoads \cup NarrowStores

\* The fields that each case of execute takes from an instruction: the registers, low
\* ones but in MOV(3), ADD(4), CMP(3), BLX(2) and BX, a second operand that is a
\* register or an immediate, and the lists of the block transfers.  ADD(1) of zero
\* is MOV(2).
Decoded(i) ==
  /\ i.op \in Ops
  /\ i.op = "alu" => /\ i.fn \in LogicOps \cup ArithmeticOps \cup ShiftOps
                     /\ i.fn \notin CompareOps => i.rd \in LowRegs
                     /\ i.rn \in LowRegs \/ (i.fn = "cmp" /\ i.rn \in Regs)
                     /\ \/ i.rm \in LowRegs \/ (i.fn = "cmp" /\ i.rm \in Regs)
                        \/ i.fn # "ror" /\ i.imm \in IF i.fn \in ShiftOps THEN BitPositions ELSE Word
  /\ i.op = "unary" => i.fn \in UnaryOps /\ i.rd \in LowRegs /\ i.rm \in LowRegs
  /\ i.op \in {"mov", "addhigh"} => i.rd \in Regs /\ i.rm \in Regs
  /\ i.op \in {"address", "addsp", "branch", "jump", "bl1", "bl2", "blx1"} => i.imm \in Int
  /\ i.op = "address" => i.rd \in LowRegs /\ i.rn \in {SP, PC}
  /\ i.op \in {"ldr", "str"} \cup NarrowLoads \cup NarrowStores =>
       i.rd \in LowRegs /\ i.rn \in LowRegs \cup {SP, PC} /\ (i.rm \in LowRegs \/ i.imm \in Int)
  /\ i.op \in {"ldm", "stm"} => i.rn \in LowRegs /\ i.list \subseteq LowRegs
  /\ i.op = "pop" => i.list \subseteq LowRegs \cup {PC}
  /\ i.op = "push" => i.list \subseteq LowRegs \cup {LR}
  /\ i.op = "branch" => i.cond \in Conditions
  /\ i.op \in {"blx", "bx"} => i.rm \in Regs
  /\ i.op = "swi_flags" => 0 \in LowRegs

ASSUME RegsAssumption == LowRegs \subseteq 0 .. 7 /\ HighRegs \subseteq 8 .. 12
ASSUME ProgramsAssumption == \A code \in Programs : \A a \in DOMAIN code : Decoded(code[a])
ASSUME AddressAssumption ==
  /\ \A w \in DataWords : w \in Word /\ w % 4 = 0
  /\ Half % 2 = 0
  /\ \A code \in Programs : \A a \in DOMAIN code : a \in Word /\ a % 2 = 0
ASSUME VectorAssumption == InitialSP \in Word /\ ResetVectors \in [Programs -> Word]
ASSUME BoundAssumption == MaxRun \in Nat /\ StopAddresses \subseteq Word

VARIABLES reg, cpsr,                \* reg_norm, and the flags in cpsr
          mem, mapped,              \* external: the RAM, and what answers on the bus
          program,                  \* external: the code
          trap_flag, stop_address,
          running, left, result,    \* in run: its loop; what it returned last
          asked, ran, budget,       \* history of the run: was an abort asked for from
                                    \* a hook, instructions completed (to
                                    \* MaxRun + 1 at most), its argument
          pending,                  \* history: the instruction left by an exception
          calls,                    \* history: return addresses of calls in progress
          lost                      \* history: an instruction left by an exception
                                    \* was lost, or repeated without its base

core == <<reg, cpsr, mem>>
embedder == <<mapped, program, stop_address>>
runState == <<trap_flag, running, left, result, asked, ran, budget>>
vars == <<core, embedder, runState, pending, calls, lost>>

NoPending == [at |-> 1, loses |-> FALSE, before |-> <<>>, after |-> <<>>]

Init == /\ reg = [r \in Regs |-> 0]
        /\ cpsr = [N |-> FALSE, Z |-> FALSE, C |-> FALSE, V |-> FALSE]
        /\ mem = [a \in DataWords |-> 0]
        /\ program \in Programs
        /\ \E missing \in Holes :
             mapped = ({WordOf(a) : a \in DOMAIN program} \cup DataWords \cup VectorWords)
                         \ missing
        /\ trap_flag = FALSE /\ stop_address = 0
        /\ running = FALSE /\ left = 0 /\ result = "none"
        /\ asked = FALSE /\ ran = 0 /\ budget = 0
        /\ pending = NoPending /\ calls = <<>> /\ lost = FALSE

-----------------------------------------------------------------------------
(* Instructions: what each does to registers r, in which the program       *)
(* counter has been advanced already, flags and memory, when the words `ok`*)
(* of RAM answer.                                                          *)

Wrap(x) == x % Modulus
Even(x) == x - (x % 2)

Set_KeepsBit0(r, d, x) == [r EXCEPT ![d] = Wrap(x)]
Set(r, d, x) == [r EXCEPT ![d] = IF d = PC THEN Even(Wrap(x)) ELSE Wrap(x)]

Outcome(r, f, m, trap) == [reg |-> r, cpsr |-> f, mem |-> m, trap |-> trap, fault |-> FALSE]
Writes(r) == Outcome(r, cpsr, mem, "no_trap")
Traps(r, trap) == Outcome(r, cpsr, mem, trap)
Faults(r, m) == [Outcome(r, cpsr, m, "no_trap") EXCEPT !.fault = TRUE]

\* The second operand, or the offset of an address: a register or an immediate.
Operand(i, r) == IF i.rm \in Regs THEN r[i.rm] ELSE i.imm

AluOperand(i, r) ==
  IF i.fn \in ShiftOps /\ i.rm \notin Regs THEN ImmediateAmount(i.fn, i.imm) ELSE Operand(i, r)
AluStep(i, r) ==
  LET out == Alu(i.fn, r[i.rn], AluOperand(i, r), cpsr)
  IN  Outcome(IF i.fn \in CompareOps THEN r ELSE Set(r, i.rd, out.r), out.f, mem, "no_trap")

\* A move to the program counter clears bit 0 and skips the 2 ahead of it.
MovStep(i, r) == Writes(Set(r, i.rd, IF i.rd = PC THEN Even(r[i.rm]) + 2 ELSE r[i.rm]))

UnaryStep(i, r) == Writes(Set(r, i.rd, Unary(i.fn, r[i.rm])))

\* ADD(4): a sum that is an even program counter ends the program (exit), which
\* leaves run like an exception.
AddHighStep(i, r) ==
  LET sum == Wrap(r[i.rd] + r[i.rm])
  IN  IF i.rd = PC /\ sum % 2 = 0 THEN Faults(r, mem)
      ELSE Writes(Set(r, i.rd, IF i.rd = PC THEN Even(sum) + 2 ELSE sum))

\* ADD(5) and ADD(6): an address relative to the program counter or the stack.
AddressStep(i, r) ==
  Writes(Set(r, i.rd, (IF i.rn = PC THEN WordOf(r[PC]) ELSE r[SP]) + i.imm))

\* SWI 0xCC gives the guest its flags, in the four top bits.
FlagsWord(f) ==
  Half * AsBit(f.N) + (Half \div 2) * AsBit(f.Z)
     + (Half \div 4) * AsBit(f.C) + (Half \div 8) * AsBit(f.V)
SwiFlagsStep(r) == Writes(Set(r, 0, FlagsWord(cpsr)))

AddSPStep(i, r) == Writes(Set(r, SP, r[SP] + i.imm))

\* A literal load has the program counter for its base.
Address(i, r) == Wrap(r[i.rn] + Operand(i, r))

LdrStep(i, r, ok) ==
  LET a == WordOf(Address(i, r))
  IN  IF a \in ok THEN Writes(Set(r, i.rd, mem[a])) ELSE Faults(r, mem)

StrStep(i, r, ok) ==
  LET a == WordOf(Address(i, r))
  IN  IF a \in ok THEN Outcome(r, cpsr, [mem EXCEPT ![a] = r[i.rd]], "no_trap")
      ELSE Faults(r, mem)

\* Bytes and halfwords go through the 16-bit accesses of the bus; STRB reads the
\* halfword around its byte and writes it back.
NarrowLoadStep(i, r, ok) ==
  LET a == Address(i, r)
      w == WordOf(a)
  IN  IF w \in ok THEN Writes(Set(r, i.rd, Narrow(i.op, ReadHalf(mem[w], a), a)))
      ELSE Faults(r, mem)

NarrowStoreStep(i, r, ok) ==
  LET a == Address(i, r)
      w == WordOf(a)
      half == IF i.op = "strb" THEN MergeByte(ReadHalf(mem[w], a), a, r[i.rd])
              ELSE r[i.rd] % HalfwordSize
  IN  IF w \in ok THEN Outcome(r, cpsr, [mem EXCEPT ![w] = WriteHalf(mem[w], a, half)], "no_trap")
      ELSE Faults(r, mem)

\* Block transfers go through the list from the lowest register up, one word each
\* from address `base` on, and stop at the first word that does not answer.
Slot(list, q, base) == WordOf(Wrap(base + 4 * Cardinality({p \in list : p < q})))
Reached(list, base, ok) ==
  {q \in list : \A p \in list : p <= q => Slot(list, p, base) \in ok}

Loaded(r, list, base, reached) ==
  [q \in Regs |-> IF q \notin reached THEN r[q]
                  ELSE IF q = PC THEN Wrap(Even(mem[Slot(list, q, base)]) + 2)
                  ELSE mem[Slot(list, q, base)]]
Stored(r, list, base, reached) ==
  [a \in DataWords |->
     IF \E q \in reached : Slot(list, q, base) = a
     THEN r[CHOOSE q \in reached : Slot(list, q, base) = a] ELSE mem[a]]

\* LDMIA does not write back a base that it loads.
LdmStep(i, r, ok) ==
  LET base == r[i.rn]
      reached == Reached(i.list, base, ok)
      loaded == Loaded(r, i.list, base, reached)
  IN  IF reached # i.list THEN Faults(loaded, mem)
      ELSE Writes(IF i.rn \in i.list THEN loaded
                  ELSE Set(loaded, i.rn, base + 4 * Cardinality(i.list)))

PopStep_MovesSPFirst(i, r, ok) ==
  LET reached == Reached(i.list, r[SP], ok)
      moved == Set(Loaded(r, i.list, r[SP], reached), SP, r[SP] + 4 * Cardinality(i.list))
  IN  IF reached # i.list THEN Faults(moved, mem) ELSE Writes(moved)
PopStep(i, r, ok) ==
  LET reached == Reached(i.list, r[SP], ok)
      loaded == Loaded(r, i.list, r[SP], reached)
  IN  IF reached # i.list THEN Faults(loaded, mem)
      ELSE Writes(Set(loaded, SP, r[SP] + 4 * Cardinality(i.list)))

StoreBlock(r, list, base, base_after, n, ok) ==
  LET reached == Reached(list, base, ok)
      stored == Stored(r, list, base, reached)
  IN  IF reached # list THEN Faults(r, stored)
      ELSE Outcome(Set(r, n, base_after), cpsr, stored, "no_trap")

StmStep(i, r, ok) ==
  StoreBlock(r, i.list, r[i.rn], r[i.rn] + 4 * Cardinality(i.list), i.rn, ok)
PushStep(i, r, ok) ==
  LET base == Wrap(r[SP] - 4 * Cardinality(i.list))
  IN  StoreBlock(r, i.list, base, base, SP, ok)

BranchStep(i, r) ==
  Writes(IF Holds(i.cond, cpsr) THEN Set(r, PC, r[PC] + i.imm + 2) ELSE r)

JumpStep(i, r) == Writes(Set(r, PC, r[PC] + i.imm + 2))

\* BL is a pair of instructions: the first leaves half of the target in LR.
Bl1Step(i, r) == Writes(Set(r, LR, r[PC] + i.imm))
ReturnLink(r) == Even(Wrap(r[PC] - 2)) + 1
Bl2Step_LinksHere(i, r) ==
  Writes(Set(Set(r, LR, r[PC] + 1), PC, r[LR] + i.imm + 2))
Bl2Step(i, r) ==
  Writes(Set(Set(r, LR, ReturnLink(r)), PC, r[LR] + i.imm + 2))
\* The suffix of BLX(1): it stays in Thumb state, at the word of the target.
Blx1Step(i, r) ==
  Writes(Set(Set(r, LR, ReturnLink(r)), PC, WordOf(Wrap(r[LR] + i.imm)) + 2))

BlxStep(i, r) ==
  LET target == Wrap(r[i.rm] + 2)
  IN  IF target % 2 = 1 THEN Writes(Set(Set(r, LR, ReturnLink(r)), PC, target))
      ELSE Traps(r, "blx_leave_thumb")

\* A branch to an ARM address is the host's: it traps, or returns to LR.
BxStep(i, r, hostTraps) ==
  LET target == Wrap(r[i.rm] + 2)
  IN  IF target % 2 = 1 THEN Writes(Set(r, PC, target))
      ELSE IF hostTraps THEN Traps(r, "bx_leave_thumb")
      ELSE Writes(Set(r, PC, r[LR] + 2))

\* An instruction that is not implemented returns 1, like BKPT and SWI.
Step(i, r, ok, hostTraps) ==
  CASE i.op = "alu" -> AluStep(i, r)
    [] i.op = "unary" -> UnaryStep(i, r)
    [] i.op = "mov" -> MovStep(i, r)
    [] i.op = "addhigh" -> AddHighStep(i, r)
    [] i.op = "address" -> AddressStep(i, r)
    [] i.op = "swi_flags" -> SwiFlagsStep(r)
    [] i.op = "nop" -> Writes(r)
    [] i.op = "addsp" -> AddSPStep(i, r)
    [] i.op = "ldr" -> LdrStep(i, r, ok)
    [] i.op = "str" -> StrStep(i, r, ok)
    [] i.op \in NarrowLoads -> NarrowLoadStep(i, r, ok)
    [] i.op \in NarrowStores -> NarrowStoreStep(i, r, ok)
    [] i.op = "ldm" -> LdmStep(i, r, ok)
    [] i.op = "stm" -> StmStep(i, r, ok)
    [] i.op = "pop" -> PopStep(i, r, ok)
    [] i.op = "push" -> PushStep(i, r, ok)
    [] i.op = "branch" -> BranchStep(i, r)
    [] i.op = "jump" -> JumpStep(i, r)
    [] i.op = "bl1" -> Bl1Step(i, r)
    [] i.op = "bl2" -> Bl2Step(i, r)
    [] i.op = "blx1" -> Blx1Step(i, r)
    [] i.op = "blx" -> BlxStep(i, r)
    [] i.op = "bx" -> BxStep(i, r, hostTraps)
    [] i.op \in {"bkpt", "swi", "undefined"} -> Traps(r, "breakpoint")

-----------------------------------------------------------------------------
(* The loop of run.  Each way that execute can go says whether a hook it   *)
(* called asked for an abort.                                              *)

Here == Wrap(reg[PC] - 2)                     \* the instruction to execute
Executing == running /\ left > 0

\* run's loop after execute has returned `trap`: an abort comes before a trap.
AfterExecute_NoCount(trap, abort) ==
  /\ trap_flag' = (trap_flag \/ abort)
  /\ asked' = (asked \/ abort)
  /\ LET ended == CASE trap_flag' -> "abort"
                    [] ~trap_flag' /\ trap # "no_trap" -> trap
                    [] ~trap_flag' /\ trap = "no_trap" -> "none"
     IN  /\ result' = ended
         /\ running' = (ended = "none")
         /\ left' = IF ended = "none" THEN left ELSE 0
  /\ UNCHANGED budget
AfterExecute(trap, abort) ==
  /\ trap_flag' = (trap_flag \/ abort)
  /\ asked' = (asked \/ abort)
  /\ LET ended == CASE trap_flag' -> "abort"
                    [] ~trap_flag' /\ trap # "no_trap" -> trap
                    [] ~trap_flag' /\ trap = "no_trap" -> IF left = 1 THEN "no_trap" ELSE "none"
     IN  /\ result' = ended
         /\ running' = (ended = "none")
         /\ left' = IF ended = "none" THEN left - 1 ELSE 0
  /\ UNCHANGED budget

\* An exception unwinds run.
Unwind(abort) ==
  /\ trap_flag' = (trap_flag \/ abort)
  /\ asked' = (asked \/ abort)
  /\ result' = "exception" /\ running' = FALSE /\ left' = 0
  /\ UNCHANGED <<ran, budget>>

\* With a stop address set no hook is called before the fetch.
StopTrap ==
  /\ Executing
  /\ stop_address # 0 /\ Here = stop_address
  /\ AfterExecute("stop", FALSE)
  /\ UNCHANGED <<core, embedder, ran, pending, calls, lost>>

FetchTrap(abort) ==
  /\ Executing
  /\ stop_address = 0 /\ Here \in FetchTraps
  /\ AfterExecute("fetch_trap", abort)
  /\ UNCHANGED <<core, embedder, ran, pending, calls, lost>>

Fetchable == Here \in DOMAIN program /\ WordOf(Here) \in mapped
NotStopped == stop_address = 0 \/ Here # stop_address

\* fetch16 throws before the program counter has moved.
FetchFault(abort) ==
  /\ Executing /\ NotStopped /\ ~Fetchable
  /\ Unwind(abort)
  /\ UNCHANGED <<core, embedder, pending, calls, lost>>

Advanced == Set(reg, PC, reg[PC] + 2)

\* History.
Now == [reg |-> reg, cpsr |-> cpsr, mem |-> mem]
IsCall(i) == i.op \in {"bl2", "blx1", "blx"}
IsReturn(i) == (i.op = "pop" /\ PC \in i.list) \/ i.op = "bx"
LosesBase(i, out) == i.op = "ldm" /\ out.reg[i.rn] # reg[i.rn]
Repeats == pending # NoPending /\ pending.at = Here
Skips == pending # NoPending /\ pending.at # Here
CallsAfter(i, out) ==
  IF lost' THEN <<>>
  ELSE IF out.trap # "no_trap" THEN calls
  ELSE IF IsCall(i) THEN Append(calls, Wrap(Here + 2))
  ELSE IF IsReturn(i) /\ calls # <<>> THEN SubSeq(calls, 1, Len(calls) - 1)
  ELSE calls

Execute(abort, hostTraps) ==
  /\ Executing /\ NotStopped /\ Fetchable
  /\ LET i == program[Here]
         out == Step(i, Advanced, DataWords \cap mapped, hostTraps)
     IN  /\ ~out.fault
         /\ reg' = out.reg /\ cpsr' = out.cpsr /\ mem' = out.mem
         /\ AfterExecute(out.trap, abort)
         /\ lost' = (lost \/ Skips \/ (Repeats /\ pending.loses))
         /\ calls' = CallsAfter(i, out)
  /\ ran' = IF ran > MaxRun THEN ran ELSE ran + 1
  /\ pending' = NoPending
  /\ UNCHANGED embedder

\* A data access throws: what the instruction did before it stays done.
DataFault(abort) ==
  /\ Executing /\ NotStopped /\ Fetchable
  /\ LET i == program[Here]
         out == Step(i, Advanced, DataWords \cap mapped, FALSE)
     IN  /\ out.fault
         /\ reg' = out.reg /\ cpsr' = out.cpsr /\ mem' = out.mem
         /\ pending' = IF Repeats
                       THEN [pending EXCEPT !.loses = @ \/ LosesBase(i, out)]
                       ELSE [at |-> Here, loses |-> LosesBase(i, out), before |-> Now,
                             after |-> Step(i, Advanced, DataWords, FALSE)]
  /\ Unwind(abort)
  /\ lost' = (lost \/ Skips)
  /\ calls' = IF lost' THEN <<>> ELSE calls
  /\ UNCHANGED embedder

-----------------------------------------------------------------------------
(* The embedder, between two calls of run. *)

Run_KeepsFlag(n) ==
  /\ ~running
  /\ running' = (n > 0) /\ left' = n /\ result' = IF n > 0 THEN "none" ELSE "no_trap"
  /\ asked' = FALSE /\ ran' = 0 /\ budget' = n
  /\ UNCHANGED <<core, embedder, trap_flag, pending, calls, lost>>
Run(n) ==
  /\ ~running
  /\ trap_flag' = FALSE
  /\ running' = (n > 0) /\ left' = n /\ result' = IF n > 0 THEN "none" ELSE "no_trap"
  /\ asked' = FALSE /\ ran' = 0 /\ budget' = n
  /\ UNCHANGED <<core, embedder, pending, calls, lost>>

AbortRun ==
  /\ ~running
  /\ trap_flag' = TRUE
  /\ UNCHANGED <<core, embedder, running, left, result, asked, ran, budget,
                 pending, calls, lost>>

SetStopAddress(a) ==
  /\ ~running
  /\ stop_address' = a
  /\ UNCHANGED <<core, mapped, program, runState, pending, calls, lost>>

MapWord(a) ==
  /\ ~running
  /\ mapped' = mapped \cup {a}
  /\ UNCHANGED <<core, program, stop_address, runState, pending, calls, lost>>

\* write_register(15, read_register(15) - 2), after a data access has thrown.
Retry ==
  /\ ~running
  /\ pending # NoPending /\ reg[PC] = Wrap(pending.at + 4)
  /\ reg' = Set(reg, PC, reg[PC] - 2)
  /\ UNCHANGED <<cpsr, mem, embedder, runState, pending, calls, lost>>

\* reset, which a vector word that does not answer leaves half done.  A reset vector
\* that is an ARM address ends the program (exit) before the program counter is
\* moved 2 ahead.
StartOf(vector) == IF vector % 2 = 1 THEN Even(Wrap(Even(vector) + 2)) ELSE vector
Reset ==
  /\ ~running
  /\ cpsr' = [N |-> FALSE, Z |-> FALSE, C |-> FALSE, V |-> FALSE]
  /\ reg' = [q \in Regs |->
               CASE q = SP /\ 0 \in mapped -> InitialSP
                 [] q = LR /\ 0 \in mapped -> Modulus - 1
                 [] q = PC /\ VectorWords \subseteq mapped -> StartOf(ResetVectors[program])
                 [] OTHER -> reg[q]]
  /\ pending' = NoPending /\ calls' = <<>>
  /\ lost' = (~(VectorWords \subseteq mapped) /\ (lost \/ pending # NoPending))
  /\ UNCHANGED <<mem, embedder, runState>>

-----------------------------------------------------------------------------
(* Specification. *)

Interpreter ==
  \/ StopTrap
  \/ \E abort \in BOOLEAN : FetchTrap(abort) \/ FetchFault(abort) \/ DataFault(abort)
  \/ \E abort, hostTraps \in BOOLEAN : Execute(abort, hostTraps)

Embedder ==
  \/ \E n \in 0 .. MaxRun : Run(n)
  \/ AbortRun
  \/ \E a \in StopAddresses : SetStopAddress(a)
  \/ \E a \in UNION Holes : MapWord(a)
  \/ Retry
  \/ Reset

Next == Interpreter \/ Embedder

Spec == Init /\ [][Next]_vars /\ WF_vars(Interpreter)

-----------------------------------------------------------------------------
(* Properties. *)

\* Type invariant: in particular the program counter is even, whatever was popped,
\* moved or branched to.
TypeOK ==
  /\ reg \in [Regs -> Word] /\ reg[PC] % 2 = 0
  /\ cpsr \in Flags
  /\ mem \in [DataWords -> Word]
  /\ trap_flag \in BOOLEAN /\ running \in BOOLEAN
  /\ left \in 0 .. MaxRun /\ stop_address \in StopAddresses \cup {0}
  /\ running => left > 0

\* What run returns: trap_no_trap only when all the instructions asked for were
\* executed, trap_abort exactly if a hook called by this very run asked for it and
\* no exception intervened; an abort asked for between two runs is never seen.
RunReports ==
  /\ running => result = "none" /\ ran + left = budget /\ ~asked
  /\ result = "no_trap" => ran = budget /\ ~asked
  /\ result = "abort" => asked
  /\ asked => result \in {"abort", "exception"}

\* An instruction that an exception left half done can be repeated: once the
\* missing words are mapped and the program counter set back, it does not fault again
\* and ends as if it had never been interrupted, with the sole exception of a load
\* multiple that replaces its own base.
RepeatIsTransparent ==
  [][running /\ pending # NoPending /\ pending.at = Here
     /\ ~pending.loses /\ ~pending.after.fault
       => /\ pending' = NoPending => /\ reg' = pending.after.reg
                                     /\ cpsr' = pending.after.cpsr
                                     /\ mem' = pending.after.mem
          /\ DataWords \subseteq mapped => result' # "exception"]_vars

\* Calls return: unless a faulted instruction was lost, a return goes to the
\* instruction after its call, whatever runs, stops, aborts, traps and exceptions
\* come between the halves of the call or between call and return.
CallsReturn ==
  [][running /\ Len(calls') < Len(calls) /\ ~lost'
       => reg'[PC] = Wrap(calls[Len(calls)] + 2)]_vars

\* To the guest the interpreter is a machine that executes whole instructions in
\* order on bytes of memory: no slice, stop, abort, trap or exception between two
\* instructions or in the middle of one shows, unless a faulted instruction is skipped.
Shown == IF pending # NoPending THEN pending.before ELSE Now
Machine == INSTANCE ThumbMachine
             WITH regs <- [q \in Regs \ {PC} |-> Shown.reg[q]],
                  pc <- Wrap(Shown.reg[PC] - 2),
                  flags <- Shown.cpsr,
                  bytes <- [a \in {w + k : w \in DataWords, k \in 0 .. 3} |->
                              ByteOf(Shown.mem[WordOf(a)], a % 4)],
                  code <- program,
                  status <- IF lost THEN "lost" ELSE IF pending # NoPending THEN "torn"
                            ELSE "ready"
MachineSpec == Machine!Spec

\* Every call of run returns.
RunReturns == running ~> ~running
=============================================================================
