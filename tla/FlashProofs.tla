----------------------------- MODULE FlashProofs -----------------------------
(***************************************************************************)
(* Proofs about Flash, for every size, page size, word and initial data,   *)
(* and about FlashExample, for every region, pattern and state that the    *)
(* programmer was left in.                                                 *)
(***************************************************************************)
EXTENDS FlashExample, FiniteSetTheorems, TLAPS

(* BurstLands speaks of offsets computed from `base`; it is inductive once *)
(* the programmer's own offset is known to be the next one of the burst.   *)
IInv == /\ TypeOK
        /\ currentOffset = base + 4 * Len(burst)
        /\ BurstLands

-----------------------------------------------------------------------------
(* Type correctness. *)

\* The flash starts as its initial data followed by erased words.
LEMMA InitTypeOK == Init => TypeOK
<1>. SUFFICES ASSUME Init PROVE TypeOK
  OBVIOUS
<1>1. PICK data \in Images :
        buffer = [w \in Index |-> IF w < Len(data) THEN data[w + 1] ELSE Ones]
  BY DEF Init
<1>2. ASSUME NEW w \in Index, w < Len(data) PROVE data[w + 1] \in Word
  BY <1>2, ImagesAssumption, SizeAssumption DEF Index
<1>3. buffer \in [Index -> Word]
  BY <1>1, <1>2 DEF Word, Ones
<1>4. QED
  BY <1>3, OffsetsAssumption DEF Init, TypeOK

\* Every register write preserves the type invariant.
LEMMA StepTypeOK == TypeOK /\ [Next]_vars => TypeOK'
<1>. SUFFICES ASSUME TypeOK, [Next]_vars PROVE TypeOK'
  OBVIOUS
<1>1. ASSUME NEW c \in SUBSET {WriteEnable, AutoIncrement}, WriteControl(c)
      PROVE  TypeOK'
  BY <1>1 DEF WriteControl, TypeOK
<1>2. ASSUME NEW off \in Offsets, WriteOffset(off) PROVE TypeOK'
  BY <1>2, OffsetsAssumption DEF WriteOffset, TypeOK
<1>3. ASSUME NEW value \in Word, WriteValue(value) PROVE TypeOK'
  <2>1. buffer' \in [Index -> Word]
    BY <1>3 DEF WriteValue, StoreWord, Programmed, TypeOK, Word
  <2>2. currentOffset' \in 0 .. MaxOffset /\ burst' \in Seq(Word)
    BY SMTT(30), <1>3, OffsetsAssumption DEF WriteValue, NextOffset, TypeOK
  <2>3. QED
    BY <1>3, <2>1, <2>2 DEF WriteValue, TypeOK
<1>4. ASSUME NEW page \in Pages, ErasePage(page) PROVE TypeOK'
  BY <1>4, BitsAssumption DEF ErasePage, TypeOK, Word
<1>5. CASE UNCHANGED vars
  BY <1>5 DEF vars, TypeOK
<1>6. QED
  BY <1>1, <1>2, <1>3, <1>4, <1>5 DEF Next, WriteThrows

\* The buffer keeps its shape and the programmer's offset stays a number.
THEOREM TypeCorrect == Spec => []TypeOK
BY InitTypeOK, StepTypeOK, PTL DEF Spec

-----------------------------------------------------------------------------
(* Programming and erasing. *)

\* Programming a value clears bits of readable words and sets none.
LEMMA ProgramOnlyClears ==
  ASSUME TypeOK, NEW value \in Word, WriteValue(value),
         NEW w \in Index, 4 * w < size
  PROVE  buffer'[w] \subseteq buffer[w]
<1>1. CASE 4 * w = currentOffset
  <2>1. currentOffset \div 4 = w /\ currentOffset < size
    BY <1>1, SizeAssumption DEF Index
  <2>2. buffer'[w] = buffer[w] \cap value
    BY <1>1, <2>1, SizeAssumption
       DEF WriteValue, StoreWord, Programmed, FlashRead, TypeOK
  <2>3. QED
    BY <2>2
<1>2. CASE 4 * w # currentOffset
  BY <1>2 DEF WriteValue, StoreWord
<1>3. QED
  BY <1>1, <1>2

\* Bits of a readable word are set by an enabled page erase and nothing else.
THEOREM OnlyErase == Spec => OnlyEraseSetsBits
<1>1. ASSUME TypeOK, [Next]_vars, NEW w \in Index, 4 * w < size,
             ~(buffer'[w] \subseteq buffer[w])
      PROVE  /\ WriteEnable \in controlRegister
             /\ buffer'[w] = LowByte
             /\ \E page \in Pages : PageInRange(page) /\ w \in PageWords(page)
  <2>1. ASSUME NEW value \in Word, WriteValue(value) PROVE FALSE
    BY <1>1, <2>1, ProgramOnlyClears
  <2>2. PICK page \in Pages : ErasePage(page)
    BY <1>1, <2>1 DEF Next, WriteControl, WriteOffset, WriteThrows, vars
  <2>3. QED
    BY <1>1, <2>2 DEF ErasePage, TypeOK
<1>2. TypeOK /\ [Next]_vars
        => [\A w \in Index : 4 * w < size /\ ~(buffer'[w] \subseteq buffer[w]) =>
              /\ WriteEnable \in controlRegister
              /\ buffer'[w] = LowByte
              /\ \E page \in Pages : PageInRange(page) /\ w \in PageWords(page)]_vars
  BY <1>1
<1>3. QED
  BY <1>2, TypeCorrect, PTL DEF Spec, OnlyEraseSetsBits

\* Programming a value is felt at the offset it was aimed at and nowhere else.
THEOREM ProgramChangesOneWord == Spec => ProgramIsLocal
<1>1. ASSUME TypeOK, NEW value \in Word, WriteValue(value), NEW w \in Index
      PROVE  FlashRead(4 * w)' = IF 4 * w = currentOffset /\ 4 * w < size
                                 THEN FlashRead(4 * w) \cap value ELSE FlashRead(4 * w)
  <2>1. (4 * w) \div 4 = w
    BY SizeAssumption DEF Index
  <2>2. CASE 4 * w >= size
    BY <2>2, SizeAssumption DEF FlashRead, Index
  <2>3. CASE 4 * w < size
    <3>1. FlashRead(4 * w) = buffer[w] /\ FlashRead(4 * w)' = buffer'[w]
      BY <2>1, <2>3, SizeAssumption DEF FlashRead, Index
    <3>2. buffer'[w] = IF 4 * w = currentOffset
                       THEN FlashRead(currentOffset) \cap value ELSE buffer[w]
      BY <1>1 DEF WriteValue, StoreWord, Programmed
    <3>3. QED
      BY <2>3, <3>1, <3>2
  <2>4. QED
    BY <2>2, <2>3, SizeAssumption DEF Index
<1>2. TypeOK /\ [Next]_vars
        => [\A value \in Word : WriteValue(value) =>
              \A off \in {4 * w : w \in Index} :
                FlashRead(off)' = IF off = currentOffset /\ off < size
                                  THEN FlashRead(off) \cap value ELSE FlashRead(off)]_vars
  <2>1. SUFFICES ASSUME TypeOK, NEW value \in Word, WriteValue(value),
                        NEW off \in {4 * w : w \in Index}
                 PROVE  FlashRead(off)' = IF off = currentOffset /\ off < size
                                          THEN FlashRead(off) \cap value ELSE FlashRead(off)
    OBVIOUS
  <2>2. PICK w \in Index : off = 4 * w
    OBVIOUS
  <2>3. QED
    BY <1>1, <2>1, <2>2
<1>3. QED
  BY <1>2, TypeCorrect, PTL DEF Spec, ProgramIsLocal

-----------------------------------------------------------------------------
(* Bursts. *)

\* A readable byte offset lies in a readable word.
LEMMA WordOfOffset ==
  ASSUME NEW off \in Nat, off < size
  PROVE  off \div 4 \in Index /\ 4 * (off \div 4) < size
BY SizeAssumption DEF Index

\* Programming one more value extends the burst by a word that took the value.
LEMMA ValueExtendsBurst ==
  ASSUME IInv, TypeOK', NEW value \in Word, WriteValue(value)
  PROVE  BurstLands'
<1>1. /\ size \in Nat \ {0} /\ burst \in Seq(Word) /\ base \in Nat
      /\ currentOffset \in Nat /\ currentOffset = base + 4 * Len(burst)
      /\ base' = base /\ buffer \in [Index -> Word]
  BY SizeAssumption, OffsetsAssumption DEF IInv, TypeOK, WriteValue
<1>2. ASSUME NEW n \in DOMAIN burst, base + 4 * (n - 1) < size
      PROVE  FlashRead(base + 4 * (n - 1))' \subseteq burst[n]
  <2>. DEFINE off == base + 4 * (n - 1)
  <2>1. off \in Nat /\ off < size
    BY <1>1, <1>2
  <2>2. FlashRead(off) \subseteq burst[n]
    BY <1>2 DEF IInv, BurstLands
  <2>3. FlashRead(off)' = buffer'[off \div 4] /\ FlashRead(off) = buffer[off \div 4]
    BY <1>1, <2>1 DEF FlashRead
  <2>4. buffer'[off \div 4] \subseteq buffer[off \div 4]
    BY <2>1, WordOfOffset, ProgramOnlyClears DEF IInv
  <2>5. QED
    BY <2>2, <2>3, <2>4
<1>3. ASSUME currentOffset < size
      PROVE  buffer'[currentOffset \div 4] \subseteq value
  <2>1. currentOffset % 4 = 0
    BY <1>1, <1>3 DEF WriteValue, ReadThrows
  <2>2. currentOffset \div 4 \in Index /\ 4 * (currentOffset \div 4) = currentOffset
    BY SMTT(30), <1>1, <1>3, <2>1, WordOfOffset
  <2>3. QED
    BY <2>2 DEF WriteValue, StoreWord, Programmed
<1>4. CASE burst' = burst
  BY <1>1, <1>2, <1>4 DEF BurstLands, FlashRead
<1>5. CASE burst' = Append(burst, value)
  <2>. SUFFICES ASSUME NEW n \in DOMAIN burst', base + 4 * (n - 1) < size
                PROVE  FlashRead(base + 4 * (n - 1))' \subseteq burst'[n]
    BY <1>1 DEF BurstLands, FlashRead
  <2>1. CASE n \in DOMAIN burst
    BY <1>1, <1>2, <1>5, <2>1
  <2>2. CASE n = Len(burst) + 1
    <3>1. base + 4 * (n - 1) = currentOffset /\ burst'[n] = value
      BY <1>1, <1>5, <2>2
    <3>2. FlashRead(base + 4 * (n - 1))' = buffer'[currentOffset \div 4]
      BY <1>1, <3>1 DEF FlashRead
    <3>3. QED
      BY <1>3, <3>1, <3>2
  <2>3. QED
    BY <1>1, <1>5, <2>1, <2>2
<1>6. QED
  BY <1>4, <1>5 DEF WriteValue

\* Every word of an auto-incremented burst lands in its own place, whatever the
\* flash held and wherever the burst ends.
THEOREM BurstsLand == Spec => []BurstLands
<1>1. Init => IInv
  BY InitTypeOK DEF IInv, Init, BurstLands
<1>2. IInv /\ [Next]_vars => IInv'
  <2>. SUFFICES ASSUME IInv, [Next]_vars, TypeOK'
                PROVE  currentOffset' = base' + 4 * Len(burst') /\ BurstLands'
    BY StepTypeOK DEF IInv
  <2>0. currentOffset \in Nat /\ burst \in Seq(Word) /\ base \in Nat
    BY OffsetsAssumption DEF IInv, TypeOK
  <2>1. ASSUME NEW off \in Nat, burst' = <<>>, base' = off, currentOffset' = off
        PROVE  currentOffset' = base' + 4 * Len(burst') /\ BurstLands'
    <3>1. off = off + 4 * Len(<<>>)
      OBVIOUS
    <3>2. BurstLands'
      BY <2>1 DEF BurstLands
    <3>3. QED
      BY <2>1, <3>1, <3>2
  <2>2. ASSUME NEW value \in Word, WriteValue(value)
        PROVE  currentOffset' = base' + 4 * Len(burst') /\ BurstLands'
    <3>1. currentOffset' = base' + 4 * Len(burst')
      <4>1. CASE burst' = burst /\ currentOffset' = currentOffset
        BY <2>2, <4>1 DEF IInv, WriteValue
      <4>2. CASE burst' = Append(burst, value) /\ currentOffset' = currentOffset + 4
        <5>1. Len(burst') = Len(burst) + 1
          BY <2>0, <4>2
        <5>2. currentOffset + 4 = base + 4 * (Len(burst) + 1)
          BY <2>0 DEF IInv
        <5>3. QED
          BY <2>2, <4>2, <5>1, <5>2 DEF WriteValue
      <4>3. QED
        BY <2>2, <4>1, <4>2 DEF WriteValue, NextOffset
    <3>2. QED
      BY <2>2, <3>1, ValueExtendsBurst
  <2>3. CASE UNCHANGED vars
    BY <2>3 DEF vars, IInv, BurstLands, FlashRead
  <2>4. QED
    BY <2>0, <2>1, <2>2, <2>3, OffsetsAssumption
       DEF Next, WriteControl, WriteOffset, ErasePage, WriteThrows
<1>3. QED
  BY <1>1, <1>2, PTL DEF Spec, IInv

-----------------------------------------------------------------------------
(* The example. *)

(* Where main is tells how the programmer is set up.                       *)
AtPC == /\ TypeOK
        /\ pc \in {"offset", "value"} => i \in Region /\ controlRegister = Enabled
        /\ pc = "value" => currentOffset = i

(* No step of main changes whether a word can take the pattern, and a word *)
(* that main has passed has no bit that the pattern lacks.  From the two   *)
(* follows what PatternLands says, which is not inductive.                 *)
Taken == \A off \in Region :
           pc # "other" /\ off < size => (off \in fit <=> Pattern[off] \subseteq FlashRead(off))
Passed == \A off \in Past : off < size => FlashRead(off) \subseteq Pattern[off]
PInv == AtPC /\ Taken /\ Passed

Readable == {4 * w : w \in {w \in Index : 4 * w < size}}

-----------------------------------------------------------------------------
(* Words and offsets. *)

\* An offset of the region that lies in the flash is that of a readable word.
LEMMA RegionIsReadable ==
  ASSUME NEW off \in Region
  PROVE  /\ off \in Nat /\ off % 4 = 0 /\ off < RegionEnd
         /\ off < size => off \in Readable
<1>1. off \in Nat /\ off % 4 = 0 /\ off < RegionEnd
  BY RegionAssumption, OffsetsAssumption DEF Region, Word4
<1>2. ASSUME off < size PROVE off \in Readable
  <2>1. off \div 4 \in Index /\ 4 * (off \div 4) = off
    BY <1>1, <1>2, SizeAssumption DEF Index
  <2>2. QED
    BY <2>1, <1>2 DEF Readable
<1>3. QED
  BY <1>1, <1>2

\* What is read at a readable word is that word.
LEMMA ReadsWord ==
  ASSUME NEW w \in Index, 4 * w < size
  PROVE  FlashRead(4 * w) = buffer[w] /\ FlashRead(4 * w)' = buffer'[w]
<1>1. (4 * w) \div 4 = w /\ ~(4 * w >= size)
  BY SizeAssumption DEF Index
<1>2. QED
  BY <1>1 DEF FlashRead

\* The next offset of the region, and the last one.
LEMMA NextInRegion ==
  ASSUME NEW off \in Region
  PROVE  /\ off + 4 < RegionEnd => off + 4 \in Region
         /\ \A o \in Region : o < off + 4 => o < off \/ o = off
         /\ off + 4 >= RegionEnd => \A o \in Region : o < off \/ o = off
BY RegionAssumption, OffsetsAssumption DEF Region, Word4

-----------------------------------------------------------------------------
(* Where main is. *)

LEMMA InitAtPC == ExampleInit => AtPC
BY InitTypeOK DEF ExampleInit, AtPC

\* A step of main, of the other program or of the host keeps the flash in its type,
\* and the programmer is set up where main needs it.
LEMMA StepAtPC == AtPC /\ [ExampleNext]_exampleVars => AtPC'
<1>. SUFFICES ASSUME AtPC, [ExampleNext]_exampleVars PROVE AtPC'
  OBVIOUS
<1>. USE DEF AtPC
<1>1. CASE OtherProgram
  <2>1. TypeOK'
    BY <1>1, StepTypeOK DEF OtherProgram
  <2>2. pc' = "other"
    BY <1>1 DEF OtherProgram
  <2>3. QED
    BY <2>1, <2>2
<1>2. CASE FlashInit
  <2>1. TypeOK'
    BY <1>2, StepTypeOK DEF FlashInit, Next
  <2>2. pc' = "enable"
    BY <1>2 DEF FlashInit, Goto
  <2>3. QED
    BY <2>1, <2>2
<1>3. CASE FlashEnableWrite
  <2>1. TypeOK'
    BY <1>3, StepTypeOK DEF FlashEnableWrite, Next, Enabled
  <2>2. pc' = "offset" /\ i' = RegionStart /\ controlRegister' = Enabled
    BY <1>3 DEF FlashEnableWrite, Goto, FirstStore, WriteControl
  <2>3. RegionStart \in Region
    BY RegionAssumption, OffsetsAssumption DEF Region, Word4
  <2>4. QED
    BY <2>1, <2>2, <2>3
<1>4. CASE StoreOffset
  <2>1. i \in Region /\ controlRegister = Enabled
    BY <1>4 DEF StoreOffset, Goto
  <2>2. i' = i /\ controlRegister' = controlRegister /\ currentOffset' = i /\ pc' = "value"
    BY <1>4 DEF StoreOffset, Goto, WriteOffset
  <2>3. i \in 0 .. MaxOffset
    BY <2>1, RegionIsReadable, RegionAssumption, OffsetsAssumption DEF Region, Word4
  <2>4. TypeOK'
    BY <1>4, <2>3 DEF StoreOffset, WriteOffset, TypeOK
  <2>5. QED
    BY <2>1, <2>2, <2>4
<1>5. CASE NextWord /\ (StoreValue \/ StoreValueThrows)
  <2>1. i \in Region /\ controlRegister = Enabled
    BY <1>5 DEF NextWord, Goto
  <2>2. TypeOK' /\ controlRegister' = controlRegister
    <3>1. CASE StoreValue
      <4>1. Pattern[i] \in Word
        BY <2>1, PatternAssumption
      <4>2. QED
        BY <3>1, <4>1, StepTypeOK DEF StoreValue, Next, WriteValue
    <3>2. CASE StoreValueThrows
      BY <3>2 DEF StoreValueThrows, flash, TypeOK
    <3>3. QED
      BY <1>5, <3>1, <3>2
  <2>3. i' = i + 4 /\ pc' = IF i + 4 < RegionEnd THEN "offset" ELSE "disable"
    BY <1>5 DEF NextWord, Goto, FirstStore
  <2>4. CASE i + 4 < RegionEnd
    BY <2>1, <2>2, <2>3, <2>4, NextInRegion
  <2>5. CASE ~(i + 4 < RegionEnd)
    BY <2>2, <2>3, <2>5
  <2>6. QED
    BY <2>4, <2>5
<1>6. CASE FlashDisableWrite
  <2>1. TypeOK'
    BY <1>6, StepTypeOK DEF FlashDisableWrite, Next
  <2>2. pc' = "verify"
    BY <1>6 DEF FlashDisableWrite, Goto
  <2>3. QED
    BY <2>1, <2>2
<1>7. CASE NextVerified
  <2>1. TypeOK'
    BY <1>7 DEF NextVerified, flash, TypeOK
  <2>2. pc' \in {"verify", "forever"}
    BY <1>7 DEF NextVerified, Goto
  <2>3. QED
    BY <2>1, <2>2
<1>8. CASE Reset
  BY <1>8 DEF Reset, Start, flash, TypeOK
<1>9. CASE PowerCycle
  <2>1. buffer' \in [Index -> Word]
    BY <1>9 DEF PowerCycle, TypeOK, Word, Ones
  <2>2. pc' = "init"
    BY <1>9 DEF PowerCycle, Start
  <2>3. TypeOK'
    BY <1>9, <2>1, OffsetsAssumption DEF PowerCycle, TypeOK
  <2>4. QED
    BY <2>2, <2>3
<1>10. CASE UNCHANGED exampleVars
  BY <1>10 DEF exampleVars, flash, TypeOK
<1>11. QED
  BY <1>1, <1>2, <1>3, <1>4, <1>5, <1>6, <1>7, <1>8, <1>9, <1>10
     DEF ExampleNext, Main, StoreValue, StoreValueThrows, Verify, VerifyThrows

-----------------------------------------------------------------------------
(* What main and the host do to the words that can be read. *)

Programs(off) == FlashRead(off)' = IF StoreValue /\ off = i THEN FlashRead(off) \cap Pattern[i]
                                   ELSE FlashRead(off)

\* Only the store of a value changes a readable word, and that is the word at i.
LEMMA StepPrograms ==
  ASSUME AtPC, pc # "other", [ExampleNext]_exampleVars, NEW off \in Readable
  PROVE  Programs(off)
<1>1. PICK w \in Index : 4 * w < size /\ off = 4 * w
  BY DEF Readable
<1>2. FlashRead(off) = buffer[w] /\ FlashRead(off)' = buffer'[w]
  BY <1>1, ReadsWord
<1>3. CASE StoreValue
  <2>1. i \in Region /\ currentOffset = i /\ pc = "value"
    BY <1>3 DEF StoreValue, NextWord, Goto, AtPC
  <2>2. buffer' = [v \in Index |-> IF 4 * v = i THEN FlashRead(i) \cap Pattern[i] ELSE buffer[v]]
    BY <1>3, <2>1 DEF StoreValue, WriteValue, StoreWord, Programmed
  <2>3. QED
    BY <1>1, <1>2, <1>3, <2>2 DEF Programs
<1>4. CASE PowerCycle
  <2>1. w \in Saved
    BY <1>1 DEF Saved
  <2>2. buffer'[w] = buffer[w]
    BY <1>4, <2>1 DEF PowerCycle
  <2>3. ~StoreValue
    BY <1>4 DEF PowerCycle, Start, StoreValue, NextWord, Goto, FirstStore
  <2>4. QED
    BY <1>2, <2>2, <2>3 DEF Programs
<1>5. CASE ~StoreValue /\ ~PowerCycle
  <2>1. buffer' = buffer
    BY <1>5 DEF ExampleNext, OtherProgram, Main, FlashInit, FlashEnableWrite, StoreOffset, StoreValueThrows,
                FlashDisableWrite, Verify, VerifyThrows, NextVerified, Reset, WriteControl, WriteOffset,
                flash, exampleVars
  <2>2. QED
    BY <1>2, <1>5, <2>1 DEF Programs
<1>6. QED
  BY <1>3, <1>4, <1>5

\* For every flash, region and pattern, main touches nothing but its region, and
\* there sets no bit and clears none that the pattern has.
THEOREM MainIsLocal == ExampleSpec => MainKeepsToRegion
<1>1. ASSUME AtPC, [ExampleNext]_exampleVars, pc # "other",
             NEW off \in {4 * w : w \in Index}, off < size
      PROVE  IF off \in Region
             THEN FlashRead(off) \cap Pattern[off] \subseteq FlashRead(off)'
             ELSE FlashRead(off)' = FlashRead(off)
  <2>1. off \in Readable
    BY <1>1 DEF Readable
  <2>2. Programs(off)
    BY <1>1, <2>1, StepPrograms
  <2>3. StoreValue => i \in Region
    BY <1>1 DEF StoreValue, NextWord, Goto, AtPC
  <2>4. QED
    BY <2>2, <2>3 DEF Programs
<1>2. AtPC /\ [ExampleNext]_exampleVars
        => [pc # "other" => \A off \in {4 * w : w \in Index} : off < size =>
              IF off \in Region
              THEN FlashRead(off) \cap Pattern[off] \subseteq FlashRead(off)'
              ELSE FlashRead(off)' = FlashRead(off)]_exampleVars
  BY <1>1
<1>3. QED
  BY InitAtPC, StepAtPC, <1>2, PTL DEF ExampleSpec, MainKeepsToRegion

-----------------------------------------------------------------------------
(* The pattern lands. *)

LEMMA InitPInv == ExampleInit => PInv
<1>. SUFFICES ASSUME ExampleInit PROVE PInv
  OBVIOUS
<1>1. pc = "other" /\ AtPC
  BY InitAtPC DEF ExampleInit
<1>2. Past = {}
  BY <1>1 DEF Past
<1>3. QED
  BY <1>1, <1>2 DEF PInv, Taken, Passed

\* Whether a word can take the pattern is settled when main starts for the first time.
LEMMA StepTaken == PInv /\ [ExampleNext]_exampleVars => Taken'
<1>. SUFFICES ASSUME PInv, [ExampleNext]_exampleVars,
                     NEW off \in Region, pc' # "other", off < size
              PROVE  (off \in fit)' <=> Pattern[off] \subseteq FlashRead(off)'
  BY DEF Taken
<1>1. off \in Readable
  BY RegionIsReadable
<1>2. CASE pc = "other"
  <2>1. Reset \/ PowerCycle
    BY <1>2 DEF ExampleNext, OtherProgram, Main, FlashInit, FlashEnableWrite, StoreOffset, StoreValue,
                StoreValueThrows, NextWord, FlashDisableWrite, Verify, VerifyThrows, NextVerified,
                Goto, exampleVars
  <2>2. fit' = {o \in Region : Fits(o)}
    BY <1>2, <2>1 DEF Reset, PowerCycle, Start
  <2>3. FlashRead(off)' = FlashRead(off)
    <3>1. PICK w \in Index : 4 * w < size /\ off = 4 * w
      BY <1>1 DEF Readable
    <3>2. buffer'[w] = buffer[w]
      BY <2>1, <3>1 DEF Reset, flash, PowerCycle, Saved
    <3>3. QED
      BY <3>1, <3>2, ReadsWord
  <2>4. QED
    BY <2>2, <2>3 DEF Fits
<1>3. CASE pc # "other"
  <2>1. off \in fit <=> Pattern[off] \subseteq FlashRead(off)
    BY <1>3 DEF PInv, Taken
  <2>2. fit' = fit
    BY <1>3 DEF ExampleNext, OtherProgram, Main, FlashInit, FlashEnableWrite, StoreOffset, StoreValue,
                StoreValueThrows, NextWord, FlashDisableWrite, Verify, VerifyThrows, NextVerified,
                Reset, PowerCycle, Start, exampleVars
  <2>3. Programs(off)
    BY <1>1, <1>3, StepPrograms DEF PInv
  <2>4. QED
    BY <2>1, <2>2, <2>3 DEF Programs
<1>4. QED
  BY <1>2, <1>3

\* A word that main has just passed was programmed, and one it passed before stays so.
LEMMA StepPassed == PInv /\ [ExampleNext]_exampleVars => Passed'
<1>. SUFFICES ASSUME PInv, [ExampleNext]_exampleVars, NEW off \in Past', off < size
              PROVE  FlashRead(off)' \subseteq Pattern[off]
  BY DEF Passed
<1>1. off \in Region
  BY DEF Past
<1>2. off \in Readable /\ off % 4 = 0 /\ off \in Nat
  BY <1>1, RegionIsReadable
<1>3. pc # "other"
  BY DEF ExampleNext, OtherProgram, Main, FlashInit, FlashEnableWrite, StoreOffset, StoreValue,
         StoreValueThrows, NextWord, FlashDisableWrite, Verify, VerifyThrows, NextVerified, Reset,
         PowerCycle, Start, Goto, Past, exampleVars
<1>4. Programs(off)
  BY <1>2, <1>3, StepPrograms DEF PInv
<1>5. CASE off \in Past
  BY <1>4, <1>5 DEF PInv, Passed, Programs
<1>6. CASE off \notin Past
  <2>1. NextWord /\ (StoreValue \/ StoreValueThrows)
    <3>1. CASE FlashEnableWrite
      <4>1. off < RegionStart
        BY <3>1 DEF FlashEnableWrite, Goto, FirstStore, Past
      <4>2. QED
        BY <1>1, <4>1, RegionAssumption, OffsetsAssumption DEF Region, Word4
    <3>2. CASE StoreOffset
      BY <1>6, <3>2 DEF StoreOffset, Goto, Past
    <3>3. CASE FlashDisableWrite \/ NextVerified
      <4>1. pc \in {"disable", "verify"}
        BY <3>3 DEF FlashDisableWrite, NextVerified, Goto
      <4>2. QED
        BY <1>1, <1>6, <4>1 DEF Past
    <3>4. CASE OtherProgram \/ FlashInit \/ Reset \/ PowerCycle
      <4>1. pc' \in {"other", "init", "enable"}
        BY <3>4 DEF OtherProgram, FlashInit, Goto, Reset, PowerCycle, Start
      <4>2. QED
        BY <4>1 DEF Past
    <3>5. CASE UNCHANGED exampleVars
      BY <1>6, <3>5 DEF exampleVars, Past
    <3>6. QED
      BY <3>1, <3>2, <3>3, <3>4, <3>5
         DEF ExampleNext, Main, StoreValue, StoreValueThrows, Verify, VerifyThrows
  <2>2. off = i /\ currentOffset = i /\ controlRegister = Enabled
    <3>1. pc = "value" /\ i \in Region
      BY <2>1 DEF NextWord, Goto, PInv, AtPC
    <3>2. off >= i
      BY <1>1, <1>6, <3>1, RegionIsReadable DEF Past
    <3>3. off < i + 4 \/ i + 4 >= RegionEnd
      <4>1. i' = i + 4 /\ pc' = IF i + 4 < RegionEnd THEN "offset" ELSE "disable"
        BY <2>1 DEF NextWord, Goto, FirstStore
      <4>2. i \in Nat /\ RegionEnd \in Nat
        BY <3>1, RegionIsReadable, RegionAssumption, OffsetsAssumption
      <4>3. CASE i + 4 < RegionEnd
        BY <4>1, <4>3 DEF Past
      <4>4. CASE ~(i + 4 < RegionEnd)
        BY <4>2, <4>4
      <4>5. QED
        BY <4>3, <4>4
    <3>4. QED
      BY <1>1, <3>1, <3>2, <3>3, NextInRegion, RegionIsReadable DEF PInv, AtPC
  <2>3. ~StoreValueThrows
    BY <1>2, <2>2, SizeAssumption DEF StoreValueThrows, ReadThrows, Enabled
  <2>4. QED
    BY <1>4, <2>1, <2>2, <2>3 DEF Programs
<1>7. QED
  BY <1>5, <1>6

\* For every flash, region and pattern, and however often main is interrupted, a word
\* of the region ends up with the pattern exactly if it could take it at first.
THEOREM PatternIsWritten == ExampleSpec => []PatternLands
<1>1. PInv /\ [ExampleNext]_exampleVars => PInv'
  BY StepAtPC, StepTaken, StepPassed DEF PInv
<1>2. PInv => PatternLands
  <2>1. ASSUME PInv, NEW off \in Past, off < size
        PROVE  FlashRead(off) = Pattern[off] <=> off \in fit
    <3>1. off \in Region /\ pc # "other"
      BY <2>1 DEF Past
    <3>2. QED
      BY <2>1, <3>1 DEF PInv, Taken, Passed
  <2>2. QED
    BY <2>1 DEF PatternLands
<1>3. QED
  BY InitPInv, <1>1, <1>2, PTL DEF ExampleSpec

-----------------------------------------------------------------------------
(* The verdict is exact. *)

(* The loop of the verification counts, of the offsets it has passed, those *)
(* that could not take the pattern.                                         *)
Unfit(first) == {off \in Verified : off < first /\ off \notin fit}
Counts ==
  /\ fit \subseteq {off \in Region : off < size}
  /\ pc \in {"enable", "offset", "value", "disable"} => errors = 0 /\ ~lost
  /\ pc = "verify" => i \in Verified /\ (~lost => errors = Cardinality(Unfit(i)))
  /\ pc = "forever" /\ ~lost => errors = Cardinality(Verified \ fit)
VInv == PInv /\ Counts

\* The verified offsets are finitely many, some of the region, and 4 apart.
LEMMA VerifiedIsFinite ==
  /\ IsFiniteSet(Verified) /\ Verified \subseteq Region
  /\ \A off \in Verified : off >= RegionStart /\ off \in Nat
<1>1. Verified \subseteq 0 .. MaxOffset /\ Verified \subseteq Region
  BY RegionAssumption, OffsetsAssumption DEF Verified, Region, Word4
<1>2. IsFiniteSet(0 .. MaxOffset)
  BY OffsetsAssumption, FS_Interval
<1>3. \A off \in Verified : off >= RegionStart /\ off \in Nat
  BY RegionAssumption, OffsetsAssumption DEF Verified, Word4
<1>4. QED
  BY <1>1, <1>2, <1>3, FS_Subset

LEMMA NextVerifiedOffset ==
  ASSUME NEW off \in Verified
  PROVE  /\ off + 4 < RegionStart + VerifyLength => off + 4 \in Verified
         /\ \A o \in Verified : o < off + 4 <=> o < off \/ o = off
         /\ off + 4 >= RegionStart + VerifyLength => \A o \in Verified : o < off \/ o = off
BY RegionAssumption, OffsetsAssumption DEF Verified, Word4

\* Passing one more offset counts it if it could not take the pattern.
LEMMA OneMore ==
  ASSUME NEW off \in Verified
  PROVE  Cardinality(Unfit(off) \cup ({off} \ fit))
           = Cardinality(Unfit(off)) + IF off \in fit THEN 0 ELSE 1
<1>1. IsFiniteSet(Unfit(off)) /\ off \notin Unfit(off)
  BY VerifiedIsFinite, FS_Subset DEF Unfit
<1>2. Cardinality(Unfit(off)) \in Nat
  BY <1>1, FS_CardinalityType
<1>3. CASE off \in fit
  <2>1. Unfit(off) \cup ({off} \ fit) = Unfit(off)
    BY <1>3
  <2>2. QED
    BY <1>2, <1>3, <2>1
<1>4. CASE off \notin fit
  <2>1. Unfit(off) \cup ({off} \ fit) = Unfit(off) \cup {off}
    BY <1>4
  <2>2. QED
    BY <1>1, <1>4, <2>1, FS_AddElement
<1>5. QED
  BY <1>3, <1>4

LEMMA InitVInv == ExampleInit => VInv
BY InitPInv DEF ExampleInit, VInv, Counts

\* Verifying one word compares what it holds with the pattern, and that tells whether it
\* could take it.
LEMMA VerifyCounts == VInv /\ Verify => Counts'
<1>. SUFFICES ASSUME VInv, Verify PROVE Counts'
  OBVIOUS
<1>1. pc = "verify" /\ i \in Verified /\ i \in Region /\ i \in Nat
  BY VerifiedIsFinite DEF Verify, NextVerified, Goto, VInv, Counts
<1>2. /\ i' = i + 4 /\ fit' = fit /\ lost' = lost
      /\ pc' = IF i + 4 < RegionStart + VerifyLength THEN "verify" ELSE "forever"
  BY DEF Verify, NextVerified, Goto
<1>3. FlashRead(i) = Pattern[i] <=> i \in fit
  <2>1. CASE i < size
    <3>1. i \in Past
      BY <1>1 DEF Past
    <3>2. QED
      BY <1>1, <2>1, <3>1 DEF VInv, PInv, Taken, Passed
  <2>2. CASE ~(i < size)
    <3>1. FlashRead(i) = Ones
      BY <1>1, <2>2, SizeAssumption DEF FlashRead
    <3>2. Pattern[i] # Ones
      BY <1>1, PatternAssumption
    <3>3. QED
      BY <2>2, <3>1, <3>2 DEF VInv, Counts
  <2>3. QED
    BY <2>1, <2>2
<1>4. ASSUME ~lost PROVE errors' = Cardinality(Unfit(i) \cup ({i} \ fit))
  <2>1. errors = Cardinality(Unfit(i))
    BY <1>1, <1>4 DEF VInv, Counts
  <2>2. Cardinality(Unfit(i)) \in Nat
    BY VerifiedIsFinite, FS_Subset, FS_CardinalityType DEF Unfit
  <2>3. errors' = IF i \in fit THEN errors ELSE errors + 1
    BY <1>3 DEF Verify
  <2>4. QED
    BY <1>1, <2>1, <2>2, <2>3, OneMore
<1>5. CASE i + 4 < RegionStart + VerifyLength
  <2>1. Unfit(i + 4) = Unfit(i) \cup ({i} \ fit)
    BY <1>1, NextVerifiedOffset DEF Unfit
  <2>2. Unfit(i)' = {off \in Verified : off < i' /\ off \notin fit'}
    BY DEF Unfit
  <2>3. Unfit(i)' = Unfit(i + 4)
    BY <1>2, <2>2 DEF Unfit
  <2>4. QED
    BY <1>1, <1>2, <1>4, <1>5, <2>1, <2>3, NextVerifiedOffset DEF VInv, Counts
<1>6. CASE ~(i + 4 < RegionStart + VerifyLength)
  <2>1. Verified \ fit = Unfit(i) \cup ({i} \ fit)
    <3>1. i + 4 >= RegionStart + VerifyLength
      BY <1>1, <1>6, RegionAssumption, OffsetsAssumption
    <3>2. \A o \in Verified : o < i \/ o = i
      BY <1>1, <3>1, NextVerifiedOffset
    <3>3. QED
      BY <1>1, <3>2 DEF Unfit
  <2>2. QED
    BY <1>1, <1>2, <1>4, <1>6, <2>1 DEF VInv, Counts
<1>7. QED
  BY <1>5, <1>6

LEMMA StepCounts == VInv /\ [ExampleNext]_exampleVars => Counts'
<1>. SUFFICES ASSUME VInv, [ExampleNext]_exampleVars PROVE Counts'
  OBVIOUS
<1>1. CASE OtherProgram
  BY <1>1 DEF OtherProgram, VInv, Counts
<1>2. CASE FlashInit
  BY <1>2 DEF FlashInit, Goto, VInv, Counts
<1>3. CASE FlashEnableWrite
  BY <1>3 DEF FlashEnableWrite, Goto, FirstStore, VInv, Counts
<1>4. CASE StoreOffset \/ NextWord
  BY <1>4 DEF StoreOffset, NextWord, Goto, FirstStore, VInv, Counts
<1>5. CASE FlashDisableWrite
  <2>1. pc' = "verify" /\ i' = RegionStart /\ fit' = fit /\ errors' = 0 /\ ~lost'
    BY <1>5 DEF FlashDisableWrite, Goto, VInv, Counts
  <2>2. RegionStart \in Verified
    BY RegionAssumption, OffsetsAssumption DEF Verified, Word4
  <2>3. Unfit(i)' = {}
    <3>1. Unfit(i)' = {off \in Verified : off < RegionStart /\ off \notin fit}
      BY <2>1 DEF Unfit
    <3>2. QED
      BY <3>1, VerifiedIsFinite, RegionAssumption
  <2>4. QED
    BY <2>1, <2>2, <2>3, FS_EmptySet DEF VInv, Counts
<1>6. CASE Verify
  BY <1>6, VerifyCounts
<1>7. CASE VerifyThrows
  <2>1. pc = "verify" /\ i \in Verified
    BY <1>7 DEF VerifyThrows, NextVerified, Goto, VInv, Counts
  <2>2. /\ i' = i + 4 /\ fit' = fit /\ lost'
        /\ pc' = IF i + 4 < RegionStart + VerifyLength THEN "verify" ELSE "forever"
    BY <1>7 DEF VerifyThrows, NextVerified, Goto
  <2>3. QED
    BY <2>1, <2>2, NextVerifiedOffset DEF VInv, Counts
<1>8. CASE Reset \/ PowerCycle
  BY <1>8 DEF Reset, PowerCycle, Start, Fits, VInv, Counts
<1>9. CASE UNCHANGED exampleVars
  BY <1>9 DEF exampleVars, VInv, Counts, Unfit
<1>10. QED
  BY <1>1, <1>2, <1>3, <1>4, <1>5, <1>6, <1>7, <1>8, <1>9
     DEF ExampleNext, Main, StoreValue, StoreValueThrows

\* For every flash, region and pattern, and however often main is interrupted, the errors
\* it reports are the verified words that could not take the pattern at first.
THEOREM VerdictHolds == ExampleSpec => []VerdictIsExact
<1>1. VInv /\ [ExampleNext]_exampleVars => VInv'
  BY StepAtPC, StepTaken, StepPassed, StepCounts DEF VInv, PInv
<1>2. VInv => VerdictIsExact
  BY DEF VInv, Counts, VerdictIsExact
<1>3. QED
  BY InitVInv, <1>1, <1>2, PTL DEF ExampleSpec
=============================================================================
