-------------------------------- MODULE Flash --------------------------------
(***************************************************************************)
(* The flash memory and its programmer (src/flash.js).  The guest reads    *)
(* the flash through the bus and changes it only through the registers of  *)
(* the programmer: control, offset, value and page erase.                  *)
(*                                                                         *)
(* A word is the set of its bits that are 1.  The buffer behind the flash  *)
(* is made of `size` words, though only the first `size` bytes can be read.*)
(***************************************************************************)
EXTENDS Integers, Sequences

CONSTANTS size,        \* of the flash, in bytes
          PAGE_SIZE,   \* in bytes: 4096
          Bits,        \* the bits of a word
          LowByte,     \* those of 0xFF
          Images,      \* the initial data, as sequences of words
          Offsets,     \* what the guest writes to the offset register
          MaxOffset    \* bound: where auto-increment stops

Ones == Bits                   \* 0xFFFFFFFF
Word == SUBSET Bits

ASSUME SizeAssumption == size \in Nat \ {0} /\ PAGE_SIZE \in Nat \ {0}
ASSUME BitsAssumption == LowByte \subseteq Bits
ASSUME ImagesAssumption == \A data \in Images : data \in Seq(Word) /\ Len(data) <= size
ASSUME OffsetsAssumption == Offsets \subseteq 0 .. MaxOffset /\ MaxOffset \in Nat

WriteEnable == 0               \* bits of the control register
AutoIncrement == 1

VARIABLES buffer,                          \* Flash.buffer
          bounds,                          \* Flash.options.bounds
          controlRegister, currentOffset,  \* the registers of the programmer
          base, burst                      \* history: the words programmed with
                                           \* auto-increment from offset `base` on

vars == <<buffer, bounds, controlRegister, currentOffset, base, burst>>

Index == 0 .. size - 1         \* new Uint32Array(sizeInBytes)

Init == /\ \E data \in Images :
             buffer = [i \in Index |-> IF i < Len(data) THEN data[i + 1] ELSE Ones]
        /\ bounds \in BOOLEAN
        /\ controlRegister = {} /\ currentOffset = 0
        /\ base = 0 /\ burst = <<>>

-----------------------------------------------------------------------------
(* Flash.read. *)

ReadThrows(off) == IF off >= size THEN bounds ELSE off % 4 # 0
FlashRead(off) == IF off >= size THEN Ones ELSE buffer[off \div 4]

-----------------------------------------------------------------------------
(* Programmer.write, one action per register. *)

WriteControl(c) ==
  /\ controlRegister' = c
  /\ base' = currentOffset /\ burst' = <<>>
  /\ UNCHANGED <<buffer, bounds, currentOffset>>

WriteOffset(off) ==
  /\ currentOffset' = off
  /\ base' = off /\ burst' = <<>>
  /\ UNCHANGED <<buffer, bounds, controlRegister>>

\* 1 -> 0 only.
Programmed_Overwrite(word, value) == value
Programmed(word, value) == word \cap value

\* A typed array ignores a store at an index it does not have, or a fraction.
StoreWord_ByteIndex(off, word) ==
  buffer' = [i \in Index |-> IF i = off THEN word ELSE buffer[i]]
StoreWord(off, word) ==
  buffer' = [i \in Index |-> IF 4 * i = off THEN word ELSE buffer[i]]

NextOffset_Back == currentOffset - 4
NextOffset == currentOffset + 4

WriteValue(value) ==
  /\ WriteEnable \in controlRegister
  /\ ~ReadThrows(currentOffset)
  /\ StoreWord(currentOffset, Programmed(FlashRead(currentOffset), value))
  /\ IF AutoIncrement \in controlRegister
     THEN /\ NextOffset <= MaxOffset
          /\ currentOffset' = NextOffset
          /\ burst' = Append(burst, value)
     ELSE UNCHANGED <<currentOffset, burst>>
  /\ UNCHANGED <<bounds, controlRegister, base>>

PageInRange(page) == (page + 1) * PAGE_SIZE <= size

\* The words that the fill loop of erasePage writes: its index runs over byte
\* addresses, and buffer is indexed by words.
PageWords(page) == {i \in Index : page * PAGE_SIZE <= i /\ i < (page + 1) * PAGE_SIZE}

ErasePage(page) ==
  /\ WriteEnable \in controlRegister
  /\ PageInRange(page)
  /\ buffer' = [i \in Index |-> IF i \in PageWords(page) THEN LowByte ELSE buffer[i]]
  /\ base' = currentOffset /\ burst' = <<>>
  /\ UNCHANGED <<bounds, controlRegister, currentOffset>>

\* Writing is not enabled, the offset cannot be read, or there is no such page
\* or register: nothing changes.
WriteThrows == UNCHANGED vars

-----------------------------------------------------------------------------
(* Specification: the guest writes the registers in any order. *)

Pages == 0 .. size \div PAGE_SIZE

Next == \/ \E c \in SUBSET {WriteEnable, AutoIncrement} : WriteControl(c)
        \/ \E off \in Offsets : WriteOffset(off)
        \/ \E value \in Word : WriteValue(value)
        \/ \E page \in Pages : ErasePage(page)
        \/ WriteThrows

Spec == Init /\ [][Next]_vars

-----------------------------------------------------------------------------
(* Properties. *)

\* Type invariant: in particular the programmer's offset is a number, and the
\* buffer keeps its length.
TypeOK ==
  /\ buffer \in [Index -> Word]
  /\ bounds \in BOOLEAN
  /\ controlRegister \subseteq {WriteEnable, AutoIncrement}
  /\ currentOffset \in 0 .. MaxOffset /\ base \in 0 .. MaxOffset
  /\ burst \in Seq(Word)

\* src/flash.js:180: programming "can only change 1s to 0s".  The only write that
\* sets a bit of a readable word is a page erase made while writing is enabled,
\* and it leaves the low byte of the word set and the rest clear.
OnlyEraseSetsBits ==
  [][\A w \in Index : 4 * w < size /\ ~(buffer'[w] \subseteq buffer[w]) =>
       /\ WriteEnable \in controlRegister
       /\ buffer'[w] = LowByte
       /\ \E page \in Pages : PageInRange(page) /\ w \in PageWords(page)]_vars

\* A burst programmed with auto-increment lands in consecutive words: read back
\* at any later time, word n of it has no bit that value n lacks, until the page
\* is erased or the programmer is set up again.
BurstLands ==
  \A n \in DOMAIN burst :
    base + 4 * (n - 1) < size => FlashRead(base + 4 * (n - 1)) \subseteq burst[n]

\* Programming one value changes what can be read at the current offset alone.
ProgramIsLocal ==
  [][\A value \in Word : WriteValue(value) =>
       \A off \in {4 * w : w \in Index} :
         FlashRead(off)' = IF off = currentOffset /\ off < size
                           THEN FlashRead(off) \cap value ELSE FlashRead(off)]_vars

\* src/flash.js:212: erasePage "Erases a 4KB page in the flash memory by setting
\* all bits to 1".
ErasedPageReadsOnes ==
  [][\A page \in Pages : ErasePage(page) =>
       \A i \in Index : page * PAGE_SIZE <= 4 * i /\ 4 * i < (page + 1) * PAGE_SIZE
          => FlashRead(4 * i)' = Ones]_vars
=============================================================================
