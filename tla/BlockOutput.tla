----------------------------- MODULE BlockOutput -----------------------------
(***************************************************************************)
(* Block_Output (src/block_output.js), the channel on which the guest      *)
(* sends blocks of bytes to the host without copying them.  The guest      *)
(* stores the address of a block in its memory, then the length, and that  *)
(* last store makes the device read the block over the bus and emit it:    *)
(* the newlib stub _write (usage_examples/handyarm.c).                     *)
(***************************************************************************)
EXTENDS Bus

VARIABLES startAddress,   \* Block_Output._startAddress
          storing,        \* the guest is between the two stores of _write
          emitted         \* the blocks the host was handed, in order

outputVars == <<startAddress, storing, emitted>>

InitOutput == startAddress = 0 /\ storing = FALSE /\ emitted = <<>>

\* The words read for a block of n bytes, each rounded down to a word by the
\* bus, and the bytes split out of them.
WordCount_Floor(n) == n \div 4
WordCount_OneMore(n) == (n + 3) \div 4 + 1
WordCount(n) == (n + 3) \div 4
BlockWord(i) == BusRead(startAddress + 4 * i)
Readable(n) == \A i \in 0 .. WordCount(n) - 1 : BlockWord(i) # Fault

Block(n) == [k \in 1 .. n |-> LET i == (k - 1) \div 4
                              IN  IF i < WordCount(n) THEN BlockWord(i)[(k - 1) % 4]
                                  ELSE Zero]

WriteStart(ptr) ==
  /\ ~storing
  /\ startAddress' = ptr
  /\ storing' = TRUE
  /\ UNCHANGED emitted

WriteLength(n) ==
  /\ storing
  /\ Readable(n)
  /\ emitted' = Append(emitted, Block(n))
  /\ storing' = FALSE
  /\ UNCHANGED startAddress

\* A word of the block faults: the store throws before anything is emitted.
WriteLengthThrows_Emits(n) ==
  /\ storing
  /\ ~Readable(n)
  /\ emitted' = Append(emitted, [k \in 1 .. n |-> Zero])
  /\ storing' = FALSE
  /\ UNCHANGED startAddress
WriteLengthThrows(n) ==
  /\ storing
  /\ ~Readable(n)
  /\ storing' = FALSE
  /\ UNCHANGED <<startAddress, emitted>>
=============================================================================
