------------------------------- MODULE Console -------------------------------
(***************************************************************************)
(* The two console channels of a guest put together: an echo program reads *)
(* what the host appends to a Block_Input into its RAM with _read, and     *)
(* sends it back through a Block_Output with _write.  The host's appends   *)
(* fall between any two of the guest's register accesses.                  *)
(***************************************************************************)
EXTENDS BlockInput, BlockOutput

CONSTANTS Map,           \* the entries attached
          Pointers,      \* where the program's buffer is
          BadPointers    \* and wild pointers

ASSUME AttachedAssumption ==
  /\ Map \in Seq(Entries)
  /\ \A i, j \in DOMAIN Map : Map[i].device = Map[j].device => i = j
ASSUME PointersAssumption == Bytes \subseteq Byte /\ Pointers \cup BadPointers \subseteq Nat
\* The program's buffer is RAM, and one memory serves each word of it.
ASSUME BufferAssumption ==
  \A p \in Pointers, k \in 0 .. MaxLen - 1 :
    \E i \in DOMAIN Map :
      /\ \A j \in DOMAIN Map : Covers(Map[j], WordAddress(p + k)) <=> j = i
      /\ Map[i].device \in RAMs
      /\ Fits(Map[i].device, WordAddress(p + k) - Map[i].start)

VARIABLES ptr,     \* the program: its buffer, and
          count    \* what _read returned, to be written

Sequence == INSTANCE SequencesExt

inVars == <<size, ram, start, end, outcome, pc, seenEnd, byte, len, DataIdx,
            sent, rcvd, overrun>>
outVars == <<startAddress, storing, emitted>>
consoleVars == <<inVars, devices, mem, outVars, ptr, count>>

ConsoleInit ==
  /\ Init /\ InitOutput
  /\ devices = Map
  /\ mem = [d \in Memory |-> [o \in 0 .. SizeOf[d] - 1 |-> Zero]]
  /\ ptr \in Pointers /\ count = 0

-----------------------------------------------------------------------------

\* The host stops at its first overrun, after which the console owes nothing.
HostAppends == /\ ~overrun
               /\ Host
               /\ UNCHANGED <<devices, mem, outVars, ptr, count>>

\* n = _read(0, ptr, len)
Read == /\ count = 0 /\ ~storing
        /\ \E n \in 1 .. MaxLen : Call(n)
        /\ ptr' \in Pointers
        /\ UNCHANGED <<devices, mem, outVars, count>>

\* _read is about to return this many bytes.
Returning(n) == pc' = "idle" /\ count' = n

Poll == /\ \/ LoadEnd /\ UNCHANGED count
           \/ Test /\ pc' # "idle" /\ UNCHANGED count
           \/ Test /\ Returning(DataIdx)
        /\ UNCHANGED <<devices, mem, outVars, ptr>>

\* ptr[DataIdx] = the byte; RAM is the guest's own, so no step in between shows.
Load == /\ LoadByte
        /\ LET a == ptr + DataIdx
           IN  mem' = MemAfter(a, [BusRead(a) EXCEPT ![a % 4] = byte'])
        /\ UNCHANGED <<devices, outVars, ptr, count>>

Consume == /\ Advance
           /\ IF pc' = "idle" THEN Returning(DataIdx + 1) ELSE UNCHANGED count
           /\ UNCHANGED <<devices, mem, outVars, ptr>>

\* _write(1, ptr, n)
SendStart == /\ pc = "idle" /\ count > 0
             /\ WriteStart(ptr)
             /\ UNCHANGED <<inVars, devices, mem, ptr, count>>

SendLength == /\ count > 0
              /\ WriteLength(count)
              /\ count' = 0
              /\ UNCHANGED <<inVars, devices, mem, ptr>>

\* The program also passes _write a block that is not all memory: it throws.
WildStart == /\ pc = "idle" /\ count = 0
             /\ \E p \in BadPointers : WriteStart(p)
             /\ UNCHANGED <<inVars, devices, mem, ptr, count>>

WildLength == /\ count = 0
              /\ \E n \in 1 .. 8 : WriteLengthThrows(n)
              /\ UNCHANGED <<inVars, devices, mem, ptr, count>>

Program == Poll \/ Load \/ Consume \/ SendStart \/ SendLength \/ WildLength

ConsoleNext == HostAppends \/ Read \/ WildStart \/ Program

\* The guest's instructions keep being executed, and its program keeps reading.
ConsoleSpec == /\ ConsoleInit /\ [][ConsoleNext]_consoleVars
               /\ WF_consoleVars(Program) /\ SF_consoleVars(Read)

-----------------------------------------------------------------------------
(* Properties. *)

Output == Sequence!FlattenSeq(emitted)

\* Type invariant: what _read returned is what _write is told to send, and the
\* whole of it lies in the program's buffer.
ConsoleTypeOK ==
  /\ count \in 0 .. MaxLen /\ ptr \in Pointers
  /\ storing \in BOOLEAN /\ (pc # "idle" => count = 0 /\ ~storing)
  /\ \A i \in DOMAIN emitted : Len(emitted[i]) \in 1 .. MaxLen

\* The bytes read and not yet written are in the buffer, after those emitted.
InBuffer == [k \in 1 .. Len(rcvd) - Len(Output) |-> BusRead(ptr + k - 1)[(ptr + k - 1) % 4]]

\* End to end: until the host overruns the ring, what it gets back is what it
\* sent, in order, up to the bytes still in the guest's buffer and in the ring.
Echo == ~overrun => Output \o InBuffer \o Unread = sent

\* The program's buffer starts at a word.  Otherwise Echo fails: Block_Output reads
\* a block from the start of the word that it starts in.
Aligned == \A p \in Pointers : p % 4 = 0

\* Every byte stored in the ring is echoed, unless the host overruns the ring.
EchoArrives ==
  \A n \in 1 .. MaxSent : Len(sent) >= n ~> (overrun \/ Len(Output) >= n)
=============================================================================
