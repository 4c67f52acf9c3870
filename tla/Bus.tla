-------------------------------- MODULE Bus ----------------------------------
(***************************************************************************)
(* MemoryBus (src/bus.js) with the two plain memories behind it, RAM       *)
(* (src/ram.js) and ROM (src/rom.js).  Devices are attached to inclusive   *)
(* ranges of byte addresses; an access is rounded down to a word address   *)
(* and handed, at its offset from the start of the range, to the first     *)
(* device attached whose range holds it.                                   *)
(*                                                                         *)
(* Memories are kept byte by byte, because neither the start of a range    *)
(* nor the size of a memory has to be a multiple of the word.              *)
(***************************************************************************)
EXTENDS Integers, Sequences

CONSTANTS RAMs, ROMs,   \* the memories an embedder has created
          SizeOf,       \* and their sizes in bytes
          Byte,         \* the byte values stored
          Unbounded     \* the ROMs made with options.bounds false

Memory == RAMs \cup ROMs
Word == [0 .. 3 -> Byte]     \* little-endian: byte 0 is the lowest address
Zero == 0
Ones == 255                  \* every byte of 0xFFFFFFFF
Fault == <<>>                \* in place of a word: the access throws

ASSUME MemoryAssumption ==
  /\ RAMs \cap ROMs = {}
  /\ SizeOf \in [Memory -> Nat \ {0}]
  /\ \A d \in ROMs : SizeOf[d] % 4 = 0
ASSUME ByteAssumption == {Zero, Ones} \subseteq Byte
ASSUME UnboundedAssumption == Unbounded \subseteq ROMs

\* A device in the list of the bus, with the range it was attached to.
Entries == [device : Memory, start : Nat, end : Nat]

VARIABLES devices,   \* MemoryBus.devices, in order of attachment
          mem        \* the bytes of each memory

-----------------------------------------------------------------------------
(* The memories. *)

Fill(b) == [k \in 0 .. 3 |-> b]

\* DataView.getUint32 and setUint32 need all four bytes; ROM only whole words.
Fits(d, off) ==
  IF d \in RAMs THEN off + 4 <= SizeOf[d] ELSE off % 4 = 0 /\ off < SizeOf[d]

MemRead(d, off) ==
  CASE Fits(d, off) -> [k \in 0 .. 3 |-> mem[d][off + k]]
    [] ~Fits(d, off) /\ d \in Unbounded /\ off >= SizeOf[d] -> Fill(Ones)
    [] OTHER -> Fault

MemWrites(d, off) == d \in RAMs /\ Fits(d, off)

-----------------------------------------------------------------------------
(* Routing. *)

WordAddress(a) == 4 * (a \div 4)

Covers(entry, a) == entry.start <= a /\ a <= entry.end

Hits(a) == {i \in DOMAIN devices : Covers(devices[i], WordAddress(a))}

Route_Last(a) == CHOOSE i \in Hits(a) : \A j \in Hits(a) : j <= i
Route(a) == CHOOSE i \in Hits(a) : \A j \in Hits(a) : i <= j

Target(a) == devices[Route(a)].device
TargetOffset_ByByte(a) == a - devices[Route(a)].start
TargetOffset(a) == WordAddress(a) - devices[Route(a)].start

BusRead(a) == IF Hits(a) = {} THEN Fault ELSE MemRead(Target(a), TargetOffset(a))

BusWrites(a) == Hits(a) # {} /\ MemWrites(Target(a), TargetOffset(a))

\* The memories after a word w is written at address a, if that succeeds.
MemAfter(a, w) ==
  [mem EXCEPT ![Target(a)] =
     [o \in DOMAIN @ |-> LET k == o - TargetOffset(a)
                         IN  IF k \in 0 .. 3 THEN w[k] ELSE @[o]]]

-----------------------------------------------------------------------------
(* Attachment. *)

Hi(a, b) == IF a > b THEN a ELSE b
Lo(a, b) == IF a < b THEN a ELSE b

\* The test of attach: strict, on ranges whose ends are inclusive.
Overlaps_NewStart(entry, s, e) == entry.start <= s /\ s <= entry.end
Overlaps(entry, s, e) == Hi(entry.start, s) < Lo(entry.end, e)

CanAttach_AnyOrder(s, e) == \A i \in DOMAIN devices : ~Overlaps(devices[i], s, e)
CanAttach(s, e) ==
  /\ s <= e
  /\ \A i \in DOMAIN devices : ~Overlaps(devices[i], s, e)

Attach(d, s, e) ==
  /\ CanAttach(s, e)
  /\ devices' = Append(devices, [device |-> d, start |-> s, end |-> e])
=============================================================================
