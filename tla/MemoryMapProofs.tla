--------------------------- MODULE MemoryMapProofs ---------------------------
(***************************************************************************)
(* Proofs about the bus, for every set of memories and every map that can  *)
(* be attached: which device serves an address, what a read returns after  *)
(* a write, and from these what MemoryMap promises.  The proofs about DMA  *)
(* and Console rest on the lemmas about the bus.                           *)
(***************************************************************************)
EXTENDS MemoryMap, WellFoundedInduction, TLAPS

\* What is attached, and the bytes that each memory has.
MapOK == devices \in Seq(Entries)
MemOK == /\ DOMAIN mem = Memory
         /\ \A d \in Memory : mem[d] \in [0 .. SizeOf[d] - 1 -> Byte]

-----------------------------------------------------------------------------
(* Routing. *)

\* A word address is the first of the four byte addresses of its word.
LEMMA WordAddressIsAligned ==
  ASSUME NEW a \in Nat
  PROVE  /\ WordAddress(a) \in Nat /\ WordAddress(a) % 4 = 0
         /\ WordAddress(a) <= a /\ a <= WordAddress(a) + 3
         /\ WordAddress(WordAddress(a)) = WordAddress(a)
BY DEF WordAddress

\* A set of natural numbers that is not empty has a least element.
LEMMA HasLeast ==
  ASSUME NEW T \in SUBSET Nat, T # {}
  PROVE  \E m \in T : \A n \in T : m <= n
<1>1. PICK m \in T : \A n \in T : ~(<<n, m>> \in OpToRel(<, Nat))
  BY NatLessThanWellFounded, WFMin
<1>2. \A n \in T : ~(n < m)
  BY <1>1 DEF OpToRel
<1>3. QED
  BY <1>2

\* The device that serves an address is the first in the list whose range covers it.
LEMMA RouteIsFirst ==
  ASSUME MapOK, NEW a, Hits(a) # {}
  PROVE  Route(a) \in Hits(a) /\ \A j \in Hits(a) : Route(a) <= j
<1>1. Hits(a) \in SUBSET Nat
  BY DEF Hits, MapOK
<1>2. QED
  BY <1>1, HasLeast DEF Route

\* It is a memory, and the offset it sees counts from the start of its range.
LEMMA TargetIsMemory ==
  ASSUME MapOK, NEW a \in Nat, Hits(a) # {}
  PROVE  Target(a) \in Memory /\ TargetOffset(a) \in Nat
<1>1. Route(a) \in DOMAIN devices /\ Covers(devices[Route(a)], WordAddress(a))
  BY RouteIsFirst DEF Hits
<1>2. devices[Route(a)] \in Entries
  BY <1>1 DEF MapOK
<1>3. WordAddress(a) \in Nat
  BY WordAddressIsAligned
<1>4. Target(a) \in Memory
  BY <1>2 DEF Target, Entries
<1>5. TargetOffset(a) \in Nat
  BY <1>1, <1>2, <1>3 DEF TargetOffset, Covers, Entries
<1>6. QED
  BY <1>4, <1>5

\* Bytes of one word are served alike.
LEMMA WordIsServedAlike ==
  ASSUME NEW a \in Nat, NEW b \in Nat, WordAddress(a) = WordAddress(b)
  PROVE  /\ Hits(a) = Hits(b) /\ Target(a) = Target(b) /\ TargetOffset(a) = TargetOffset(b)
         /\ BusRead(a) = BusRead(b)
BY DEF Hits, Target, Route, TargetOffset, BusRead

\* A device attached later serves only addresses that none before it serves.
LEMMA AttachKeepsRoutes ==
  ASSUME MapOK, NEW entry \in Entries, devices' = Append(devices, entry),
         NEW a \in Nat, Hits(a) # {}
  PROVE  /\ Hits(a)' # {} /\ Target(a)' = Target(a) /\ TargetOffset(a)' = TargetOffset(a)
<1>1. /\ Hits(a) \subseteq Hits(a)'
      /\ Hits(a)' \subseteq Hits(a) \cup {Len(devices) + 1}
      /\ \A i \in Hits(a) : i \in Nat /\ i <= Len(devices) /\ devices'[i] = devices[i]
      /\ Len(devices) \in Nat
  BY DEF Hits, MapOK, Covers
<1>2. MapOK'
  BY DEF MapOK
<1>3. Route(a) \in Hits(a) /\ \A j \in Hits(a) : Route(a) <= j
  BY RouteIsFirst
<1>4. Route(a) \in Hits(a)' /\ \A j \in Hits(a)' : Route(a) <= j
  BY <1>1, <1>3
<1>5. Route(a)' = CHOOSE i \in Hits(a)' : \A j \in Hits(a)' : i <= j
  BY DEF Route
<1>6. \A i \in Hits(a)' : i \in Nat
  BY <1>1
<1>7. Route(a)' = Route(a)
  BY <1>4, <1>5, <1>6
<1>8. QED
  BY <1>1, <1>3, <1>7 DEF Target, TargetOffset
-----------------------------------------------------------------------------
(* Reading and writing. *)

\* Of the memories, the word w has replaced the four bytes of one, from `at` on.
Overlaid(into, at, w) ==
  /\ DOMAIN mem' = Memory
  /\ \A m \in Memory \ {into} : mem'[m] = mem[m]
  /\ mem'[into] \in [0 .. SizeOf[into] - 1 -> Byte]
  /\ \A o \in 0 .. SizeOf[into] - 1 :
       mem'[into][o] = IF o - at \in 0 .. 3 THEN w[o - at] ELSE mem[into][o]

\* That is what a write does that succeeds, to a RAM that has these bytes.
LEMMA WriteOverlays ==
  ASSUME MapOK, MemOK, NEW a \in Nat, NEW w \in Word, BusWrites(a), mem' = MemAfter(a, w)
  PROVE  \E into \in RAMs, at \in Nat :
           /\ into = Target(a) /\ at = TargetOffset(a)
           /\ SizeOf[into] \in Nat /\ at + 4 <= SizeOf[into]
           /\ Overlaid(into, at, w)
<1>1. PICK d \in RAMs, off \in Nat : d = Target(a) /\ off = TargetOffset(a)
  BY TargetIsMemory DEF BusWrites, MemWrites
<1>2. d \in Memory /\ SizeOf[d] \in Nat /\ off + 4 <= SizeOf[d]
  BY <1>1, MemoryAssumption DEF BusWrites, MemWrites, Fits, Memory
<1>3. /\ DOMAIN mem' = Memory
      /\ \A m \in Memory \ {d} : mem'[m] = mem[m]
      /\ mem'[d] = [o \in DOMAIN mem[d] |-> LET k == o - off
                                            IN  IF k \in 0 .. 3 THEN w[k] ELSE mem[d][o]]
  BY <1>1, <1>2 DEF MemAfter, MemOK
<1>4. DOMAIN mem[d] = 0 .. SizeOf[d] - 1
  BY <1>2 DEF MemOK
<1>5. ASSUME NEW o \in 0 .. SizeOf[d] - 1
      PROVE  mem'[d][o] = IF o - off \in 0 .. 3 THEN w[o - off] ELSE mem[d][o]
  BY <1>2, <1>3, <1>4
<1>6. mem'[d] \in [0 .. SizeOf[d] - 1 -> Byte]
  BY <1>2, <1>3, <1>4 DEF Word, MemOK
<1>7. Overlaid(d, off, w)
  BY <1>3, <1>5, <1>6 DEF Overlaid
<1>8. QED
  BY <1>1, <1>2, <1>7

\* A write keeps every memory the bytes it has.
LEMMA WriteKeepsMemory ==
  ASSUME MapOK, MemOK, NEW a \in Nat, NEW w \in Word, BusWrites(a), mem' = MemAfter(a, w)
  PROVE  MemOK'
<1>1. PICK into \in RAMs, at \in Nat : Overlaid(into, at, w)
  BY WriteOverlays
<1>2. QED
  BY <1>1 DEF Overlaid, MemOK

\* Routing looks at the list of devices alone.
LEMMA RoutesKept ==
  ASSUME devices' = devices, NEW a
  PROVE  Hits(a)' = Hits(a) /\ Target(a)' = Target(a) /\ TargetOffset(a)' = TargetOffset(a)
BY DEF Hits, Route, Target, TargetOffset

\* What a read returns, before and after a step that leaves the map alone.
LEMMA ReadsFit ==
  ASSUME devices' = devices, NEW a, Hits(a) # {}
  PROVE  LET d == Target(a)
             off == TargetOffset(a)
         IN  /\ Fits(d, off)
                  => /\ BusRead(a) = [k \in 0 .. 3 |-> mem[d][off + k]]
                     /\ BusRead(a)' = [k \in 0 .. 3 |-> mem'[d][off + k]]
             /\ ~Fits(d, off) => BusRead(a)' = BusRead(a)
<1>. DEFINE d == Target(a)
            off == TargetOffset(a)
<1>1. Hits(a)' # {} /\ Target(a)' = d /\ TargetOffset(a)' = off
  BY RoutesKept
<1>2. BusRead(a) = MemRead(d, off) /\ BusRead(a)' = MemRead(d, off)'
  BY <1>1 DEF BusRead, MemRead, Fits
<1>3. QED
  BY <1>1, <1>2 DEF MemRead, Fits

\* A read that does not throw returns a word.
LEMMA ReadIsWord ==
  ASSUME MapOK, MemOK, NEW a \in Nat, BusRead(a) # Fault
  PROVE  Hits(a) # {} /\ BusRead(a) \in Word
<1>1. Hits(a) # {}
  BY DEF BusRead
<1>2. PICK d \in Memory, off \in Nat : d = Target(a) /\ off = TargetOffset(a)
  BY <1>1, TargetIsMemory
<1>3. CASE Fits(d, off)
  <2>1. SizeOf[d] \in Nat /\ off + 4 <= SizeOf[d]
    <3>1. CASE d \in RAMs
      BY <1>3, <3>1, MemoryAssumption DEF Fits, Memory
    <3>2. CASE d \notin RAMs
      <4>1. d \in ROMs /\ SizeOf[d] \in Nat /\ SizeOf[d] % 4 = 0
        BY <3>2, MemoryAssumption DEF Memory
      <4>2. off % 4 = 0 /\ off < SizeOf[d]
        BY <1>3, <3>2 DEF Fits
      <4>3. QED
        BY <4>1, <4>2
    <3>3. QED
      BY <3>1, <3>2
  <2>2. \A k \in 0 .. 3 : mem[d][off + k] \in Byte
    <3>1. ASSUME NEW k \in 0 .. 3 PROVE off + k \in 0 .. SizeOf[d] - 1
      BY <2>1
    <3>2. QED
      BY <3>1 DEF MemOK
  <2>3. BusRead(a) = [k \in 0 .. 3 |-> mem[d][off + k]]
    BY <1>1, <1>2, <1>3 DEF BusRead, MemRead
  <2>4. QED
    BY <1>1, <2>2, <2>3 DEF Word
<1>4. CASE ~Fits(d, off)
  <2>1. BusRead(a) = Fill(Ones)
    BY <1>1, <1>2, <1>4 DEF BusRead, MemRead
  <2>2. QED
    BY <1>1, <2>1, ByteAssumption DEF Fill, Word
<1>5. QED
  BY <1>3, <1>4

\* A word written to a memory that takes it is read back, at any byte of it.
LEMMA ReadAfterWrite ==
  ASSUME MapOK, MemOK, NEW a \in Nat, NEW w \in Word, BusWrites(a),
         mem' = MemAfter(a, w), devices' = devices
  PROVE  BusRead(a)' = w
<1>1. PICK d \in RAMs, off \in Nat :
        /\ d = Target(a) /\ off = TargetOffset(a)
        /\ SizeOf[d] \in Nat /\ off + 4 <= SizeOf[d]
        /\ Overlaid(d, off, w)
  BY WriteOverlays
<1>2. BusRead(a)' = [k \in 0 .. 3 |-> mem'[d][off + k]]
  BY <1>1, ReadsFit DEF BusWrites, Fits
<1>3. ASSUME NEW k \in 0 .. 3 PROVE mem'[d][off + k] = w[k]
  <2>1. PICK o \in 0 .. SizeOf[d] - 1 : o = off + k
    BY <1>1
  <2>2. o - off = k
    BY <2>1
  <2>3. mem'[d][o] = IF o - off \in 0 .. 3 THEN w[o - off] ELSE mem[d][o]
    BY <1>1 DEF Overlaid
  <2>4. QED
    BY <2>1, <2>2, <2>3
<1>4. QED
  BY <1>2, <1>3 DEF Word

\* A read changes only if it reaches a byte that was written.
LEMMA ReadElsewhere ==
  ASSUME MapOK, MemOK, NEW a \in Nat, NEW w \in Word, BusWrites(a),
         mem' = MemAfter(a, w), devices' = devices,
         NEW b \in Nat,
         Hits(b) # {} /\ Target(a) = Target(b)
           => TargetOffset(a) - TargetOffset(b) \notin -3 .. 3
  PROVE  BusRead(b)' = BusRead(b)
<1>1. CASE Hits(b) = {}
  BY <1>1, RoutesKept DEF BusRead
<1>2. CASE Hits(b) # {} /\ ~Fits(Target(b), TargetOffset(b))
  BY <1>2, ReadsFit
<1>3. CASE Hits(b) # {} /\ Fits(Target(b), TargetOffset(b))
  <2>1. PICK into \in RAMs, at \in Nat :
          into = Target(a) /\ at = TargetOffset(a) /\ Overlaid(into, at, w)
    BY WriteOverlays
  <2>2. PICK d \in Memory, off \in Nat : d = Target(b) /\ off = TargetOffset(b)
    BY <1>3, TargetIsMemory
  <2>3. SizeOf[d] \in Nat /\ off + 4 <= SizeOf[d]
    BY <1>3, <2>2, MemoryAssumption DEF Fits, Memory
  <2>4. ASSUME NEW k \in 0 .. 3 PROVE mem'[d][off + k] = mem[d][off + k]
    <3>1. CASE into # d
      BY <2>1, <3>1 DEF Overlaid
    <3>2. CASE into = d
      <4>1. at - off \notin -3 .. 3
        BY <1>3, <2>1, <2>2, <3>2
      <4>2. PICK o \in 0 .. SizeOf[d] - 1 : o = off + k
        BY <2>3
      <4>3. o - at \notin 0 .. 3
        BY <4>1, <4>2
      <4>4. QED
        BY <2>1, <3>2, <4>2, <4>3 DEF Overlaid
    <3>3. QED
      BY <3>1, <3>2
  <2>5. QED
    BY <1>3, <2>2, <2>4, ReadsFit
<1>4. QED
  BY <1>1, <1>2, <1>3

-----------------------------------------------------------------------------
(* Memories that are attached in one place. *)

\* Each memory is found in one place only.
Placed ==
  \A i, j \in DOMAIN devices :
    devices[i].device = devices[j].device => devices[i].start = devices[j].start

\* So different words of the address space have no byte in common.
LEMMA NoAlias ==
  ASSUME MapOK, Placed, NEW a \in Nat, NEW b \in Nat,
         WordAddress(a) # WordAddress(b), Hits(a) # {}
  PROVE  Hits(b) # {} /\ Target(a) = Target(b)
           => TargetOffset(a) - TargetOffset(b) \notin -3 .. 3
<1>. SUFFICES ASSUME Hits(b) # {}, Target(a) = Target(b)
              PROVE  TargetOffset(a) - TargetOffset(b) \notin -3 .. 3
  OBVIOUS
<1>1. PICK i \in DOMAIN devices, j \in DOMAIN devices : i = Route(a) /\ j = Route(b)
  BY RouteIsFirst DEF Hits
<1>2. devices[i].start = devices[j].start /\ devices[i] \in Entries
  BY <1>1 DEF Placed, Target, MapOK
<1>3. PICK s \in Nat : s = devices[i].start /\ s = devices[j].start
  BY <1>2 DEF Entries
<1>4. PICK u \in Nat, v \in Nat : u = WordAddress(a) /\ v = WordAddress(b)
  BY WordAddressIsAligned
<1>5. TargetOffset(a) = u - s /\ TargetOffset(b) = v - s
  BY <1>1, <1>3, <1>4 DEF TargetOffset
<1>6. u % 4 = 0 /\ v % 4 = 0 /\ u # v
  BY <1>4, WordAddressIsAligned
<1>7. QED
  BY <1>5, <1>6


\* There, a write changes what is read in its own word and nowhere else.
LEMMA WriteIsLocal ==
  ASSUME MapOK, MemOK, Placed, NEW a \in Nat, NEW w \in Word, BusWrites(a),
         mem' = MemAfter(a, w), devices' = devices, NEW b \in Nat
  PROVE  BusRead(b)' = IF WordAddress(b) = WordAddress(a) THEN w ELSE BusRead(b)
<1>1. CASE WordAddress(b) = WordAddress(a)
  <2>1. BusRead(b)' = BusRead(a)'
    BY <1>1 DEF BusRead, Hits, Target, Route, TargetOffset, MemRead, Fits
  <2>2. QED
    BY <1>1, <2>1, ReadAfterWrite
<1>2. CASE WordAddress(b) # WordAddress(a)
  <2>1. Hits(a) # {}
    BY DEF BusWrites
  <2>2. QED
    BY <1>2, <2>1, NoAlias, ReadElsewhere
<1>3. QED
  BY <1>1, <1>2

-----------------------------------------------------------------------------
(* The state of MemoryMap. *)

Entry == [device : Memory, start : Starts, end : Ends]

\* What the invariants rest on: what is attached, and the bytes of the memories.
MapStateOK == MapTypeOK /\ MapOK /\ MemOK

-----------------------------------------------------------------------------
(* Type correctness. *)

LEMMA EntryIsEntry == Entry \subseteq Entries
BY MapAssumption DEF Entry, Entries

LEMMA InitMapStateOK == MapInit => MapStateOK
<1>. SUFFICES ASSUME MapInit PROVE MapStateOK
  OBVIOUS
<1>1. MapOK /\ devices \in Seq(Entry) /\ DOMAIN devices = {}
  BY DEF MapInit, MapOK
<1>2. MemOK
  BY ByteAssumption DEF MapInit, MemOK
<1>3. QED
  BY <1>1, <1>2 DEF MapInit, MapStateOK, MapTypeOK, MemOK, Entry

\* Only attachment changes the list of devices, by adding one at its end.
LEMMA DevicesGrow ==
  ASSUME [MapNext]_mapVars
  PROVE  \/ UNCHANGED devices
         \/ \E d \in Memory, s \in Starts, e \in Ends :
              /\ CanAttach(s, e)
              /\ devices' = Append(devices, [device |-> d, start |-> s, end |-> e])
BY DEF MapNext, AttachMemory, Attach, Write, ReadOrThrow, mapVars

LEMMA StepMapStateOK == MapStateOK /\ [MapNext]_mapVars => MapStateOK'
<1>. SUFFICES ASSUME MapStateOK, [MapNext]_mapVars PROVE MapStateOK'
  OBVIOUS
<1>1. ASSUME NEW d \in Memory, NEW s \in Starts, NEW e \in Ends, AttachMemory(d, s, e)
      PROVE  MapStateOK'
  <2>. DEFINE new == [device |-> d, start |-> s, end |-> e]
  <2>1. /\ devices' = Append(devices, new) /\ s <= e
        /\ mem' = mem /\ last' = last
    BY <1>1 DEF AttachMemory, Attach, CanAttach
  <2>2. new \in Entry /\ new \in Entries
    BY EntryIsEntry DEF Entry
  <2>3. devices' \in Seq(Entry) /\ MapOK'
    BY <2>1, <2>2 DEF MapStateOK, MapTypeOK, MapOK, Entry
  <2>4. \A i \in DOMAIN devices' : devices'[i].start <= devices'[i].end
    BY <2>1, <2>2 DEF MapStateOK, MapTypeOK, Entry
  <2>5. QED
    BY <2>1, <2>3, <2>4 DEF MapStateOK, MapTypeOK, MemOK, Entry
<1>2. ASSUME NEW a \in Addresses, NEW b \in Byte, Write(a, Fill(b))
      PROVE  MapStateOK'
  <2>1. Fill(b) \in Word /\ a \in Nat
    BY MapAssumption DEF Fill, Word
  <2>2. MemOK'
    BY <1>2, <2>1, WriteKeepsMemory DEF MapStateOK, Write
  <2>3. last' \in [WordAddresses -> Word \cup {NoWord}]
    BY <1>2, <2>1 DEF MapStateOK, MapTypeOK, Write
  <2>4. QED
    BY <1>2, <2>2, <2>3 DEF MapStateOK, MapTypeOK, MapOK, MemOK, Write
<1>3. CASE UNCHANGED mapVars
  BY <1>3 DEF mapVars, MapStateOK, MapTypeOK, MapOK, MemOK
<1>4. QED
  BY <1>1, <1>2, <1>3 DEF MapNext, ReadOrThrow

\* Whatever is attached and written, the map is a list of non-empty ranges of
\* memories, and each memory keeps its size.
THEOREM MapTypeCorrect == MapSpec => []MapTypeOK
<1>1. MapStateOK => MapTypeOK
  BY DEF MapStateOK
<1>2. QED
  BY InitMapStateOK, StepMapStateOK, <1>1, PTL DEF MapSpec

-----------------------------------------------------------------------------
(* Ranges and routes. *)

\* Ranges that attach's test lets through have at most one address in common.
LEMMA NoOverlapSharesOne ==
  ASSUME NEW entry \in Entry, NEW s \in Starts, NEW e \in Ends,
         ~Overlaps(entry, s, e),
         NEW a \in (entry.start .. entry.end) \cap (s .. e),
         NEW b \in (entry.start .. entry.end) \cap (s .. e)
  PROVE  a = b
<1>1. entry.start \in Nat /\ entry.end \in Nat /\ s \in Nat /\ e \in Nat
  BY MapAssumption DEF Entry
<1>2. QED
  BY <1>1 DEF Overlaps, Hi, Lo

LEMMA InitShared == MapInit => SharedAddressIsSingle
BY DEF MapInit, SharedAddressIsSingle

LEMMA StepShared ==
  MapStateOK /\ SharedAddressIsSingle /\ [MapNext]_mapVars => SharedAddressIsSingle'
<1>. SUFFICES ASSUME MapStateOK, SharedAddressIsSingle, [MapNext]_mapVars
              PROVE  SharedAddressIsSingle'
  OBVIOUS
<1>1. CASE UNCHANGED devices
  BY <1>1 DEF SharedAddressIsSingle, RangeOf
<1>2. ASSUME NEW d \in Memory, NEW s \in Starts, NEW e \in Ends, CanAttach(s, e),
             devices' = Append(devices, [device |-> d, start |-> s, end |-> e])
      PROVE  SharedAddressIsSingle'
  <2>. DEFINE new == [device |-> d, start |-> s, end |-> e]
  <2>1. /\ devices \in Seq(Entry) /\ new \in Entry /\ devices' \in Seq(Entry)
        /\ Len(devices') = Len(devices) + 1
        /\ devices'[Len(devices) + 1] = new
        /\ \A i \in DOMAIN devices : devices'[i] = devices[i]
    BY <1>2 DEF MapStateOK, MapTypeOK, Entry
  <2>2. ASSUME NEW i \in DOMAIN devices,
               NEW a \in (devices[i].start .. devices[i].end) \cap (s .. e),
               NEW b \in (devices[i].start .. devices[i].end) \cap (s .. e)
        PROVE  a = b
    BY <1>2, <2>1, <2>2, NoOverlapSharesOne DEF CanAttach
  <2>3. ASSUME NEW i \in DOMAIN devices', NEW j \in DOMAIN devices', i # j,
               NEW a \in RangeOf(i)' \cap RangeOf(j)', NEW b \in RangeOf(i)' \cap RangeOf(j)'
        PROVE  a = b
    <3>1. CASE i \in DOMAIN devices /\ j \in DOMAIN devices
      BY <2>1, <2>3, <3>1 DEF SharedAddressIsSingle, RangeOf
    <3>2. CASE i \in DOMAIN devices /\ j = Len(devices) + 1
      BY <2>1, <2>2, <2>3, <3>2 DEF RangeOf
    <3>3. CASE i = Len(devices) + 1 /\ j \in DOMAIN devices
      BY <2>1, <2>2, <2>3, <3>3 DEF RangeOf
    <3>4. QED
      BY <2>1, <2>3, <3>1, <3>2, <3>3
  <2>4. QED
    BY <2>1, <2>3 DEF SharedAddressIsSingle
<1>3. QED
  BY <1>1, <1>2, DevicesGrow

\* Whatever is attached, in whatever order, no two ranges share two addresses.
THEOREM SharedAddresses == MapSpec => []SharedAddressIsSingle
BY InitMapStateOK, StepMapStateOK, InitShared, StepShared, PTL DEF MapSpec

\* On a map of whole words, an address within a range has its whole word there, and
\* two ranges that hold one word share four addresses.
THEOREM WordMapExact == MapSpec => []WordMapIsExact
<1>1. MapStateOK /\ SharedAddressIsSingle => WordMapIsExact
  <2>. SUFFICES ASSUME MapStateOK, SharedAddressIsSingle,
                       \A i \in DOMAIN devices :
                          devices[i].start % 4 = 0 /\ devices[i].end % 4 = 3,
                       NEW a \in Addresses, NEW i \in DOMAIN devices,
                       Covers(devices[i], a)
                PROVE  Route(a) = i
    BY DEF WordMapIsExact
  <2>1. a \in Nat /\ \A j \in DOMAIN devices : devices[j].start \in Nat /\ devices[j].end \in Nat
    <3>1. \A j \in DOMAIN devices : devices[j] \in Entries
      BY DEF MapStateOK, MapOK
    <3>2. QED
      BY <3>1, MapAssumption DEF Entries
  <2>. DEFINE w == WordAddress(a)
  <2>2. w \in Nat /\ w % 4 = 0 /\ w <= a /\ a <= w + 3
    BY <2>1, WordAddressIsAligned
  <2>. HIDE DEF w
  <2>3. i \in Hits(a)
    <3>1. devices[i].start <= w /\ w <= devices[i].end
      BY <2>1, <2>2 DEF Covers
    <3>2. QED
      BY <3>1 DEF Hits, Covers, w
  <2>4. ASSUME NEW j \in Hits(a) PROVE w \in RangeOf(j) /\ w + 1 \in RangeOf(j)
    <3>1. j \in DOMAIN devices /\ devices[j].start <= w /\ w <= devices[j].end
      BY DEF Hits, Covers, w
    <3>2. w + 1 <= devices[j].end
      BY <2>1, <2>2, <3>1
    <3>3. QED
      BY <2>1, <2>2, <3>1, <3>2 DEF RangeOf
  <2>5. ASSUME NEW j \in Hits(a) PROVE j = i
    <3>1. w # w + 1
      BY <2>2
    <3>2. j \in DOMAIN devices
      BY DEF Hits
    <3>3. QED
      BY <2>3, <2>4, <3>1, <3>2 DEF SharedAddressIsSingle
  <2>6. QED
    BY <2>3, <2>5, RouteIsFirst DEF MapStateOK
<1>2. QED
  BY InitMapStateOK, StepMapStateOK, InitShared, StepShared, <1>1, PTL DEF MapSpec

\* No later attachment takes an address from the device that serves it.
THEOREM RoutingStable == MapSpec => RoutingIsStable
<1>1. ASSUME MapStateOK, [MapNext]_mapVars, NEW a \in Addresses, Hits(a) # {}
      PROVE  /\ Hits(a)' # {} /\ Target(a)' = Target(a)
             /\ TargetOffset(a)' = TargetOffset(a)
  <2>1. CASE UNCHANGED devices
    BY <1>1, <2>1, RoutesKept
  <2>2. ASSUME NEW d \in Memory, NEW s \in Starts, NEW e \in Ends,
               devices' = Append(devices, [device |-> d, start |-> s, end |-> e])
        PROVE  /\ Hits(a)' # {} /\ Target(a)' = Target(a)
               /\ TargetOffset(a)' = TargetOffset(a)
    <3>1. [device |-> d, start |-> s, end |-> e] \in Entries /\ a \in Nat
      BY MapAssumption DEF Entries
    <3>2. QED
      BY <1>1, <2>2, <3>1, AttachKeepsRoutes DEF MapStateOK
  <2>3. QED
    BY <1>1, <2>1, <2>2, DevicesGrow
<1>2. MapStateOK /\ [MapNext]_mapVars
        => [\A a \in Addresses :
              Hits(a) # {} => Hits(a)' # {} /\ Target(a)' = Target(a)
                              /\ TargetOffset(a)' = TargetOffset(a)]_mapVars
  BY <1>1
<1>3. QED
  BY InitMapStateOK, StepMapStateOK, <1>2, PTL DEF MapSpec, RoutingIsStable

-----------------------------------------------------------------------------
(* Coherence. *)

\* An address of the bus masters and its word address read the same.
LEMMA ReadsOfWord ==
  ASSUME NEW a \in Addresses
  PROVE  /\ a \in Nat /\ WordAddress(a) \in Nat /\ WordAddress(a) \in WordAddresses
         /\ BusRead(WordAddress(a)) = BusRead(a)
<1>1. a \in Nat /\ WordAddress(a) \in Nat /\ WordAddress(a) \in WordAddresses
  BY MapAssumption, WordAddressIsAligned DEF WordAddresses
<1>2. WordAddress(WordAddress(a)) = WordAddress(a)
  BY <1>1, WordAddressIsAligned
<1>3. QED
  BY <1>1, <1>2, WordIsServedAlike

\* Coherent, of the word addresses themselves.
CoherentAt(b) == last[b] # NoWord => BusRead(b) = last[b]

\* A read of a word address returns the word last written there, for every map,
\* every order of attachment and every mix of aliased memories.
THEOREM ReadsLastWrite == MapSpec => []Coherent
<1>. DEFINE CInv == \A b \in WordAddresses : CoherentAt(b)
<1>1. MapInit => CInv
  BY DEF MapInit, CoherentAt
<1>2. MapStateOK /\ CInv /\ [MapNext]_mapVars => CInv'
  <2>. SUFFICES ASSUME MapStateOK, CInv, [MapNext]_mapVars, NEW b \in WordAddresses
                PROVE  CoherentAt(b)'
    OBVIOUS
  <2>0. b \in Nat /\ CoherentAt(b)
    BY ReadsOfWord DEF WordAddresses
  <2>1. ASSUME NEW d \in Memory, NEW s \in Starts, NEW e \in Ends, AttachMemory(d, s, e)
        PROVE  CoherentAt(b)'
    <3>1. CASE last[b] = NoWord
      BY <2>1, <3>1 DEF AttachMemory, CoherentAt
    <3>2. CASE last[b] # NoWord
      <4>1. Hits(b) # {}
        BY <2>0, <3>2 DEF CoherentAt, BusRead, Fault, NoWord
      <4>2. [device |-> d, start |-> s, end |-> e] \in Entries
        BY MapAssumption DEF Entries
      <4>3. Hits(b)' # {} /\ Target(b)' = Target(b) /\ TargetOffset(b)' = TargetOffset(b)
        BY <2>0, <2>1, <4>1, <4>2, AttachKeepsRoutes DEF AttachMemory, Attach, MapStateOK
      <4>4. BusRead(b)' = BusRead(b) /\ last' = last
        BY <2>1, <4>1, <4>3 DEF AttachMemory, BusRead, MemRead, Fits
      <4>5. QED
        BY <2>0, <4>4 DEF CoherentAt
    <3>3. QED
      BY <3>1, <3>2
  <2>2. ASSUME NEW a \in Addresses, NEW x \in Byte, Write(a, Fill(x))
        PROVE  CoherentAt(b)'
    <3>. DEFINE w == Fill(x)
    <3>1. /\ w \in Word /\ a \in Nat /\ BusWrites(a)
          /\ mem' = MemAfter(a, w) /\ devices' = devices
      BY <2>2, MapAssumption DEF Write, Fill, Word
    <3>2. last'[b] = IF b = WordAddress(a) THEN w
                     ELSE IF Alias(a, b) THEN NoWord ELSE last[b]
      BY <2>2 DEF Write
    <3>3. CASE b = WordAddress(a)
      <4>1. WordAddress(b) = WordAddress(a)
        BY <3>1, <3>3, WordAddressIsAligned
      <4>2. BusWrites(b) /\ MemAfter(b, w) = MemAfter(a, w)
        BY <2>0, <3>1, <4>1, WordIsServedAlike DEF BusWrites, MemAfter
      <4>3. BusRead(b)' = w
        BY <2>0, <3>1, <4>2, ReadAfterWrite DEF MapStateOK
      <4>4. QED
        BY <3>2, <3>3, <4>3 DEF CoherentAt
    <3>4. CASE b # WordAddress(a) /\ Alias(a, b)
      BY <3>2, <3>4 DEF CoherentAt
    <3>5. CASE b # WordAddress(a) /\ ~Alias(a, b)
      <4>1. Hits(b) # {} /\ Target(a) = Target(b)
              => TargetOffset(a) - TargetOffset(b) \notin -3 .. 3
        BY <3>1, <3>5 DEF Alias, BusWrites
      <4>2. BusRead(b)' = BusRead(b)
        BY <2>0, <3>1, <4>1, ReadElsewhere DEF MapStateOK
      <4>3. QED
        BY <2>0, <3>2, <3>5, <4>2 DEF CoherentAt
    <3>6. QED
      BY <3>3, <3>4, <3>5
  <2>3. CASE UNCHANGED mapVars
    <3>1. BusRead(b)' = BusRead(b) /\ last' = last
      BY <2>3 DEF mapVars, BusRead, Hits, Target, Route, TargetOffset, MemRead, Fits
    <3>2. QED
      BY <2>0, <3>1 DEF CoherentAt
  <2>4. QED
    BY <2>1, <2>2, <2>3 DEF MapNext, ReadOrThrow
<1>3. CInv => Coherent
  BY ReadsOfWord DEF CoherentAt, Coherent
<1>4. QED
  BY InitMapStateOK, StepMapStateOK, <1>1, <1>2, <1>3, PTL DEF MapSpec
=============================================================================
