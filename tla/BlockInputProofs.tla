-------------------------- MODULE BlockInputProofs ---------------------------
(***************************************************************************)
(* Proofs about BlockInput, for every buffer size, byte set and bound, and *)
(* about Console, which joins it to the block device, for every bus that   *)
(* attaches each of its memories in one place and every set of buffers in  *)
(* its RAM.                                                                *)
(***************************************************************************)
EXTENDS Console, MemoryMapProofs, SequenceTheorems

(* The strengthening that makes Fifo inductive, stated byte by byte: the   *)
(* ring holds the unread suffix of the history, and the guest, once it has *)
(* seen data, still has data, the byte it fetched being the oldest unread. *)
Consistent ==
  /\ Len(sent) = Len(rcvd) + Used
  /\ \A i \in 1 .. Len(rcvd) : rcvd[i] = sent[i]
  /\ \A i \in 1 .. Used : ram[Offset(start + i - 1)] = sent[Len(rcvd) + i]
  /\ pc = "test" /\ start # seenEnd => Used # 0
  /\ pc \in {"load", "advance"} => Used # 0
  /\ pc = "advance" => byte = ram[start]

IInv == TypeOK /\ (~overrun => Consistent)

-----------------------------------------------------------------------------
(* Arithmetic of the ring. *)

\* Below twice the size, taking an offset modulo the size subtracts the size
\* at most once.
LEMMA ModWraps ==
  ASSUME NEW n \in Nat \ {0}, NEW x \in 0 .. 2 * n - 1
  PROVE  x % n = IF x < n THEN x ELSE x - n
OBVIOUS

LEMMA OffsetWraps ==
  ASSUME size \in Nat \ {0}, NEW x \in 0 .. 2 * size - 1
  PROVE  Offset(x) = IF x < size THEN x ELSE x - size
BY ModWraps DEF Offset

\* The count of unread bytes is the distance from start to end around the ring.
LEMMA UsedIsDistance ==
  ASSUME TypeOK
  PROVE  /\ Used = IF start <= end THEN end - start ELSE end - start + size
         /\ Used \in 0 .. size - 1
BY OffsetWraps, SizesAssumption DEF Used, TypeOK

\* A block is a sequence of bytes, and so is each prefix of it.
LEMMA BlocksAreSequences ==
  ASSUME size \in Nat, NEW data \in Blocks
  PROVE  /\ data \in Seq(Bytes)
         /\ \A k \in 0 .. Len(data) : /\ SubSeq(data, 1, k) \in Seq(Bytes)
                                      /\ Len(SubSeq(data, 1, k)) = k
<1>1. PICK n \in 0 .. size + 1 : data \in [1 .. n -> Bytes]
  BY DEF Blocks
<1>2. data \in Seq(Bytes)
  BY <1>1
<1>3. QED
  BY <1>2

-----------------------------------------------------------------------------
(* Type correctness. *)

\* appendData's loop preserves the type invariant.
LEMMA StoreBytesType ==
  ASSUME TypeOK, NEW bytes \in Seq(Bytes), Len(bytes) <= size,
         StoreBytes(bytes), UNCHANGED <<size, start, guest>>,
         outcome' \in {"ok", "ramFault"}
  PROVE  TypeOK'
<1>1. size' = size /\ size \in Nat \ {0} /\ Len(bytes) \in Nat
  BY SizesAssumption DEF TypeOK
<1>2. ram' \in [0 .. size' - 1 -> Cell]
  <2>1. ASSUME NEW o \in 0 .. size - 1, Offset(o - end + size) < Len(bytes)
        PROVE  bytes[Offset(o - end + size) + 1] \in Cell
    <3>1. end \in 0 .. size - 1
      BY DEF TypeOK
    <3>2. Offset(o - end + size) \in Nat
      BY <1>1, <3>1, OffsetWraps
    <3>3. QED
      BY <2>1, <3>2 DEF Cell
  <2>2. QED
    BY <1>1, <2>1 DEF TypeOK, StoreBytes
<1>3. end' \in 0 .. size' - 1
  BY SMTT(30), <1>1, OffsetWraps DEF TypeOK, StoreBytes
<1>4. sent' \in Seq(Bytes) /\ rcvd' \in Seq(Cell) /\ overrun' \in BOOLEAN
  BY DEF TypeOK, StoreBytes
<1>5. QED
  BY <1>1, <1>2, <1>3, <1>4 DEF TypeOK, guest

\* The type invariant holds initially.
LEMMA InitTypeOK == Init => TypeOK
BY SizesAssumption, BoundsAssumption DEF Init, TypeOK, Cell

\* Every step of the host and of the guest preserves the type invariant.
LEMMA StepTypeOK == TypeOK /\ [Next]_vars => TypeOK'
<1>. SUFFICES ASSUME TypeOK, [Next]_vars PROVE TypeOK'
  OBVIOUS
<1>0. size \in Nat \ {0}
  BY SizesAssumption DEF TypeOK
<1>1. ASSUME NEW data \in Blocks, AppendData(data) PROVE TypeOK'
  BY <1>0, <1>1, BlocksAreSequences, StoreBytesType DEF AppendData
<1>2. ASSUME NEW data \in Blocks, AppendFault(data) PROVE TypeOK'
  <2>1. PICK k \in 0 .. Len(data) - 1 : StoreBytes(SubSeq(data, 1, k))
    BY <1>2 DEF AppendFault
  <2>2. SubSeq(data, 1, k) \in Seq(Bytes) /\ Len(SubSeq(data, 1, k)) <= size
    BY <1>0, <1>2, <2>1, BlocksAreSequences DEF AppendFault
  <2>3. QED
    BY <1>2, <2>1, <2>2, StoreBytesType DEF AppendFault
<1>3. ASSUME NEW data \in Blocks, AppendTooBig(data) PROVE TypeOK'
  BY <1>3 DEF AppendTooBig, TypeOK, guest
<1>4. ASSUME NEW n \in 1 .. MaxLen, Call(n) PROVE TypeOK'
  BY <1>4, BoundsAssumption DEF Call, TypeOK
<1>5. CASE LoadEnd
  BY <1>5 DEF LoadEnd, TypeOK
<1>6. CASE Test
  BY <1>0, <1>6, BoundsAssumption DEF Test, Return, TypeOK
<1>7. CASE LoadByte
  BY <1>7 DEF LoadByte, TypeOK
<1>8. CASE Advance
  <2>1. start' \in 0 .. size' - 1
    BY <1>0, <1>8, OffsetWraps DEF Advance, TypeOK
  <2>2. rcvd' \in Seq(Cell) /\ byte' \in Cell
    BY <1>8 DEF Advance, TypeOK, Cell
  <2>3. /\ len' \in 0 .. MaxLen /\ DataIdx' \in 0 .. len'
        /\ pc' # "idle" => DataIdx' < len'
    BY <1>8, BoundsAssumption DEF Advance, Return, TypeOK
  <2>4. QED
    BY <1>8, <2>1, <2>2, <2>3 DEF Advance, Return, TypeOK
<1>9. CASE UNCHANGED vars
  BY <1>9 DEF vars, guest, TypeOK
<1>10. QED
  BY <1>1, <1>2, <1>3, <1>4, <1>5, <1>6, <1>7, <1>8, <1>9
     DEF Next, Host, GuestStep

\* The markers never leave the buffer, whatever is appended and consumed.
THEOREM TypeCorrect == Spec => []TypeOK
BY InitTypeOK, StepTypeOK, PTL DEF Spec

-----------------------------------------------------------------------------
(* The FIFO. *)

\* Where the i-th slot after `start` lies as seen from `end`: the unread bytes
\* are the last slots before it, the free ones follow it.
LEMMA SlotFromEnd ==
  ASSUME TypeOK, NEW i \in 1 .. size
  PROVE  /\ Offset(start + i - 1) \in 0 .. size - 1
         /\ Offset(Offset(start + i - 1) - end + size)
              = IF i <= Used THEN i - 1 - Used + size ELSE i - 1 - Used
<1>. DEFINE o == Offset(start + i - 1)
<1>1. size \in Nat \ {0} /\ start \in 0 .. size - 1 /\ end \in 0 .. size - 1
  BY SizesAssumption DEF TypeOK
<1>2. o = IF start + i - 1 < size THEN start + i - 1 ELSE start + i - 1 - size
  BY <1>1, OffsetWraps
<1>3. o - end + size \in 0 .. 2 * size - 1
  BY <1>1, <1>2
<1>4. Offset(o - end + size) = IF o < end THEN o - end + size ELSE o - end
  BY <1>1, <1>2, <1>3, OffsetWraps
<1>5. Used = IF start <= end THEN end - start ELSE end - start + size
  BY UsedIsDistance
<1>. HIDE DEF o
<1>6. Offset(o - end + size) = IF i <= Used THEN i - 1 - Used + size ELSE i - 1 - Used
  BY <1>1, <1>2, <1>4, <1>5
<1>7. QED
  BY <1>1, <1>2, <1>6 DEF o

\* appendData's loop, when it does not overrun, keeps the ring consistent.
LEMMA StoreBytesConsistent ==
  ASSUME TypeOK, TypeOK', Consistent, NEW bytes \in Seq(Bytes),
         StoreBytes(bytes), ~overrun', UNCHANGED <<size, start, guest>>
  PROVE  Consistent'
<1>. DEFINE n == Len(bytes)
<1>1. /\ size \in Nat \ {0} /\ n \in Nat
      /\ start \in 0 .. size - 1 /\ end \in 0 .. size - 1
      /\ sent \in Seq(Bytes) /\ rcvd \in Seq(Cell)
  BY SizesAssumption DEF TypeOK
<1>2. /\ Used \in 0 .. size - 1 /\ Used + n < size
      /\ sent' = sent \o bytes /\ rcvd' = rcvd /\ end' = Offset(end + n)
  <2>1. ~(Used + n >= size) /\ end' = Offset(end + n)
    BY DEF StoreBytes
  <2>2. sent' = sent \o bytes /\ rcvd' = rcvd
    BY DEF StoreBytes
  <2>3. QED
    BY <1>1, <2>1, <2>2, UsedIsDistance
<1>3. Used' = Used + n
  <2>. DEFINE e == Offset(end + n)
  <2>1. e = IF end + n < size THEN end + n ELSE end + n - size
    BY <1>1, <1>2, OffsetWraps
  <2>2. Used' = (e - start + size) % size
    BY <1>2 DEF Used, Offset
  <2>. HIDE DEF e
  <2>3. e \in 0 .. size - 1 /\ e - start + size \in 0 .. 2 * size - 1
    BY <1>1, <1>2, <2>1
  <2>4. Used' = IF start <= e THEN e - start ELSE e - start + size
    <3>. DEFINE x == e - start + size
    <3>. HIDE DEF x
    <3>1. x \in 0 .. 2 * size - 1 /\ Used' = x % size
      BY <2>2, <2>3 DEF x
    <3>2. Used' = IF x < size THEN x ELSE x - size
      BY <1>1, <3>1, ModWraps
    <3>3. QED
      BY <1>1, <2>3, <3>2 DEF x
  <2>5. Used = IF start <= end THEN end - start ELSE end - start + size
    BY UsedIsDistance
  <2>6. QED
    BY SMTT(30), <1>1, <1>2, <2>1, <2>3, <2>4, <2>5
<1>4. /\ Len(sent) = Len(rcvd) + Used
      /\ Len(sent') = Len(rcvd') + Used'
      /\ \A i \in 1 .. Len(rcvd') : rcvd'[i] = sent'[i]
  <2>1. Len(sent) = Len(rcvd) + Used /\ \A i \in 1 .. Len(rcvd) : rcvd[i] = sent[i]
    BY DEF Consistent
  <2>2. Len(sent') = Len(sent) + n /\ \A i \in 1 .. Len(sent) : sent'[i] = sent[i]
    BY <1>1, <1>2
  <2>3. Len(rcvd) \in Nat /\ Len(sent) \in Nat
    BY <1>1
  <2>. HIDE DEF n
  <2>4. QED
    BY <1>1, <1>2, <1>3, <2>1, <2>2, <2>3
<1>5. ASSUME NEW i \in 1 .. Used'
      PROVE  ram'[Offset(start + i - 1)] = sent'[Len(rcvd') + i]
  <2>. DEFINE o == Offset(start + i - 1)
  <2>1. /\ i \in 1 .. size /\ o \in 0 .. size - 1
        /\ Offset(o - end + size) = IF i <= Used THEN i - 1 - Used + size
                                    ELSE i - 1 - Used
    BY <1>1, <1>2, <1>3, <1>5, SlotFromEnd
  <2>2. ram'[o] = IF Offset(o - end + size) < n
                  THEN bytes[Offset(o - end + size) + 1] ELSE ram[o]
    BY <2>1 DEF StoreBytes
  <2>3. CASE i <= Used
    <3>1. ram'[o] = ram[o]
      BY <1>1, <1>2, <1>5, <2>1, <2>2, <2>3
    <3>2. sent'[Len(rcvd) + i] = sent[Len(rcvd) + i]
      BY <1>1, <1>2, <1>4, <1>5, <2>3
    <3>3. i \in 1 .. Used
      BY <1>2, <1>3, <1>5, <2>3
    <3>4. ram[o] = sent[Len(rcvd) + i]
      BY <3>3 DEF Consistent
    <3>5. QED
      BY <1>2, <3>1, <3>2, <3>4
  <2>4. CASE i > Used
    <3>1. ram'[o] = bytes[i - Used]
      BY SMTT(30), <1>1, <1>2, <1>3, <1>5, <2>1, <2>2, <2>4
    <3>2. sent'[Len(rcvd) + i] = bytes[i - Used]
      BY SMTT(30), <1>1, <1>2, <1>3, <1>4, <1>5, <2>4
    <3>3. QED
      BY <1>2, <3>1, <3>2
  <2>5. i \in Int /\ Used \in Int
    BY <1>1, <1>2, <1>3, <1>5
  <2>. HIDE DEF o
  <2>6. ram'[o] = sent'[Len(rcvd') + i]
    BY <2>3, <2>4, <2>5 DEF o
  <2>7. QED
    BY <2>6 DEF o
<1>6. /\ pc' = "test" /\ start' # seenEnd' => Used' # 0
      /\ pc' \in {"load", "advance"} => Used' # 0
  BY <1>1, <1>2, <1>3 DEF Consistent, guest
<1>7. pc' = "advance" => byte' = ram'[start']
  <2>. SUFFICES ASSUME pc = "advance" PROVE byte = ram'[start]
    BY DEF guest
  <2>1. Used # 0 /\ byte = ram[start]
    BY DEF Consistent
  <2>2. /\ 1 \in 1 .. Used /\ 1 \in 1 .. Used'
        /\ Offset(start + 1 - 1) = start
    BY <1>1, <1>2, <1>3, <2>1, OffsetWraps
  <2>3. ram'[start] = sent'[Len(rcvd') + 1]
    BY <1>5, <2>2
  <2>4. ram[start] = sent[Len(rcvd) + 1]
    BY <2>2 DEF Consistent
  <2>5. sent'[Len(rcvd) + 1] = sent[Len(rcvd) + 1]
    BY <1>1, <1>2, <1>4, <2>2
  <2>6. QED
    BY <1>2, <2>1, <2>3, <2>4, <2>5
<1>8. QED
  BY <1>4, <1>5, <1>6, <1>7 DEF Consistent, Offset

\* Consuming a byte, which the host has not overrun, keeps the ring consistent.
LEMMA AdvanceConsistent ==
  ASSUME TypeOK, Consistent, Advance, ~overrun
  PROVE  Consistent'
<1>1. /\ size \in Nat \ {0}
      /\ start \in 0 .. size - 1 /\ end \in 0 .. size - 1
      /\ sent \in Seq(Bytes) /\ rcvd \in Seq(Cell) /\ byte \in Cell
  BY SizesAssumption DEF TypeOK
<1>2. /\ Used \in 1 .. size - 1 /\ byte = ram[start]
      /\ Len(sent) = Len(rcvd) + Used
  BY UsedIsDistance, <1>1 DEF Consistent, Advance
<1>3. /\ size' = size /\ end' = end /\ ram' = ram /\ sent' = sent
      /\ start' = Offset(start + 1) /\ rcvd' = Append(rcvd, byte)
  BY DEF Advance
<1>4. pc' \in {"idle", "loop"}
  BY DEF Advance, Return
<1>5. Used' = Used - 1
  <2>. DEFINE s == Offset(start + 1)
  <2>1. s = IF start + 1 < size THEN start + 1 ELSE start + 1 - size
    BY <1>1, OffsetWraps
  <2>2. Used' = (end - s + size) % size
    BY <1>3 DEF Used, Offset
  <2>. HIDE DEF s
  <2>3. s \in 0 .. size - 1
    BY <1>1, <2>1
  <2>. DEFINE x == end - s + size
  <2>4. x \in 0 .. 2 * size - 1
    BY <1>1, <2>3
  <2>. HIDE DEF x
  <2>5. Used' = IF x < size THEN x ELSE x - size
    BY <1>1, <2>2, <2>4, ModWraps DEF x
  <2>6. Used = IF start <= end THEN end - start ELSE end - start + size
    BY UsedIsDistance
  <2>7. QED
    BY <1>1, <1>2, <2>1, <2>3, <2>5, <2>6 DEF x
<1>6. byte = sent[Len(rcvd) + 1]
  <2>1. 1 \in 1 .. Used /\ Offset(start + 1 - 1) = start
    BY <1>1, <1>2, OffsetWraps
  <2>2. QED
    BY <1>2, <2>1 DEF Consistent
<1>7. Len(rcvd') = Len(rcvd) + 1 /\ Len(sent') = Len(rcvd') + Used'
  <2>1. Len(rcvd') = Len(rcvd) + 1
    BY <1>1, <1>3
  <2>2. Len(sent) = (Len(rcvd) + 1) + (Used - 1)
    BY <1>1, <1>2
  <2>3. QED
    BY <1>3, <1>5, <2>1, <2>2
<1>8. \A i \in 1 .. Len(rcvd') : rcvd'[i] = sent'[i]
  <2>1. Len(rcvd') = Len(rcvd) + 1
    BY <1>1, <1>3
  <2>2. \A i \in 1 .. Len(rcvd) : rcvd'[i] = rcvd[i] /\ rcvd[i] = sent[i]
    BY <1>1, <1>3 DEF Consistent
  <2>3. rcvd'[Len(rcvd) + 1] = sent[Len(rcvd) + 1]
    BY <1>1, <1>3, <1>6
  <2>4. QED
    BY <1>1, <1>3, <2>1, <2>2, <2>3
<1>9. \A i \in 1 .. Used' : ram'[Offset(start + i - 1)'] = sent'[Len(rcvd') + i]
  <2>. SUFFICES ASSUME NEW i \in 1 .. Used - 1
                PROVE  ram[Offset(Offset(start + 1) + i - 1)] = sent[Len(rcvd) + 1 + i]
    <3>1. \A i : Offset(start + i - 1)' = Offset(Offset(start + 1) + i - 1)
      BY <1>3 DEF Offset
    <3>2. QED
      BY <1>3, <1>5, <1>7, <3>1
  <2>1. Offset(Offset(start + 1) + i - 1) = Offset(start + (i + 1) - 1)
    <3>1. Offset(start + 1) = IF start + 1 < size THEN start + 1 ELSE start + 1 - size
      BY <1>1, OffsetWraps
    <3>2. Offset(start + i) = IF start + i < size THEN start + i ELSE start + i - size
      BY <1>1, <1>2, OffsetWraps
    <3>. DEFINE y == Offset(start + 1) + i - 1
    <3>3. y = IF start + 1 < size THEN start + i ELSE start + i - size
      BY <1>1, <1>2, <3>1
    <3>. HIDE DEF y
    <3>4. Offset(y) = Offset(start + i)
      <4>1. CASE start + 1 < size
        BY <3>3, <4>1
      <4>2. CASE start + 1 >= size
        BY <1>1, <1>2, <3>2, <3>3, <4>2, OffsetWraps
      <4>3. QED
        BY <1>1, <4>1, <4>2
    <3>5. start + (i + 1) - 1 = start + i
      BY <1>1
    <3>6. QED
      BY <3>4, <3>5 DEF y
  <2>2. i + 1 \in 1 .. Used
    BY <1>1, <1>2
  <2>3. ram[Offset(start + (i + 1) - 1)] = sent[Len(rcvd) + (i + 1)]
    BY <2>2 DEF Consistent
  <2>4. Len(rcvd) + (i + 1) = Len(rcvd) + 1 + i
    BY <1>1
  <2>5. QED
    BY <2>1, <2>3, <2>4
<1>10. QED
  BY <1>4, <1>7, <1>8, <1>9 DEF Consistent

\* A sequence that starts with `a` and goes on with `b` is their concatenation.
LEMMA ConcatElementwise ==
  ASSUME NEW S, NEW a \in Seq(S), NEW b \in Seq(S), NEW c \in Seq(S),
         Len(c) = Len(a) + Len(b),
         \A i \in 1 .. Len(a) : a[i] = c[i],
         \A i \in 1 .. Len(b) : b[i] = c[Len(a) + i]
  PROVE  a \o b = c
<1>1. /\ a \o b \in Seq(S)
      /\ Len(a \o b) = Len(c)
      /\ \A i \in 1 .. Len(c) : (a \o b)[i] = IF i <= Len(a) THEN a[i] ELSE b[i - Len(a)]
  BY ConcatProperties
<1>2. ASSUME NEW i \in 1 .. Len(a \o b) PROVE (a \o b)[i] = c[i]
  <2>1. CASE i <= Len(a)
    BY <1>1, <2>1
  <2>2. CASE i > Len(a)
    <3>1. i - Len(a) \in 1 .. Len(b) /\ Len(a) + (i - Len(a)) = i
      BY <1>1, <2>2
    <3>2. (a \o b)[i] = b[i - Len(a)]
      BY <1>1, <2>2
    <3>3. QED
      BY <3>1, <3>2
  <2>3. QED
    BY <1>1, <2>1, <2>2
<1>3. QED
  BY <1>1, <1>2, SeqEqual

\* What is unread is a sequence of what slots may hold.
LEMMA UnreadType ==
  ASSUME TypeOK
  PROVE  Unread \in Seq(Cell) /\ Len(Unread) = Used
<1>1. size \in Nat \ {0} /\ Used \in 0 .. size - 1
  BY SizesAssumption, UsedIsDistance DEF TypeOK
<1>2. ASSUME NEW i \in 1 .. Used PROVE ram[Offset(start + i - 1)] \in Cell
  <2>1. i \in 1 .. size
    BY <1>1
  <2>2. Offset(start + i - 1) \in 0 .. size - 1
    BY <2>1, SlotFromEnd
  <2>3. QED
    BY <2>2 DEF TypeOK
<1>3. QED
  BY <1>1, <1>2 DEF Unread

LEMMA ChannelFits ==
  TypeOK => Unread \in Seq(Cell) /\ Len(Unread) = Used /\ Used \in 0 .. size - 1
BY UnreadType, UsedIsDistance

\* Byte by byte, a consistent ring is the sequence equation that Fifo states.
LEMMA ConsistentIsFifo ==
  ASSUME TypeOK, Consistent
  PROVE  rcvd \o Unread = sent
<1>1. /\ size \in Nat \ {0} /\ Used \in 0 .. size - 1
      /\ sent \in Seq(Cell) /\ rcvd \in Seq(Cell)
  BY SizesAssumption, UsedIsDistance DEF TypeOK, Cell
<1>2. Unread \in Seq(Cell) /\ Len(Unread) = Used
  BY UnreadType
<1>3. \A i \in 1 .. Used : Unread[i] = sent[Len(rcvd) + i]
  BY DEF Unread, Consistent
<1>4. /\ Len(sent) = Len(rcvd) + Used
      /\ \A i \in 1 .. Len(rcvd) : rcvd[i] = sent[i]
  BY DEF Consistent
<1>5. QED
  BY <1>1, <1>2, <1>3, <1>4, ConcatElementwise

LEMMA InitIInv == Init => IInv
<1>. SUFFICES ASSUME Init PROVE Consistent
  BY InitTypeOK DEF IInv
<1>1. Used = 0
  BY SizesAssumption, OffsetWraps DEF Init, Used
<1>2. QED
  BY <1>1 DEF Init, Consistent

LEMMA StepIInv == IInv /\ [Next]_vars => IInv'
<1>. SUFFICES ASSUME TypeOK, TypeOK', [Next]_vars, ~overrun', 
                     ~overrun => Consistent
              PROVE  Consistent'
  BY StepTypeOK DEF IInv
<1>0. size \in Nat \ {0}
  BY SizesAssumption DEF TypeOK
<1>1. ASSUME NEW bytes \in Seq(Bytes), StoreBytes(bytes),
             UNCHANGED <<size, start, guest>>
      PROVE  Consistent'
  <2>1. ~overrun
    BY <1>1 DEF StoreBytes
  <2>2. QED
    BY <1>1, <2>1, StoreBytesConsistent
<1>2. ASSUME NEW data \in Blocks, AppendData(data) PROVE Consistent'
  BY <1>0, <1>1, <1>2, BlocksAreSequences DEF AppendData
<1>3. ASSUME NEW data \in Blocks, AppendFault(data) PROVE Consistent'
  <2>1. PICK k \in 0 .. Len(data) - 1 : StoreBytes(SubSeq(data, 1, k))
    BY <1>3 DEF AppendFault
  <2>2. SubSeq(data, 1, k) \in Seq(Bytes)
    BY <1>0, <2>1, BlocksAreSequences
  <2>3. QED
    BY <1>1, <1>3, <2>1, <2>2 DEF AppendFault
<1>4. ASSUME NEW data \in Blocks, AppendTooBig(data) PROVE Consistent'
  BY <1>4 DEF AppendTooBig, Consistent, Used, Offset, guest
<1>5. ASSUME NEW n \in 1 .. MaxLen, Call(n) PROVE Consistent'
  BY <1>5 DEF Call, Consistent, Used, Offset
<1>6. CASE LoadEnd
  <2>1. Consistent /\ start \in 0 .. size - 1 /\ end \in 0 .. size - 1
    BY <1>6 DEF LoadEnd, TypeOK
  <2>2. start # end => Used # 0
    BY <1>0, <2>1, UsedIsDistance
  <2>3. QED
    BY <1>6, <2>1, <2>2 DEF LoadEnd, Consistent, Used, Offset
<1>7. CASE Test
  BY <1>7 DEF Test, Pending, Return, Consistent, Used, Offset
<1>8. CASE LoadByte
  BY <1>8 DEF LoadByte, Consistent, Used, Offset
<1>9. CASE Advance
  BY <1>9, AdvanceConsistent DEF Advance
<1>10. CASE UNCHANGED vars
  BY <1>10 DEF vars, guest, Consistent, Used, Offset
<1>11. QED
  BY <1>2, <1>3, <1>4, <1>5, <1>6, <1>7, <1>8, <1>9, <1>10
     DEF Next, Host, GuestStep

\* The bytes consumed followed by the bytes in the ring are the bytes stored,
\* in every reachable state before the first overrun.
THEOREM FifoHolds == Spec => []Fifo
<1>1. IInv => Fifo
  BY ConsistentIsFifo DEF IInv, Fifo
<1>2. QED
  BY InitIInv, StepIInv, <1>1, PTL DEF Spec
-----------------------------------------------------------------------------
(* Overruns. *)

\* A block takes the distance from start to end on by its length, and once around the
\* ring if it overruns.
LEMMA StoreUsed ==
  ASSUME TypeOK, NEW bytes \in Seq(Bytes), Len(bytes) <= size, StoreBytes(bytes),
         UNCHANGED <<size, start>>
  PROVE  Used' = IF Used + Len(bytes) < size THEN Used + Len(bytes)
                 ELSE Used + Len(bytes) - size
<1>1. /\ size \in Nat \ {0} /\ start \in 0 .. size - 1 /\ end \in 0 .. size - 1
      /\ Len(bytes) \in Nat
  BY SizesAssumption DEF TypeOK
<1>2. PICK n \in Nat : n = Len(bytes)
  BY <1>1
<1>3. PICK e \in 0 .. size - 1 : /\ e = Offset(end + n)
                                /\ e = IF end + n < size THEN end + n ELSE end + n - size
  BY <1>1, <1>2, OffsetWraps
<1>4. PICK x \in 0 .. 2 * size - 1 : x = e - start + size
  BY <1>1
<1>5. Used' = x % size
  BY <1>2, <1>3, <1>4 DEF StoreBytes, Used, Offset
<1>6. Used' = IF x < size THEN x ELSE x - size
  BY <1>1, <1>5, ModWraps
<1>7. Used = IF start <= end THEN end - start ELSE end - start + size
  BY UsedIsDistance
<1>8. QED
  BY <1>1, <1>2, <1>3, <1>4, <1>6, <1>7

\* Of the bytes unread before it and those it stores, a block leaves the newest.
LEMMA StoreNewest ==
  ASSUME TypeOK, TypeOK', NEW bytes \in Seq(Bytes), Len(bytes) <= size, StoreBytes(bytes),
         UNCHANGED <<size, start>>
  PROVE  LET all == Unread \o bytes
         IN  /\ Len(all) = Used + Len(bytes) /\ all \in Seq(Cell)
             /\ Used' \in 0 .. Len(all) /\ Unread' \in Seq(Cell) /\ Len(Unread') = Used'
             /\ \A i \in 1 .. Used' : Unread'[i] = all[Len(all) - Used' + i]
<1>1. /\ size \in Nat \ {0} /\ start \in 0 .. size - 1 /\ end \in 0 .. size - 1
      /\ Used \in 0 .. size - 1 /\ bytes \in Seq(Cell)
      /\ Unread \in Seq(Cell) /\ Len(Unread) = Used
  BY SizesAssumption, UsedIsDistance, UnreadType DEF TypeOK, Cell
<1>2. PICK n \in 0 .. size, u \in 0 .. size - 1 : n = Len(bytes) /\ u = Used
  BY <1>1
<1>3. PICK v \in 0 .. size - 1 :
        v = Used' /\ v = IF u + n < size THEN u + n ELSE u + n - size
  BY <1>1, <1>2, StoreUsed
<1>4. /\ Unread \o bytes \in Seq(Cell) /\ Len(Unread \o bytes) = u + n
      /\ \A i \in 1 .. u + n :
           (Unread \o bytes)[i] = IF i <= u THEN Unread[i] ELSE bytes[i - u]
  BY <1>1, <1>2, ConcatProperties
<1>5. Unread' \in Seq(Cell) /\ Len(Unread') = v
  <2>1. ASSUME NEW i \in 1 .. v PROVE Offset(start + i - 1) \in 0 .. size - 1
    <3>1. i \in 1 .. size
      BY <1>1, <1>3
    <3>2. QED
      BY <3>1, SlotFromEnd
  <2>2. ASSUME NEW i \in 1 .. v PROVE ram'[Offset(start + i - 1)] \in Cell
    BY <2>1 DEF TypeOK
  <2>3. Unread' = [i \in 1 .. v |-> ram'[Offset(start + i - 1)]]
    BY <1>3 DEF Unread, Offset
  <2>4. QED
    BY <1>1, <2>2, <2>3
<1>6. ASSUME NEW i \in 1 .. v PROVE Unread'[i] = (Unread \o bytes)[u + n - v + i]
  <2>0. i \in 1 .. size /\ i \in Nat
    BY <1>1, <1>3
  <2>1. PICK o \in 0 .. size - 1, j \in Int :
          /\ o = Offset(start + i - 1) /\ j = Offset(o - end + size)
          /\ j = IF i <= u THEN i - 1 - u + size ELSE i - 1 - u
    <3>1. /\ Offset(start + i - 1) \in 0 .. size - 1
          /\ Offset(Offset(start + i - 1) - end + size)
               = IF i <= u THEN i - 1 - u + size ELSE i - 1 - u
      BY <2>0, <1>2, SlotFromEnd
    <3>2. (IF i <= u THEN i - 1 - u + size ELSE i - 1 - u) \in Int
      BY <1>1, <1>2, <2>0
    <3>3. QED
      BY <3>1, <3>2
  <2>2. Unread'[i] = ram'[o]
    BY <1>3, <2>1 DEF Unread, Offset
  <2>3. ram'[o] = IF j < n THEN bytes[j + 1] ELSE ram[o]
    BY <1>2, <2>1 DEF StoreBytes
  <2>4. CASE u + n < size /\ i <= u
    <3>1. ~(j < n) /\ u + n - v + i = i
      BY <1>1, <1>3, <2>0, <2>1, <2>4
    <3>2. i \in 1 .. u /\ i \in 1 .. u + n
      BY <2>0, <2>4
    <3>3. Unread[i] = ram[o]
      BY <1>2, <2>1, <3>2 DEF Unread
    <3>4. QED
      BY <1>4, <2>2, <2>3, <2>4, <3>1, <3>2, <3>3
  <2>5. CASE u + n < size /\ i > u
    <3>1. v = u + n /\ ~(i <= u)
      BY <1>3, <2>0, <2>5
    <3>2. j < n /\ j + 1 = i - u
      <4>1. j = i - 1 - u
        BY <2>1, <3>1
      <4>2. QED
        BY <2>0, <3>1, <4>1
    <3>3. u + n - v + i = i /\ i \in 1 .. u + n
      BY <2>0, <3>1
    <3>4. (Unread \o bytes)[i] = bytes[i - u]
      BY <1>4, <3>1, <3>3
    <3>5. QED
      BY <2>2, <2>3, <3>2, <3>3, <3>4
  <2>6. CASE u + n >= size
    <3>1. v = u + n - size /\ i <= u
      BY <1>1, <1>3, <2>0, <2>6
    <3>2. j = i - 1 - u + size
      BY <2>1, <3>1
    <3>3. PICK l \in 1 .. u + n : l = size + i
      BY <1>1, <2>0, <3>1
    <3>4. j < n /\ j + 1 = l - u /\ u + n - v + i = l /\ ~(l <= u)
      BY <1>1, <2>0, <2>6, <3>1, <3>2, <3>3
    <3>5. QED
      BY <1>4, <2>2, <2>3, <3>3, <3>4
  <2>7. u + n < size \/ u + n >= size
    BY <1>1
  <2>8. i <= u \/ i > u
    BY <2>0
  <2>9. QED
    BY <2>4, <2>5, <2>6, <2>7, <2>8
<1>7. v \in 0 .. u + n
  BY <1>1, <1>3
<1>8. PICK all : all = Unread \o bytes /\ all \in Seq(Cell) /\ Len(all) = u + n
  BY <1>4
<1>9. \A i \in 1 .. v : Unread'[i] = all[u + n - v + i]
  BY <1>6, <1>8
<1>10. /\ Len(all) = Used + Len(bytes) /\ Used' \in 0 .. Len(all)
       /\ Unread' \in Seq(Cell) /\ Len(Unread') = Used'
  BY <1>2, <1>3, <1>5, <1>7, <1>8
<1>11. ASSUME NEW i \in 1 .. Used'
       PROVE  Unread'[i] = all[Len(all) - Used' + i]
  <2>1. i \in 1 .. v /\ Len(all) - Used' + i = u + n - v + i
    BY <1>3, <1>8
  <2>2. Unread'[i] = all[u + n - v + i]
    BY <1>9, <2>1
  <2>3. QED
    BY <2>1, <2>2, Zenon
<1>12. QED
  BY <1>8, <1>10, <1>11

\* A sequence that holds, byte by byte, the end of another one is that suffix of it.
LEMMA SuffixElementwise ==
  ASSUME NEW S, NEW a \in Seq(S), NEW b \in Seq(S), Len(b) <= Len(a),
         \A i \in 1 .. Len(b) : b[i] = a[Len(a) - Len(b) + i]
  PROVE  b = SubSeq(a, Len(a) - Len(b) + 1, Len(a))
<1>1. PICK c : c = SubSeq(a, Len(a) - Len(b) + 1, Len(a))
  OBVIOUS
<1>2. Len(a) \in Nat /\ Len(b) \in Nat
  OBVIOUS
<1>3. c \in Seq(S) /\ Len(c) = Len(b)
  BY <1>1, <1>2, SubSeqProperties
<1>4. ASSUME NEW i \in 1 .. Len(b) PROVE b[i] = c[i]
  BY <1>1, <1>2, SubSeqProperties
<1>5. QED
  BY <1>1, <1>3, <1>4, SeqEqual

LEMMA AppendNewest ==
  ASSUME TypeOK, TypeOK', NEW bytes \in Seq(Bytes), AppendData(bytes)
  PROVE  LET all == Unread \o bytes
         IN  Unread' = SubSeq(all, Len(all) - Used' + 1, Len(all))
<1>1. PICK all : all = Unread \o bytes
  OBVIOUS
<1>2. /\ Len(all) = Used + Len(bytes) /\ all \in Seq(Cell)
      /\ Used' \in 0 .. Len(all) /\ Unread' \in Seq(Cell) /\ Len(Unread') = Used'
      /\ \A i \in 1 .. Used' : Unread'[i] = all[Len(all) - Used' + i]
  BY <1>1, StoreNewest DEF AppendData
<1>3. PICK b \in Seq(Cell) : b = Unread'
  BY <1>2
<1>4. Len(b) <= Len(all) /\ \A i \in 1 .. Len(b) : b[i] = all[Len(all) - Len(b) + i]
  BY <1>2, <1>3
<1>5. b = SubSeq(all, Len(all) - Len(b) + 1, Len(all))
  BY <1>2, <1>3, <1>4, SuffixElementwise
<1>6. QED
  BY <1>1, <1>2, <1>3, <1>5

\* However far an append overruns the reader, it leaves the newest part of the stream,
\* in order.
THEOREM KeepsNewest == Spec => OverrunKeepsNewest
<1>1. TypeOK /\ TypeOK' /\ [Next]_vars =>
        [\A n \in 0 .. size : end' = Offset(end + n) /\ UNCHANGED guest =>
           \A data \in [1 .. n -> Bytes] :
             AppendData(data) => LET all == Unread \o data
                                 IN  Unread' = SubSeq(all, Len(all) - Used' + 1, Len(all))]_vars
  <2>. SUFFICES ASSUME TypeOK, TypeOK', NEW n \in 0 .. size,
                       NEW data \in [1 .. n -> Bytes], AppendData(data)
                PROVE  LET all == Unread \o data
                       IN  Unread' = SubSeq(all, Len(all) - Used' + 1, Len(all))
    OBVIOUS
  <2>1. data \in Seq(Bytes)
    BY SizesAssumption DEF TypeOK
  <2>2. QED
    BY <2>1, AppendNewest
<1>2. QED
  BY InitTypeOK, StepTypeOK, <1>1, PTL DEF Spec, OverrunKeepsNewest

-----------------------------------------------------------------------------
(* Faults. *)

\* A block whose store threw left `end` at a word the DataView does not hold.
Dead == outcome = "ramFault" => ~WordFits(end)

\* From such a marker only the empty block can be stored.
LEMMA DeadStoresNothing ==
  ASSUME TypeOK, ~WordFits(end), NEW n \in Nat, AllFit(n)
  PROVE  n = 0
<1>1. size \in Nat \ {0} /\ end \in 0 .. size - 1
  BY SizesAssumption DEF TypeOK
<1>2. Offset(end + 0) = end
  BY <1>1, OffsetWraps
<1>3. QED
  BY <1>2 DEF AllFit

\* The empty block changes nothing.
LEMMA EmptyBlock ==
  ASSUME TypeOK, NEW bytes \in Seq(Bytes), Len(bytes) = 0, StoreBytes(bytes)
  PROVE  end' = end /\ ram' = ram
<1>1. size \in Nat \ {0} /\ end \in 0 .. size - 1 /\ ram \in [0 .. size - 1 -> Cell]
  BY SizesAssumption DEF TypeOK
<1>2. Offset(end + 0) = end
  BY <1>1, OffsetWraps
<1>3. end' = end
  BY <1>2 DEF StoreBytes
<1>4. ASSUME NEW o \in 0 .. size - 1 PROVE ~(Offset(o - end + size) < Len(bytes))
  <2>1. Offset(o - end + size) \in Nat
    BY <1>1, OffsetWraps
  <2>2. QED
    BY <2>1
<1>5. ram' = [o \in 0 .. size - 1 |-> ram[o]]
  BY <1>4 DEF StoreBytes
<1>6. QED
  BY <1>1, <1>3, <1>5

LEMMA StepDead == TypeOK /\ Dead /\ [Next]_vars => Dead'
<1>. SUFFICES ASSUME TypeOK, Dead, [Next]_vars PROVE Dead'
  OBVIOUS
<1>0. size \in Nat \ {0} /\ end \in 0 .. size - 1
  BY SizesAssumption DEF TypeOK
<1>1. ASSUME NEW data \in Blocks, AppendData(data) PROVE Dead'
  BY <1>1 DEF AppendData, Dead
<1>2. ASSUME NEW data \in Blocks, AppendFault(data) PROVE Dead'
  <2>1. PICK k \in 0 .. Len(data) - 1 :
          AllFit(k) /\ ~AllFit(k + 1) /\ StoreBytes(SubSeq(data, 1, k))
    BY <1>2 DEF AppendFault
  <2>2. end' = Offset(end + k) /\ size' = size
    <3>1. Len(SubSeq(data, 1, k)) = k
      BY <1>0, <2>1, BlocksAreSequences
    <3>2. QED
      BY <1>2, <2>1, <3>1 DEF StoreBytes, AppendFault
  <2>3. PICK j \in 0 .. k : ~WordFits(Offset(end + j))
    BY <2>1 DEF AllFit
  <2>4. j = k
    BY <2>1, <2>3 DEF AllFit
  <2>5. ~WordFits(Offset(end + k))
    BY <2>3, <2>4
  <2>6. QED
    BY <2>2, <2>5 DEF Dead, WordFits
<1>3. ASSUME NEW data \in Blocks, AppendTooBig(data) PROVE Dead'
  BY <1>3 DEF AppendTooBig, Dead
<1>4. ASSUME NEW n \in 1 .. MaxLen, Call(n) PROVE Dead'
  BY <1>4 DEF Call, Dead, WordFits
<1>5. CASE GuestStep
  BY <1>5 DEF GuestStep, LoadEnd, Test, LoadByte, Advance, Dead, WordFits
<1>6. CASE UNCHANGED vars
  BY <1>6 DEF vars, Dead, WordFits
<1>7. QED
  BY <1>1, <1>2, <1>3, <1>4, <1>5, <1>6 DEF Next, Host

\* A fault in the middle of appendData leaves `end` at a dead word for good: no later
\* block is ever stored.
THEOREM FaultPermanent == Spec => FaultIsPermanent
<1>1. Init => Dead
  BY DEF Init, Dead
<1>2. TypeOK /\ Dead /\ [Next]_vars => [outcome = "ramFault" => end' = end /\ ram' = ram]_vars
  <2>. SUFFICES ASSUME TypeOK, ~WordFits(end), Next
                PROVE  end' = end /\ ram' = ram
    BY DEF Dead
  <2>0. size \in Nat
    BY SizesAssumption DEF TypeOK
  <2>1. ASSUME NEW data \in Blocks, AppendData(data) PROVE end' = end /\ ram' = ram
    <3>1. data \in Seq(Bytes) /\ Len(data) \in Nat
      BY <2>0, BlocksAreSequences
    <3>2. Len(data) = 0
      BY <2>1, <3>1, DeadStoresNothing DEF AppendData
    <3>3. QED
      BY <2>1, <3>1, <3>2, EmptyBlock DEF AppendData
  <2>2. ASSUME NEW data \in Blocks, AppendFault(data) PROVE end' = end /\ ram' = ram
    <3>1. PICK k \in 0 .. Len(data) - 1 : AllFit(k) /\ StoreBytes(SubSeq(data, 1, k))
      BY <2>2 DEF AppendFault
    <3>2. k = 0
      BY <3>1, DeadStoresNothing
    <3>3. SubSeq(data, 1, k) \in Seq(Bytes) /\ Len(SubSeq(data, 1, k)) = 0
      BY <2>0, <3>1, <3>2, BlocksAreSequences
    <3>4. QED
      BY <3>1, <3>3, EmptyBlock
  <2>3. QED
    BY <2>1, <2>2 DEF Next, Host, AppendTooBig, Call, GuestStep, LoadEnd, Test,
       LoadByte, Advance
<1>3. QED
  BY InitTypeOK, StepTypeOK, StepDead, <1>1, <1>2, PTL DEF Spec, FaultIsPermanent

-----------------------------------------------------------------------------
(* The channel. *)

\* The initial ring is the empty channel.
LEMMA InitChannel == Init => Channel!Init
<1>. SUFFICES ASSUME Init PROVE Channel!Init
  OBVIOUS
<1>1. size \in Nat \ {0}
  BY SizesAssumption DEF Init
<1>2. Unread \in Seq(Cell) /\ Len(Unread) = Used
  BY InitTypeOK, UnreadType
<1>3. Used = 0
  BY <1>1, OffsetWraps DEF Init, Used
<1>4. Unread = <<>>
  BY <1>2, <1>3
<1>5. QED
  BY <1>1, <1>4 DEF Init, Channel!Init

\* appendData's loop is a write of the channel, or an overrun of it.
LEMMA StoreIsChannelStep ==
  ASSUME TypeOK, TypeOK', NEW bytes \in Seq(Bytes), Len(bytes) <= size, StoreBytes(bytes),
         UNCHANGED <<size, start, guest>>
  PROVE  Channel!Write \/ Channel!Overrun
<1>1. PICK all : all = Unread \o bytes
  OBVIOUS
<1>2. /\ Len(all) = Used + Len(bytes) /\ all \in Seq(Cell)
      /\ Used' \in 0 .. Len(all) /\ Unread' \in Seq(Cell) /\ Len(Unread') = Used'
      /\ \A i \in 1 .. Used' : Unread'[i] = all[Len(all) - Used' + i]
  BY <1>1, StoreNewest
<1>3. Unread \in Seq(Cell) /\ Len(Unread) = Used /\ Used \in 0 .. size - 1
  BY UnreadType, UsedIsDistance
<1>4. Used' = IF Used + Len(bytes) < size THEN Used + Len(bytes)
              ELSE Used + Len(bytes) - size
  BY StoreUsed
<1>5. size \in Nat \ {0} /\ Len(bytes) \in Nat /\ bytes \in Seq(Cell)
  BY SizesAssumption DEF TypeOK, Cell
<1>6. size' = size /\ UNCHANGED (IF pc = "advance" THEN byte ELSE Empty)
  BY DEF guest
<1>7. PICK a \in Seq(Cell), b \in Seq(Cell), u \in 0 .. size - 1 :
        a = Unread /\ b = Unread' /\ u = Used
  BY <1>2, <1>3
<1>8. CASE u + Len(bytes) < size
  <2>1. UNCHANGED overrun
    <3>1. ~(Used + Len(bytes) >= size)
      BY <1>5, <1>7, <1>8
    <3>2. overrun' = overrun
      BY <3>1, Zenon DEF StoreBytes, TypeOK
    <3>3. QED
      BY <3>2
  <2>2. Len(a) = u /\ Len(b) = u + Len(bytes) /\ Len(all) = Len(b)
    BY <1>2, <1>3, <1>4, <1>7, <1>8
  <2>3. ASSUME NEW i \in 1 .. Len(a) PROVE b[i] = a[i]
    <3>1. i \in 1 .. Len(b) /\ Len(all) - Len(b) + i = i
      BY <1>5, <2>2
    <3>2. b[i] = all[i]
      BY <1>2, <1>7, <2>2, <3>1
    <3>3. all[i] = a[i]
      BY <1>1, <1>5, <1>7, ConcatProperties
    <3>4. QED
      BY <3>2, <3>3
  <2>4. SubSeq(b, 1, Len(a)) = a
    BY <1>5, <2>2, <2>3
  <2>5. Len(b) < size /\ Len(a) <= Len(b)
    BY <1>5, <1>8, <2>2
  <2>6. QED
    BY <1>6, <1>7, <2>1, <2>4, <2>5 DEF Channel!Write
<1>9. CASE u + Len(bytes) >= size
  <2>1. overrun' = TRUE
    BY <1>7, <1>9 DEF StoreBytes, TypeOK
  <2>2. Len(a) = u /\ Len(b) = u + Len(bytes) - size
    BY <1>2, <1>3, <1>4, <1>5, <1>7, <1>9
  <2>3. Len(b) <= Len(a)
    BY <1>5, <2>2
  <2>4. QED
    BY <1>6, <1>7, <2>1, <2>3 DEF Channel!Overrun
<1>10. QED
  BY <1>5, <1>8, <1>9

\* _read's load fetches the oldest byte of the channel.
LEMMA LoadIsFetch ==
  ASSUME TypeOK, ~overrun => Consistent, LoadByte
  PROVE  Channel!Fetch
<1>1. /\ size \in Nat \ {0} /\ start \in 0 .. size - 1 /\ ram[start] \in Cell
      /\ Unread \in Seq(Cell) /\ Len(Unread) = Used /\ Used \in Nat
  BY SizesAssumption, UnreadType, UsedIsDistance DEF TypeOK
<1>2. /\ pc = "load" /\ pc' = "advance" /\ byte' = ram[start]
      /\ UNCHANGED <<size, overrun, Unread>>
  BY DEF LoadByte, Unread, Used, Offset
<1>3. ASSUME Unread # <<>> PROVE Head(Unread) = ram[start]
  <2>1. 1 \in 1 .. Used
    BY <1>1, <1>3
  <2>2. Offset(start + 1 - 1) = start
    BY <1>1, OffsetWraps
  <2>3. Unread[1] = ram[start]
    BY <2>1, <2>2 DEF Unread
  <2>4. QED
    BY <1>1, <1>3, <2>3
<1>4. Unread = <<>> => overrun
  <2>1. Unread = <<>> => Used = 0
    BY <1>1
  <2>2. QED
    BY <1>2, <2>1 DEF Consistent, TypeOK
<1>5. QED
  BY <1>1, <1>2, <1>3, <1>4 DEF Channel!Fetch, TypeOK

\* _read's store to start_offset consumes the byte fetched; after an overrun the
\* channel may be empty by then, and the marker passes `end`.
LEMMA AdvanceIsConsume ==
  ASSUME TypeOK, TypeOK', ~overrun => Consistent, Advance
  PROVE  Channel!Consume
<1>1. /\ size \in Nat \ {0} /\ start \in 0 .. size - 1 /\ end \in 0 .. size - 1
      /\ Unread \in Seq(Cell) /\ Len(Unread) = Used /\ Used \in 0 .. size - 1
      /\ byte \in Cell
  BY SizesAssumption, UnreadType, UsedIsDistance DEF TypeOK
<1>2. /\ pc = "advance" /\ pc' # "advance" /\ UNCHANGED <<size, end, ram, overrun>>
      /\ start' = Offset(start + 1)
  BY DEF Advance, Return
<1>3. PICK b \in Seq(Cell), u \in 0 .. size - 1, v \in 0 .. size - 1, s \in 0 .. size - 1 :
        /\ b = Unread' /\ u = Used /\ v = Used' /\ Len(b) = v /\ s = Offset(start + 1)
        /\ s = IF start + 1 < size THEN start + 1 ELSE start + 1 - size
  <2>1. (Unread \in Seq(Cell) /\ Len(Unread) = Used /\ Used \in 0 .. size - 1)'
    BY ChannelFits, PTL
  <2>2. Unread' \in Seq(Cell) /\ Len(Unread') = Used' /\ Used' \in 0 .. size' - 1
    BY <2>1
  <2>3. /\ Offset(start + 1) \in 0 .. size - 1
        /\ Offset(start + 1) = IF start + 1 < size THEN start + 1 ELSE start + 1 - size
    BY <1>1, OffsetWraps
  <2>4. QED
    BY <1>1, <1>2, <2>1, <2>2, <2>3
<1>4. v = IF u = 0 THEN size - 1 ELSE u - 1
  <2>1. PICK x \in 0 .. 2 * size - 1 : x = end - s + size
    BY <1>1
  <2>2. v = x % size
    BY <1>2, <1>3, <2>1 DEF Used, Offset
  <2>3. v = IF x < size THEN x ELSE x - size
    BY <1>1, <2>2, ModWraps
  <2>4. u = IF start <= end THEN end - start ELSE end - start + size
    BY <1>3, UsedIsDistance
  <2>5. CASE start + 1 < size
    <3>1. s = start + 1
      BY <1>3, <2>5
    <3>2. QED
      BY <1>1, <2>1, <2>3, <2>4, <3>1
  <2>6. CASE start + 1 >= size
    <3>1. s = 0 /\ start = size - 1
      BY <1>1, <1>3, <2>6
    <3>2. QED
      BY <1>1, <2>1, <2>3, <2>4, <3>1
  <2>7. QED
    BY <1>1, <2>5, <2>6
<1>5. (IF pc = "advance" THEN byte ELSE Empty) # Empty
  BY <1>1, <1>2, EmptyAssumption
<1>6. CASE u # 0
  <2>1. PICK a \in Seq(Cell) : a = Unread
    BY <1>1
  <2>2. /\ Len(a) = u /\ a # <<>> /\ Tail(a) \in Seq(Cell) /\ Len(Tail(a)) = u - 1
        /\ \A i \in 1 .. u - 1 : Tail(a)[i] = a[i + 1]
    BY <1>1, <1>3, <1>6, <2>1
  <2>3. ASSUME NEW i \in 1 .. u - 1 PROVE b[i] = Tail(a)[i]
    <3>1. b[i] = ram[Offset(s + i - 1)]
      BY <1>2, <1>3, <1>4, <1>6 DEF Unread, Offset
    <3>2. i + 1 \in 1 .. u /\ start + (i + 1) - 1 = start + i
      BY <1>1
    <3>3. a[i + 1] = ram[Offset(start + i)]
      BY <1>3, <2>1, <3>2 DEF Unread
    <3>4. Offset(s + i - 1) = Offset(start + i)
      <4>1. PICK y \in 0 .. 2 * size - 1, z \in 0 .. 2 * size - 1 :
              y = s + i - 1 /\ z = start + i
        BY <1>1
      <4>2. /\ Offset(y) = IF y < size THEN y ELSE y - size
            /\ Offset(z) = IF z < size THEN z ELSE z - size
        BY <1>1, OffsetWraps
      <4>3. y = IF start + 1 < size THEN z ELSE z - size
        BY <1>1, <1>3, <4>1
      <4>4. start + 1 >= size => z >= size
        BY <1>1, <4>1
      <4>5. Offset(y) = Offset(z)
        BY <1>1, <4>1, <4>2, <4>3, <4>4
      <4>6. QED
        BY <4>1, <4>5
    <3>5. QED
      BY <2>2, <3>1, <3>3, <3>4
  <2>4. b = Tail(a)
    BY <1>3, <1>4, <1>6, <2>2, <2>3, SeqEqual
  <2>5. QED
    BY <1>2, <1>3, <1>5, <2>1, <2>2, <2>4 DEF Channel!Consume
<1>7. CASE u = 0
  <2>1. Unread = <<>>
    BY <1>1, <1>3, <1>7
  <2>2. overrun
    BY <1>2, <1>3, <1>7 DEF Consistent
  <2>3. b \in [1 .. size - 1 -> Cell]
    BY <1>3, <1>4, <1>7
  <2>4. QED
    BY <1>2, <1>3, <1>5, <2>1, <2>2, <2>3 DEF Channel!Consume
<1>8. QED
  BY <1>6, <1>7

\* Every step of the host and of the guest is a step of the channel or leaves it alone.
LEMMA StepChannel == IInv /\ IInv' /\ [Next]_vars => [Channel!Next]_(Channel!vars)
<1>. SUFFICES ASSUME TypeOK, TypeOK', ~overrun => Consistent, [Next]_vars
              PROVE  [Channel!Next]_(Channel!vars)
  BY DEF IInv
<1>0. size \in Nat
  BY SizesAssumption DEF TypeOK
<1>1. ASSUME NEW data \in Blocks, AppendData(data) PROVE Channel!Next
  BY <1>0, <1>1, BlocksAreSequences, StoreIsChannelStep DEF AppendData, Channel!Next
<1>2. ASSUME NEW data \in Blocks, AppendFault(data) PROVE Channel!Next
  <2>1. PICK k \in 0 .. Len(data) - 1 : StoreBytes(SubSeq(data, 1, k))
    BY <1>2 DEF AppendFault
  <2>2. SubSeq(data, 1, k) \in Seq(Bytes) /\ Len(SubSeq(data, 1, k)) <= size
    BY <1>0, <1>2, <2>1, BlocksAreSequences DEF AppendFault
  <2>3. QED
    BY <1>2, <2>1, <2>2, StoreIsChannelStep DEF AppendFault, Channel!Next
<1>3. ASSUME NEW data \in Blocks, AppendTooBig(data) PROVE UNCHANGED Channel!vars
  BY <1>3 DEF AppendTooBig, guest, Channel!vars, Unread, Used, Offset
<1>4. ASSUME NEW n \in 1 .. MaxLen, Call(n) PROVE UNCHANGED Channel!vars
  BY <1>4 DEF Call, Channel!vars, Unread, Used, Offset
<1>5. CASE LoadEnd
  BY <1>5 DEF LoadEnd, Channel!vars, Unread, Used, Offset
<1>6. CASE Test
  BY <1>6 DEF Test, Return, Channel!vars, Unread, Used, Offset
<1>7. CASE LoadByte
  BY <1>7, LoadIsFetch DEF Channel!Next
<1>8. CASE Advance
  BY <1>8, AdvanceIsConsume DEF Channel!Next
<1>9. CASE UNCHANGED vars
  BY <1>9 DEF vars, guest, Channel!vars, Unread, Used, Offset
<1>10. QED
  BY <1>1, <1>2, <1>3, <1>4, <1>5, <1>6, <1>7, <1>8, <1>9 DEF Next, Host, GuestStep

\* The ring, its host and its reader implement the byte channel, overruns included.
THEOREM ChannelImplemented == Spec => ChannelSpec
BY InitIInv, StepIInv, InitChannel, StepChannel, PTL DEF Spec, ChannelSpec, Channel!Spec

-----------------------------------------------------------------------------
(* Joining blocks.  FlattenSeq is defined by a recursive function, which    *)
(* the provers know only once it is shown to exist: there is one, and only *)
(* one, by the least counterexample.                                       *)

\* f holds what the first i blocks of s come to, for every i up to n.
Joins(f, s, n) ==
  /\ f = [i \in 1 .. n |-> f[i]]
  /\ \A i \in 1 .. n : f[i] = IF i = 1 THEN s[i] ELSE f[i - 1] \o s[i]

\* s and t have the same first n elements.
Alike(s, t, n) == \A i \in 1 .. n : s[i] = t[i]

\* Such an f exists,
LEMMA JoinExists ==
  ASSUME NEW S, NEW s \in Seq(Seq(S)), NEW n \in 0 .. Len(s)
  PROVE  \E f \in [1 .. n -> Seq(S)] : Joins(f, s, n)
<1>. DEFINE T == {k \in 0 .. Len(s) : ~\E f \in [1 .. k -> Seq(S)] : Joins(f, s, k)}
<1>1. SUFFICES ASSUME T # {} PROVE FALSE
  OBVIOUS
<1>2. PICK m \in T : \A k \in T : m <= k
  <2>1. T \in SUBSET Nat
    OBVIOUS
  <2>2. QED
    BY <1>1, <2>1, HasLeast
<1>3. m # 0
  <2>1. ASSUME m = 0 PROVE FALSE
    <3>1. PICK f \in [1 .. 0 -> Seq(S)] : f = [i \in 1 .. 0 |-> <<>>]
      <4>1. [i \in 1 .. 0 |-> <<>>] \in [1 .. 0 -> Seq(S)]
        OBVIOUS
      <4>2. QED
        BY <4>1
    <3>2. Joins(f, s, 0)
      BY <3>1 DEF Joins
    <3>3. QED
      BY <2>1, <3>2
  <2>2. QED
    BY <2>1
<1>4. PICK g \in [1 .. m - 1 -> Seq(S)] : Joins(g, s, m - 1)
  <2>1. m - 1 \in 0 .. Len(s) /\ m - 1 < m
    BY <1>2, <1>3
  <2>3. m - 1 \notin T
    <3>1. m - 1 \in T => m <= m - 1
      BY Zenon, <1>2
    <3>2. m \in Nat /\ ~(m <= m - 1)
      BY <2>1
    <3>3. QED
      BY Zenon, <3>1, <3>2
  <2>2. QED
    BY <2>1, <2>3
<1>5. PICK top \in Seq(S) : top = IF m = 1 THEN s[m] ELSE g[m - 1] \o s[m]
  <2>1. s[m] \in Seq(S) /\ (m # 1 => g[m - 1] \in Seq(S))
    BY <1>2, <1>3, <1>4
  <2>2. CASE m = 1
    BY <2>1, <2>2
  <2>3. CASE m # 1
    <3>1. g[m - 1] \o s[m] \in Seq(S)
      BY <2>1, <2>3
    <3>2. QED
      BY <2>3, <3>1
  <2>4. QED
    BY <2>2, <2>3
<1>6. PICK f \in [1 .. m -> Seq(S)] : f = [i \in 1 .. m |-> IF i = m THEN top ELSE g[i]]
  <2>1. ASSUME NEW i \in 1 .. m, i # m PROVE g[i] \in Seq(S)
    BY <1>2, <1>4, <2>1
  <2>2. [i \in 1 .. m |-> IF i = m THEN top ELSE g[i]] \in [1 .. m -> Seq(S)]
    BY <1>5, <2>1
  <2>3. QED
    BY <2>2
<1>7. ASSUME NEW i \in 1 .. m PROVE f[i] = IF i = 1 THEN s[i] ELSE f[i - 1] \o s[i]
  <2>1. CASE i = m
    BY <1>2, <1>5, <1>6, <2>1
  <2>2. CASE i # m
    <3>1. i \in 1 .. m - 1 /\ f[i] = g[i] /\ (i # 1 => i - 1 \in 1 .. m - 1 /\ f[i - 1] = g[i - 1])
      BY <1>2, <1>6, <2>2
    <3>2. g[i] = IF i = 1 THEN s[i] ELSE g[i - 1] \o s[i]
      BY <1>4, <3>1 DEF Joins
    <3>3. QED
      BY <3>1, <3>2
  <2>3. QED
    BY <2>1, <2>2
<1>8. Joins(f, s, m)
  BY <1>6, <1>7 DEF Joins
<1>9. QED
  BY <1>2, <1>8

\* and it is determined, up to the shorter of two.
LEMMA JoinsAgree ==
  ASSUME NEW s, NEW t, NEW n \in Nat, NEW m \in Nat, n <= m,
         Alike(s, t, n),
         NEW f, NEW g, Joins(f, s, n), Joins(g, t, m)
  PROVE  Alike(f, g, n)
<1>. DEFINE T == {i \in 1 .. n : f[i] # g[i]}
<1>1. SUFFICES ASSUME T # {} PROVE FALSE
  BY DEF Alike
<1>2. PICK k \in T : \A i \in T : k <= i
  <2>1. T \in SUBSET Nat
    OBVIOUS
  <2>2. QED
    BY <1>1, <2>1, HasLeast
<1>3. /\ f[k] = IF k = 1 THEN s[k] ELSE f[k - 1] \o s[k]
      /\ g[k] = IF k = 1 THEN t[k] ELSE g[k - 1] \o t[k]
  <2>1. k \in 1 .. n /\ k \in 1 .. m
    BY <1>2
  <2>2. QED
    BY Zenon, <2>1 DEF Joins
<1>4. k # 1 => f[k - 1] = g[k - 1]
  BY <1>2
<1>5. QED
  BY <1>2, <1>3, <1>4 DEF Alike

\* so what FlattenSeq chooses has the values its definition asks for.
LEMMA FlattenJoins ==
  ASSUME NEW S, NEW s \in Seq(Seq(S)), s # <<>>
  PROVE  \E f \in [1 .. Len(s) -> Seq(S)] : Joins(f, s, Len(s)) /\ Sequence!FlattenSeq(s) = f[Len(s)]
<1>1. PICK f \in [1 .. Len(s) -> Seq(S)] : Joins(f, s, Len(s))
  BY JoinExists
<1>2. f = [i \in 1 .. Len(s) |-> IF i = 1 THEN s[i] ELSE f[i - 1] \o s[i]]
  <2>1. [i \in 1 .. Len(s) |-> f[i]] = [i \in 1 .. Len(s) |-> IF i = 1 THEN s[i] ELSE f[i - 1] \o s[i]]
    BY Zenon, <1>1 DEF Joins
  <2>2. QED
    BY Zenon, <1>1, <2>1 DEF Joins
<1>3. Len(s) # 0
  OBVIOUS
<1>4. PICK g : /\ g = [i \in 1 .. Len(s) |-> IF i = 1 THEN s[i] ELSE g[i - 1] \o s[i]]
               /\ Sequence!FlattenSeq(s) = g[Len(s)]
  BY Zenon, <1>2, <1>3 DEF Sequence!FlattenSeq
<1>5. Joins(g, s, Len(s))
  <2>1. ASSUME NEW i \in 1 .. Len(s) PROVE g[i] = IF i = 1 THEN s[i] ELSE g[i - 1] \o s[i]
    BY Zenon, <1>4
  <2>2. [i \in 1 .. Len(s) |-> g[i]] = [i \in 1 .. Len(s) |-> IF i = 1 THEN s[i] ELSE g[i - 1] \o s[i]]
    BY Zenon, <2>1
  <2>3. QED
    BY Zenon, <1>4, <2>1, <2>2 DEF Joins
<1>6. QED
  <2>1. Len(s) \in Nat /\ Len(s) \in 1 .. Len(s)
    BY <1>3
  <2>2. Alike(f, g, Len(s))
    BY <1>1, <1>5, <2>1, JoinsAgree DEF Alike
  <2>3. QED
    BY <1>1, <1>4, <2>1, <2>2 DEF Alike

\* One more block goes to the end of what the others come to.
LEMMA FlattenAppend ==
  ASSUME NEW S, NEW s \in Seq(Seq(S)), NEW x \in Seq(S)
  PROVE  /\ Sequence!FlattenSeq(s) \in Seq(S)
         /\ Sequence!FlattenSeq(Append(s, x)) = Sequence!FlattenSeq(s) \o x
<1>1. PICK t : t = Append(s, x)
  OBVIOUS
<1>2. /\ t \in Seq(Seq(S)) /\ t # <<>> /\ Len(t) = Len(s) + 1 /\ t[Len(t)] = x
      /\ Alike(s, t, Len(s))
  BY <1>1 DEF Alike
<1>3. PICK g \in [1 .. Len(t) -> Seq(S)] :
        Joins(g, t, Len(t)) /\ Sequence!FlattenSeq(t) = g[Len(t)]
  BY <1>2, FlattenJoins
<1>4. g[Len(t)] = IF Len(t) = 1 THEN x ELSE g[Len(s)] \o x
  <2>1. Len(t) \in 1 .. Len(t) /\ Len(t) - 1 = Len(s)
    BY <1>2
  <2>2. QED
    BY <1>2, <1>3, <2>1 DEF Joins
<1>5. CASE s = <<>>
  <2>1. Sequence!FlattenSeq(s) = <<>>
    BY <1>5 DEF Sequence!FlattenSeq
  <2>2. Len(t) = 1 /\ <<>> \o x = x
    BY <1>2, <1>5
  <2>3. QED
    BY <1>1, <1>3, <1>4, <2>1, <2>2
<1>6. CASE s # <<>>
  <2>1. PICK f \in [1 .. Len(s) -> Seq(S)] :
          Joins(f, s, Len(s)) /\ Sequence!FlattenSeq(s) = f[Len(s)]
    BY <1>6, FlattenJoins
  <2>2. /\ Len(s) \in Nat /\ Len(t) \in Nat /\ Len(s) <= Len(t)
        /\ Len(s) \in 1 .. Len(s) /\ Len(t) # 1
    BY <1>2, <1>6
  <2>3. Alike(f, g, Len(s))
    BY <1>2, <1>3, <2>1, <2>2, JoinsAgree
  <2>4. f[Len(s)] \in Seq(S) /\ g[Len(t)] = f[Len(s)] \o x
    BY <1>4, <2>1, <2>2, <2>3 DEF Alike
  <2>5. QED
    BY Zenon, <1>1, <1>3, <2>1, <2>4
<1>7. QED
  BY <1>5, <1>6

-----------------------------------------------------------------------------
(* The console: a ring, an echo program and the block device. *)

\* Every step of the console is one of the ring and its reader, or leaves them alone.
LEMMA ConsoleStepsRing == [ConsoleNext]_consoleVars => [Next]_vars
<1>1. ASSUME UNCHANGED inVars PROVE UNCHANGED vars
  BY <1>1 DEF inVars, vars, guest
<1>2. CASE HostAppends
  BY <1>2 DEF HostAppends, Next
<1>3. CASE Read
  BY <1>3 DEF Read, Next
<1>4. CASE WildStart \/ SendStart \/ SendLength \/ WildLength \/ UNCHANGED consoleVars
  BY <1>1, <1>4 DEF WildStart, SendStart, SendLength, WildLength, consoleVars
<1>5. CASE Poll
  BY <1>5 DEF Poll, Next, GuestStep
<1>6. CASE Load
  BY <1>6 DEF Load, Next, GuestStep
<1>7. CASE Consume
  BY <1>7 DEF Consume, Next, GuestStep
<1>8. QED
  BY <1>2, <1>3, <1>4, <1>5, <1>6, <1>7 DEF ConsoleNext, Program

\* The console's part of the state.
Wired == /\ devices = Map /\ MemOK
         /\ ConsoleTypeOK
         /\ emitted \in Seq(Seq(Byte))
         /\ storing /\ count > 0 => startAddress = ptr

\* The buffer is memory that can be written and read.
LEMMA BufferIsMemory ==
  ASSUME devices = Map, MemOK, NEW p \in Pointers, NEW k \in 0 .. MaxLen - 1
  PROVE  p + k \in Nat /\ BusWrites(p + k) /\ BusRead(p + k) \in Word
<1>1. p + k \in Nat /\ MapOK
  BY PointersAssumption, AttachedAssumption, BoundsAssumption DEF MapOK
<1>2. PICK i \in DOMAIN Map :
        /\ \A j \in DOMAIN Map : Covers(Map[j], WordAddress(p + k)) <=> j = i
        /\ Map[i].device \in RAMs
        /\ Fits(Map[i].device, WordAddress(p + k) - Map[i].start)
  BY BufferAssumption
<1>3. Hits(p + k) = {i}
  BY <1>2 DEF Hits
<1>4. Route(p + k) = i
  BY <1>1, <1>3, RouteIsFirst
<1>5. BusWrites(p + k)
  BY <1>2, <1>3, <1>4 DEF BusWrites, MemWrites, Target, TargetOffset
<1>6. BusRead(p + k) # Fault
  <2>1. BusRead(p + k) = [n \in 0 .. 3 |-> mem[Target(p + k)][TargetOffset(p + k) + n]]
    BY <1>2, <1>3, <1>4 DEF BusRead, MemRead, Target, TargetOffset
  <2>2. DOMAIN BusRead(p + k) = 0 .. 3
    BY <2>1
  <2>3. DOMAIN Fault = {}
    BY DEF Fault
  <2>4. QED
    BY <2>2, <2>3
<1>7. QED
  BY <1>1, <1>5, <1>6, ReadIsWord


\* What byte k of the buffer holds.
Slot(k) == BusRead(ptr + k)[(ptr + k) % 4]

LEMMA SlotType ==
  ASSUME Wired, NEW k \in 0 .. MaxLen - 1
  PROVE  Slot(k) \in Byte
<1>1. ptr \in Pointers /\ ptr + k \in Nat /\ BusRead(ptr + k) \in Word
  BY BufferIsMemory DEF Wired, ConsoleTypeOK
<1>2. (ptr + k) % 4 \in 0 .. 3
  BY <1>1
<1>3. QED
  BY <1>1, <1>2 DEF Slot, Word

\* A step that leaves the bus and the buffer where they are leaves its bytes.
LEMMA SlotsKept ==
  ASSUME devices' = devices, mem' = mem, ptr' = ptr, NEW k
  PROVE  Slot(k)' = Slot(k)
BY DEF Slot, BusRead, Hits, Target, Route, TargetOffset, MemRead, Fits

\* What the guest fetches from the ring is a byte.
LEMMA CellsAreBytes == Cell \subseteq Byte
BY PointersAssumption, ByteAssumption DEF Cell, Blank, Zero

\* Storing the byte read changes that byte of the buffer and no other.
LEMMA LoadStores ==
  ASSUME TypeOK, Wired, Load, NEW k \in 0 .. MaxLen - 1
  PROVE  /\ MemOK'
         /\ Slot(k)' = IF k = DataIdx THEN byte' ELSE Slot(k)
<1>1. /\ MemOK /\ devices = Map /\ MapOK /\ ptr \in Pointers /\ DataIdx \in 0 .. MaxLen - 1
      /\ devices' = devices /\ ptr' = ptr
  BY AttachedAssumption, BoundsAssumption DEF TypeOK, Wired, ConsoleTypeOK, MapOK, Load, LoadByte
<1>2. PICK a \in Nat : a = ptr + DataIdx
  BY <1>1, PointersAssumption
<1>3. PICK b \in Nat : b = ptr + k
  BY <1>1, PointersAssumption
<1>4. BusWrites(a) /\ BusRead(a) \in Word /\ BusRead(b) \in Word
  BY <1>1, <1>2, <1>3, BufferIsMemory
<1>5. byte' \in Byte
  BY CellsAreBytes DEF Load, LoadByte, TypeOK
<1>6. PICK w \in Word : w = [BusRead(a) EXCEPT ![a % 4] = byte']
  <2>1. a % 4 \in 0 .. 3
    OBVIOUS
  <2>2. [BusRead(a) EXCEPT ![a % 4] = byte'] \in Word
    BY <1>4, <1>5, <2>1 DEF Word
  <2>3. QED
    BY <2>2
<1>7. mem' = MemAfter(a, w)
  BY <1>2, <1>6 DEF Load
<1>8. MemOK'
  BY <1>1, <1>4, <1>7, WriteKeepsMemory
<1>9. BusRead(b)' = IF WordAddress(b) = WordAddress(a) THEN w ELSE BusRead(b)
  <2>1. Placed
    BY <1>1, AttachedAssumption DEF Placed
  <2>2. QED
    BY <1>1, <1>4, <1>7, <2>1, WriteIsLocal
<1>10. Slot(k)' = BusRead(b)'[b % 4] /\ Slot(k) = BusRead(b)[b % 4]
  BY <1>1, <1>3 DEF Slot
<1>11. b % 4 \in 0 .. 3 /\ a % 4 \in 0 .. 3
  OBVIOUS
<1>12. CASE k = DataIdx
  <2>1. a = b
    BY <1>2, <1>3, <1>12
  <2>2. w[a % 4] = byte'
    BY <1>4, <1>6, <1>11 DEF Word
  <2>3. QED
    BY <1>8, <1>9, <1>10, <1>12, <2>1, <2>2
<1>13. CASE k # DataIdx
  <2>1. a # b
    BY <1>1, <1>2, <1>3, <1>13, PointersAssumption
  <2>2. CASE WordAddress(b) = WordAddress(a)
    <3>1. a % 4 # b % 4
      BY <2>1, <2>2 DEF WordAddress
    <3>2. w[b % 4] = BusRead(a)[b % 4]
      BY <1>4, <1>6, <1>11, <3>1 DEF Word
    <3>3. BusRead(a) = BusRead(b)
      BY <2>2, WordIsServedAlike
    <3>4. QED
      BY <1>8, <1>9, <1>10, <1>13, <2>2, <3>2, <3>3
  <2>3. CASE WordAddress(b) # WordAddress(a)
    BY <1>8, <1>9, <1>10, <1>13, <2>3
  <2>4. QED
    BY <2>2, <2>3
<1>14. QED
  BY <1>12, <1>13

\* A block that can be read is one of bytes.
LEMMA BlockType ==
  ASSUME Wired, NEW n \in 1 .. MaxLen, startAddress = ptr, Readable(n)
  PROVE  Block(n) \in Seq(Byte) /\ Len(Block(n)) = n
<1>1. ptr \in Nat /\ n \in Nat /\ MapOK /\ MemOK
  BY PointersAssumption, BoundsAssumption, AttachedAssumption DEF Wired, ConsoleTypeOK, MapOK
<1>2. ASSUME NEW k \in 1 .. n PROVE Block(n)[k] \in Byte
  <2>1. PICK i \in Nat, j \in 0 .. 3 : i = (k - 1) \div 4 /\ j = (k - 1) % 4 /\ k - 1 = 4 * i + j
    BY <1>1
  <2>2. i < WordCount(n) /\ WordCount(n) \in Nat
    BY <1>1, <2>1 DEF WordCount
  <2>3. Block(n)[k] = BusRead(ptr + 4 * i)[j]
    BY <2>1, <2>2 DEF Block, BlockWord
  <2>4. PICK a \in Nat : a = ptr + 4 * i
    BY <1>1
  <2>5. BusRead(a) # Fault
    BY <2>2, <2>4 DEF Readable, BlockWord
  <2>6. BusRead(a) \in Word
    BY <1>1, <2>5, ReadIsWord
  <2>7. QED
    BY <2>3, <2>4, <2>6 DEF Word
<1>3. Block(n) = [k \in 1 .. n |-> Block(n)[k]]
  BY DEF Block
<1>4. PICK b : b = Block(n)
  OBVIOUS
<1>5. b \in [1 .. n -> Byte]
  BY <1>2, <1>3, <1>4
<1>6. b \in Seq(Byte) /\ Len(b) = n
  BY <1>1, <1>5
<1>7. QED
  BY <1>4, <1>6

\* The block that _write sends has the bytes of the buffer, if it starts at a word.
LEMMA BlockIsBuffer ==
  ASSUME Wired, Aligned, NEW n \in 1 .. MaxLen, startAddress = ptr, NEW k \in 1 .. n
  PROVE  Block(n)[k] = Slot(k - 1)
<1>1. ptr \in Nat /\ ptr % 4 = 0 /\ n \in Nat
  BY PointersAssumption, BoundsAssumption DEF Wired, ConsoleTypeOK, Aligned
<1>2. PICK i \in Nat, j \in 0 .. 3 : i = (k - 1) \div 4 /\ j = (k - 1) % 4 /\ k - 1 = 4 * i + j
  BY <1>1
<1>3. i < WordCount(n)
  BY <1>1, <1>2 DEF WordCount
<1>4. Block(n)[k] = BusRead(ptr + 4 * i)[j]
  BY <1>2, <1>3 DEF Block, BlockWord
<1>5. PICK a \in Nat : a = ptr + (k - 1)
  BY <1>1
<1>6. a % 4 = j /\ WordAddress(a) = ptr + 4 * i /\ WordAddress(ptr + 4 * i) = ptr + 4 * i
  BY <1>1, <1>2, <1>5 DEF WordAddress
<1>7. BusRead(a) = BusRead(ptr + 4 * i)
  BY <1>1, <1>2, <1>6, WordIsServedAlike
<1>8. Slot(k - 1) = BusRead(a)[a % 4]
  BY <1>5 DEF Slot
<1>9. QED
  BY <1>4, <1>6, <1>7, <1>8


-----------------------------------------------------------------------------
(* The type invariant of the console. *)

LEMMA InitWired == ConsoleInit => Wired
<1>. SUFFICES ASSUME ConsoleInit PROVE Wired
  OBVIOUS
<1>1. MemOK
  BY ByteAssumption DEF ConsoleInit, MemOK
<1>2. emitted = <<>> /\ emitted \in Seq(Seq(Byte))
  BY DEF ConsoleInit, InitOutput
<1>3. QED
  <2>1. count = 0 /\ 0 \in 0 .. MaxLen /\ DOMAIN emitted = {}
    BY <1>2, BoundsAssumption DEF ConsoleInit
  <2>2. ConsoleTypeOK
    BY <2>1 DEF ConsoleInit, Init, InitOutput, ConsoleTypeOK
  <2>3. QED
    BY <1>1, <1>2, <2>1, <2>2 DEF ConsoleInit, Wired

\* A block sent joins those emitted.
LEMMA SendEmits ==
  ASSUME Wired, SendLength
  PROVE  /\ count \in 1 .. MaxLen /\ startAddress = ptr /\ pc = "idle"
         /\ Readable(count) /\ emitted' = Append(emitted, Block(count))
BY DEF Wired, ConsoleTypeOK, SendLength, WriteLength

LEMMA StepWired ==
  TypeOK /\ Wired /\ [ConsoleNext]_consoleVars => Wired'
<1>. SUFFICES ASSUME TypeOK, Wired, [ConsoleNext]_consoleVars PROVE Wired'
  OBVIOUS
<1>1. ASSUME mem' = mem PROVE MemOK'
  BY <1>1 DEF Wired, MemOK
<1>2. CASE UNCHANGED consoleVars
  BY <1>1, <1>2 DEF consoleVars, inVars, outVars, Wired, ConsoleTypeOK
<1>3. CASE HostAppends
  <2>1. UNCHANGED <<devices, mem, outVars, ptr, count, pc>>
    BY <1>3 DEF HostAppends, Host, AppendData, AppendFault, AppendTooBig, guest
  <2>2. QED
    BY <1>1, <2>1 DEF outVars, Wired, ConsoleTypeOK
<1>4. CASE Read
  BY <1>1, <1>4 DEF Read, Call, outVars, Wired, ConsoleTypeOK
<1>5. CASE Poll
  <2>1. pc # "idle" /\ UNCHANGED <<devices, mem, outVars, ptr>>
    BY <1>5 DEF Poll, LoadEnd, Test, outVars
  <2>2. count' \in 0 .. MaxLen /\ (pc' # "idle" => count' = 0)
    BY <1>5, <2>1, BoundsAssumption DEF Poll, LoadEnd, Test, Returning, TypeOK, Wired, ConsoleTypeOK
  <2>3. QED
    BY <1>1, <2>1, <2>2 DEF outVars, Wired, ConsoleTypeOK
<1>6. CASE Load
  <2>1. MemOK'
    BY <1>6, LoadStores, BoundsAssumption DEF Wired
  <2>2. QED
    BY <1>6, <2>1 DEF Load, LoadByte, outVars, Wired, ConsoleTypeOK
<1>7. CASE Consume
  <2>1. pc # "idle" /\ UNCHANGED <<devices, mem, outVars, ptr>>
    BY <1>7 DEF Consume, Advance, outVars
  <2>2. count' \in 0 .. MaxLen /\ (pc' # "idle" => count' = 0)
    BY <1>7, <2>1, BoundsAssumption DEF Consume, Advance, Returning, TypeOK, Wired, ConsoleTypeOK
  <2>3. QED
    BY <1>1, <2>1, <2>2 DEF outVars, Wired, ConsoleTypeOK
<1>8. CASE SendStart \/ WildStart
  <2>1. /\ pc = "idle" /\ pc' = pc /\ UNCHANGED <<devices, mem, emitted, ptr, count>>
        /\ storing' = TRUE /\ (count > 0 => startAddress' = ptr)
    BY <1>8 DEF SendStart, WildStart, WriteStart, inVars
  <2>2. QED
    BY <1>1, <2>1 DEF Wired, ConsoleTypeOK
<1>9. CASE SendLength
  <2>1. /\ Block(count) \in Seq(Byte) /\ Len(Block(count)) = count
        /\ count \in 1 .. MaxLen /\ emitted' = Append(emitted, Block(count))
    BY <1>9, SendEmits, BlockType
  <2>2. /\ emitted' \in Seq(Seq(Byte))
        /\ \A i \in DOMAIN emitted' : Len(emitted'[i]) \in 1 .. MaxLen
    BY <2>1 DEF Wired, ConsoleTypeOK
  <2>3. /\ count' = 0 /\ 0 \in 0 .. MaxLen /\ storing' = FALSE
        /\ UNCHANGED <<devices, mem, ptr, pc>>
    BY <1>9, BoundsAssumption DEF SendLength, WriteLength, inVars
  <2>4. ConsoleTypeOK'
    BY <2>2, <2>3 DEF Wired, ConsoleTypeOK
  <2>5. QED
    BY <1>1, <2>2, <2>3, <2>4 DEF Wired
<1>10. CASE WildLength
  BY <1>1, <1>10 DEF WildLength, WriteLengthThrows, inVars, Wired, ConsoleTypeOK
<1>11. QED
  BY <1>2, <1>3, <1>4, <1>5, <1>6, <1>7, <1>8, <1>9, <1>10 DEF ConsoleNext, Program

\* Whatever the host appends, _read returns no more than it was asked for, the program
\* is in one of its two calls at a time, and a block emitted is one that was read.
THEOREM ConsoleTypeCorrect == ConsoleSpec => []ConsoleTypeOK
<1>1. ConsoleInit => TypeOK
  BY InitTypeOK DEF ConsoleInit
<1>2. TypeOK /\ [ConsoleNext]_consoleVars => TypeOK'
  BY ConsoleStepsRing, StepTypeOK
<1>3. Wired => ConsoleTypeOK
  BY DEF Wired
<1>4. QED
  BY <1>1, <1>2, <1>3, InitWired, StepWired, PTL DEF ConsoleSpec


-----------------------------------------------------------------------------
(* From end to end.  Echo speaks of whole sequences; byte by byte, what the *)
(* guest has taken from the ring was emitted or is in its buffer, and a     *)
(* byte that it has stored there is about to be counted.                    *)

\* The bytes in the buffer that _read has counted and _write has not sent.
InHand == IF pc = "idle" THEN count ELSE DataIdx

Echoes ==
  /\ Len(rcvd) = Len(Output) + InHand
  /\ \A i \in 1 .. Len(Output) : rcvd[i] = Output[i]
  /\ \A k \in 0 .. InHand - 1 : rcvd[Len(Output) + k + 1] = Slot(k)
  /\ pc = "advance" => byte = Slot(DataIdx)

EchoInv == IInv /\ Wired /\ (~overrun => Echoes)

LEMMA OutputType ==
  ASSUME Wired
  PROVE  Output \in Seq(Byte) /\ Len(Output) \in Nat
<1>1. <<>> \in Seq(Byte)
  OBVIOUS
<1>2. Output \in Seq(Byte)
  BY <1>1, FlattenAppend DEF Wired, Output
<1>3. QED
  BY <1>2

LEMMA InHandType ==
  ASSUME TypeOK, Wired
  PROVE  InHand \in 0 .. MaxLen /\ (pc # "idle" => DataIdx \in 0 .. MaxLen - 1)
BY BoundsAssumption DEF TypeOK, Wired, ConsoleTypeOK, InHand

LEMMA InitEchoes == ConsoleInit => Echoes
<1>. SUFFICES ASSUME ConsoleInit PROVE Echoes
  OBVIOUS
<1>1. emitted = <<>> /\ rcvd = <<>> /\ pc = "idle" /\ count = 0
  BY DEF ConsoleInit, Init, InitOutput
<1>2. Output = <<>>
  BY <1>1 DEF Output, Sequence!FlattenSeq
<1>3. InHand = 0 /\ Len(Output) = 0 /\ Len(rcvd) = 0
  BY <1>1, <1>2 DEF InHand
<1>4. QED
  BY <1>1, <1>3 DEF Echoes

\* A step that consumes and emits nothing, and keeps the bytes of the buffer.
LEMMA QuietEchoes ==
  ASSUME Echoes, UNCHANGED <<rcvd, emitted>>, InHand' = InHand,
         \A k \in 0 .. InHand - 1 : Slot(k)' = Slot(k),
         pc' = "advance" => byte' = Slot(DataIdx)'
  PROVE  Echoes'
<1>1. Output' = Output
  BY DEF Output
<1>2. QED
  BY <1>1 DEF Echoes

\* The byte stored in the buffer is counted and consumed.
LEMMA ConsumeEchoes ==
  ASSUME TypeOK, Wired, Echoes, ~overrun, Consume
  PROVE  Echoes'
<1>1. /\ pc = "advance" /\ rcvd' = Append(rcvd, byte) /\ pc' # "advance"
      /\ UNCHANGED <<devices, mem, emitted, ptr>>
  BY DEF Consume, Advance, Return, outVars
<1>2. InHand = DataIdx /\ InHand' = DataIdx + 1 /\ DataIdx \in Nat
  BY <1>1 DEF Consume, Advance, Return, Returning, InHand, TypeOK
<1>3. PICK n \in Nat, d \in Nat : n = Len(Output) /\ d = DataIdx
  BY <1>2, OutputType
<1>4. Output' = Output
  BY <1>1 DEF Output
<1>5. Len(rcvd) = n + d /\ rcvd \in Seq(Cell) /\ byte \in Cell /\ byte = Slot(d)
  BY <1>1, <1>2, <1>3 DEF Echoes, TypeOK
<1>6. /\ Len(rcvd') = n + (d + 1) /\ rcvd'[n + d + 1] = byte
      /\ \A i \in 1 .. n + d : rcvd'[i] = rcvd[i]
  BY <1>1, <1>5
<1>7. ASSUME NEW i \in 1 .. n PROVE rcvd'[i] = Output'[i]
  BY <1>3, <1>4, <1>6 DEF Echoes
<1>8. ASSUME NEW k \in 0 .. (d + 1) - 1 PROVE rcvd'[n + k + 1] = Slot(k)'
  <2>1. Slot(k)' = Slot(k)
    BY <1>1, SlotsKept
  <2>2. CASE k = d
    BY <1>5, <1>6, <2>1, <2>2
  <2>3. CASE k # d
    <3>1. k \in 0 .. d - 1 /\ n + k + 1 \in 1 .. n + d
      BY <2>3
    <3>2. rcvd[n + k + 1] = Slot(k)
      BY <1>2, <1>3, <3>1 DEF Echoes
    <3>3. QED
      BY <1>6, <2>1, <3>1, <3>2
  <2>4. QED
    BY <2>2, <2>3
<1>9. QED
  BY <1>1, <1>2, <1>3, <1>4, <1>6, <1>7, <1>8 DEF Echoes

\* The block sent is what was in the buffer, and empties it.
LEMMA SendEchoes ==
  ASSUME TypeOK, Wired, Echoes, Aligned, SendLength
  PROVE  Echoes'
<1>1. /\ count \in 1 .. MaxLen /\ startAddress = ptr /\ pc = "idle" /\ Readable(count)
      /\ emitted' = Append(emitted, Block(count))
  BY SendEmits
<1>2. rcvd' = rcvd /\ pc' = "idle" /\ count' = 0
  BY <1>1 DEF SendLength, inVars
<1>3. PICK b \in Seq(Byte) : b = Block(count) /\ Len(b) = count
  BY <1>1, BlockType
<1>4. Output \in Seq(Byte) /\ Output' = Output \o b
  BY <1>1, <1>3, OutputType, FlattenAppend DEF Output, Wired
<1>5. PICK n \in Nat, c \in Nat : n = Len(Output) /\ c = count
  BY <1>1, OutputType, BoundsAssumption
<1>6. /\ Len(Output') = n + c
      /\ \A i \in 1 .. n : Output'[i] = Output[i]
      /\ \A k \in 1 .. c : Output'[n + k] = b[k]
  <2>1. PICK o, t : o = Output /\ t = Output'
    OBVIOUS
  <2>2. o \in Seq(Byte) /\ t = o \o b /\ Len(o) = n /\ Len(b) = c
    BY <1>3, <1>4, <1>5, <2>1
  <2>3. /\ Len(t) = n + c
        /\ \A i \in 1 .. n + c : t[i] = IF i <= n THEN o[i] ELSE b[i - n]
    BY <2>2, ConcatProperties
  <2>4. ASSUME NEW i \in 1 .. n PROVE t[i] = o[i]
    BY <2>3
  <2>5. ASSUME NEW k \in 1 .. c PROVE t[n + k] = b[k]
    <3>1. PICK i \in 1 .. n + c : i = n + k /\ ~(i <= n) /\ i - n = k
      OBVIOUS
    <3>2. QED
      BY <2>3, <3>1
  <2>6. QED
    BY <2>1, <2>3, <2>4, <2>5
<1>7. InHand = c /\ InHand' = 0
  BY <1>1, <1>2, <1>5 DEF InHand
<1>8. ASSUME NEW i \in 1 .. n + c PROVE rcvd'[i] = Output'[i]
  <2>1. CASE i <= n
    BY <1>2, <1>5, <1>6, <2>1 DEF Echoes
  <2>2. CASE i > n
    <3>1. PICK k \in 1 .. c : i = n + k
      <4>1. i - n \in 1 .. c /\ i = n + (i - n)
        BY <2>2
      <4>2. QED
        BY <4>1
    <3>2. b[k] = Slot(k - 1)
      BY <1>1, <1>3, <1>5, BlockIsBuffer
    <3>3. k - 1 \in 0 .. c - 1 /\ i = n + (k - 1) + 1
      BY <3>1
    <3>4. rcvd[n + (k - 1) + 1] = Slot(k - 1)
      BY <1>5, <1>7, <3>3 DEF Echoes
    <3>5. QED
      BY <1>2, <1>6, <3>1, <3>2, <3>3, <3>4
  <2>3. QED
    BY <2>1, <2>2
<1>9. Len(rcvd') = n + c
  BY <1>2, <1>5, <1>7 DEF Echoes
<1>10. QED
  BY <1>2, <1>6, <1>7, <1>8, <1>9 DEF Echoes

LEMMA StepEchoes ==
  ASSUME Aligned
  PROVE  EchoInv /\ [ConsoleNext]_consoleVars => (~overrun' => Echoes')
<1>. SUFFICES ASSUME EchoInv, [ConsoleNext]_consoleVars, ~overrun' PROVE Echoes'
  OBVIOUS
<1>1. TypeOK /\ Wired
  BY DEF EchoInv, IInv
<1>2. ~overrun
  <2>1. CASE HostAppends
    BY <2>1 DEF HostAppends
  <2>2. CASE ~HostAppends
    <3>1. overrun' = overrun
      BY <2>2 DEF ConsoleNext, Program, Read, Call, WildStart, Poll, LoadEnd, Test, Load, LoadByte,
                  Consume, Advance, SendStart, SendLength, WildLength, consoleVars, inVars
    <3>2. QED
      BY <3>1
  <2>3. QED
    BY <2>1, <2>2
<1>3. Echoes
  BY <1>2 DEF EchoInv
<1>4. ASSUME UNCHANGED <<devices, mem, ptr, byte, DataIdx, pc, count, rcvd, emitted>> PROVE Echoes'
  <2>1. \A k : Slot(k)' = Slot(k)
    BY <1>4, SlotsKept
  <2>2. InHand' = InHand
    BY <1>4 DEF InHand
  <2>3. pc' = "advance" => byte' = Slot(DataIdx)'
    BY <1>3, <1>4, SlotsKept DEF Echoes, Slot
  <2>4. QED
    BY <1>3, <1>4, <2>1, <2>2, <2>3, QuietEchoes
<1>5. CASE HostAppends
  <2>1. UNCHANGED <<devices, mem, outVars, ptr, count, guest, rcvd>>
    BY <1>5 DEF HostAppends, Host, AppendData, AppendFault, AppendTooBig, StoreBytes
  <2>2. QED
    BY <1>4, <2>1 DEF outVars, guest
<1>6. CASE Read
  <2>1. /\ pc = "idle" /\ count = 0 /\ pc' = "loop" /\ DataIdx' = 0
        /\ UNCHANGED <<rcvd, emitted>>
    BY <1>6 DEF Read, Call, outVars
  <2>2. InHand = 0 /\ InHand' = 0
    BY <2>1 DEF InHand
  <2>3. QED
    BY <1>3, <2>1, <2>2, QuietEchoes
<1>7. CASE Poll
  <2>1. /\ pc # "idle" /\ pc' # "advance" /\ UNCHANGED <<devices, mem, ptr, rcvd, emitted>>
        /\ InHand' = InHand
    BY <1>7 DEF Poll, LoadEnd, Test, Return, Returning, InHand, outVars
  <2>2. \A k : Slot(k)' = Slot(k)
    BY <2>1, SlotsKept
  <2>3. QED
    BY <1>3, <2>1, <2>2, QuietEchoes
<1>8. CASE Load
  <2>1. /\ pc = "load" /\ pc' = "advance" /\ DataIdx' = DataIdx
        /\ UNCHANGED <<rcvd, emitted>>
    BY <1>8 DEF Load, LoadByte, outVars
  <2>2. DataIdx \in 0 .. MaxLen - 1 /\ InHand = DataIdx /\ InHand' = DataIdx
    BY <1>1, <2>1, InHandType DEF InHand
  <2>3. ASSUME NEW k \in 0 .. InHand - 1 PROVE Slot(k)' = Slot(k)
    <3>1. k \in 0 .. MaxLen - 1 /\ k # DataIdx
      BY <2>2, BoundsAssumption
    <3>2. QED
      BY <1>1, <1>8, <3>1, LoadStores
  <2>4. PICK d \in 0 .. MaxLen - 1 : d = DataIdx
    BY <2>2
  <2>5. Slot(d)' = byte'
    BY <1>1, <1>8, <2>4, LoadStores
  <2>6. Slot(DataIdx)' = Slot(d)'
    BY <2>1, <2>4 DEF Slot
  <2>7. QED
    BY <1>3, <2>1, <2>2, <2>3, <2>5, <2>6, QuietEchoes
<1>9. CASE Consume
  BY <1>1, <1>2, <1>3, <1>9, ConsumeEchoes
<1>10. CASE SendLength
  BY <1>1, <1>3, <1>10, SendEchoes
<1>11. CASE SendStart \/ WildStart \/ WildLength \/ UNCHANGED consoleVars
  BY <1>4, <1>11
     DEF SendStart, WildStart, WriteStart, WildLength, WriteLengthThrows, consoleVars, inVars, outVars
<1>12. QED
  BY <1>5, <1>6, <1>7, <1>8, <1>9, <1>10, <1>11 DEF ConsoleNext, Program

\* The sequences again.
LEMMA EchoesAreEcho ==
  ASSUME EchoInv
  PROVE  Echo
<1>. SUFFICES ASSUME ~overrun PROVE Output \o InBuffer \o Unread = sent
  BY DEF Echo
<1>1. TypeOK /\ Wired /\ Echoes /\ rcvd \o Unread = sent
  BY ConsistentIsFifo DEF EchoInv, IInv, Fifo
<1>2. PICK n \in Nat, h \in Nat : n = Len(Output) /\ h = InHand /\ h <= MaxLen
  BY <1>1, OutputType, InHandType, BoundsAssumption
<1>3. Len(rcvd) = n + h /\ rcvd \in Seq(Cell) /\ Output \in Seq(Byte)
  BY <1>1, <1>2, OutputType DEF Echoes, TypeOK
<1>4. PICK b : b = InBuffer
  OBVIOUS
<1>5. ASSUME NEW k \in 1 .. h
      PROVE  /\ BusRead(ptr + k - 1)[(ptr + k - 1) % 4] = rcvd[n + k]
             /\ rcvd[n + k] \in Byte
  <2>1. k - 1 \in 0 .. h - 1 /\ k - 1 \in 0 .. MaxLen - 1
    BY <1>2, BoundsAssumption
  <2>2. rcvd[n + (k - 1) + 1] = Slot(k - 1)
    BY <1>1, <1>2, <2>1 DEF Echoes
  <2>3. ptr \in Nat /\ ptr + k - 1 = ptr + (k - 1) /\ n + (k - 1) + 1 = n + k
    BY <1>1, PointersAssumption DEF Wired, ConsoleTypeOK
  <2>4. QED
    BY <1>1, <2>1, <2>2, <2>3, SlotType DEF Slot
<1>6. Len(rcvd) - Len(Output) = h
  BY <1>2, <1>3
<1>7. b = [k \in 1 .. h |-> rcvd[n + k]]
  BY <1>4, <1>5, <1>6 DEF InBuffer
<1>8. b \in Seq(Byte) /\ Len(b) = h /\ \A k \in 1 .. h : b[k] = rcvd[n + k]
  <2>1. b \in [1 .. h -> Byte]
    BY <1>5, <1>7
  <2>2. b \in Seq(Byte) /\ Len(b) = h
    BY <1>2, <2>1
  <2>3. QED
    BY <1>7, <2>2
<1>9. Output \o b = rcvd
  <2>1. rcvd \in Seq(Byte)
    BY <1>3, CellsAreBytes
  <2>2. /\ Len(rcvd) = Len(Output) + Len(b)
        /\ \A i \in 1 .. Len(b) : b[i] = rcvd[Len(Output) + i]
    BY <1>2, <1>3, <1>8
  <2>3. \A i \in 1 .. Len(Output) : Output[i] = rcvd[i]
    BY <1>1 DEF Echoes
  <2>4. QED
    BY Zenon, <1>3, <1>8, <2>1, <2>2, <2>3, ConcatElementwise
<1>10. QED
  BY <1>1, <1>4, <1>9

\* What the host gets back is what it sent, in order, whatever the interleaving of its
\* appends with the guest's accesses, if the program's buffer starts at a word.
THEOREM EchoHolds == Aligned => (ConsoleSpec => []Echo)
<1>. SUFFICES ASSUME Aligned PROVE ConsoleSpec => []Echo
  OBVIOUS
<1>1. ConsoleInit => EchoInv
  BY InitIInv, InitWired, InitEchoes DEF ConsoleInit, EchoInv
<1>2. EchoInv /\ [ConsoleNext]_consoleVars => EchoInv'
  BY ConsoleStepsRing, StepIInv, StepWired, StepEchoes DEF EchoInv, IInv
<1>3. EchoInv => Echo
  BY EchoesAreEcho
<1>4. QED
  BY <1>1, <1>2, <1>3, PTL DEF ConsoleSpec
=============================================================================
