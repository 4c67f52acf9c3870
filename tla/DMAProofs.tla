------------------------------ MODULE DMAProofs ------------------------------
(***************************************************************************)
(* Proofs about DMA, for every map and image of the bus, every register    *)
(* value and every number of transfers.                                    *)
(***************************************************************************)
EXTENDS DMA, MemoryMapProofs

Controls == SUBSET {Busy, SourceInc, DestInc}

-----------------------------------------------------------------------------
(* Type correctness. *)

JobOK == /\ job.src \in Nat /\ job.dst \in Nat /\ job.len \in Int /\ job.size \in Nat
         /\ job.control \in Controls

\* A job's length can be negative: what a transfer left that ended inside a word.
StateOK == /\ TypeOK /\ MapOK /\ MemOK /\ JobOK

LEMMA InitStateOK == Init => StateOK
<1>. SUFFICES ASSUME Init PROVE StateOK
  OBVIOUS
<1>1. MapOK /\ MemOK
  BY BusAssumption DEF Init, MapOK, MemOK
<1>2. JobOK
  BY DEF Init, NoJob, JobOK, Controls
<1>3. /\ sourceAddress \in Nat /\ destAddress \in Nat
      /\ transferLength \in Int /\ dataSize \in DataSizes \cup {4} /\ starts \in 0 .. MaxStarts
  BY GuestAssumption DEF Init
<1>4. /\ controlRegister \subseteq {Busy, SourceInc, DestInc}
      /\ transferComplete \in BOOLEAN /\ pc \in {"idle", "copy"}
  BY DEF Init
<1>5. QED
  BY <1>1, <1>2, <1>3, <1>4 DEF StateOK, TypeOK, MapOK, MemOK

\* The addresses stay addresses: they only grow.
LEMMA AdvanceType ==
  ASSUME TypeOK, NEW addr \in Nat, NEW bit
  PROVE  Advance(addr, bit) \in Nat /\ dataSize \in Nat
BY GuestAssumption DEF TypeOK, Advance

LEMMA StepStateOK == StateOK /\ [Next]_vars => StateOK'
<1>. SUFFICES ASSUME StateOK, [Next]_vars PROVE StateOK'
  OBVIOUS
<1>. USE DEF StateOK
<1>1. ASSUME NEW s \in Sources, NEW d \in Dests, NEW l \in Lengths, NEW z \in DataSizes,
             WriteRegisters(s, d, l, z)
      PROVE  StateOK'
  <2>1. s \in Nat /\ d \in Nat /\ l \in Nat /\ z \in Nat
    BY GuestAssumption
  <2>2. JobOK'
    BY <1>1 DEF WriteRegisters, NoJob, JobOK, Controls
  <2>3. QED
    BY <1>1, <2>1, <2>2 DEF WriteRegisters, TypeOK, MapOK, MemOK
<1>2. ASSUME NEW c \in SUBSET {Busy, SourceInc, DestInc}, WriteControl(c)
      PROVE  StateOK'
  <2>1. devices' = devices /\ mem' = mem /\ UNCHANGED registers /\ controlRegister' = c
    BY <1>2 DEF WriteControl
  <2>2. transferComplete' \in BOOLEAN /\ pc' \in {"idle", "copy"}
    BY <1>2 DEF WriteControl, TypeOK
  <2>3. job' \in {job, NoJob, NewJob(c)}
    BY <1>2 DEF WriteControl
  <2>4. starts' \in 0 .. MaxStarts
    <3>1. CASE Busy \in c /\ transferLength # 0
      BY <1>2, <3>1, GuestAssumption DEF WriteControl, TypeOK
    <3>2. CASE ~(Busy \in c /\ transferLength # 0)
      BY <1>2, <3>2 DEF WriteControl, TypeOK
    <3>3. QED
      BY <3>1, <3>2
  <2>5. JobOK'
    <3>1. CASE job' = NewJob(c)
      <4>1. dataSize \in Nat
        BY GuestAssumption DEF TypeOK
      <4>2. QED
        BY <3>1, <4>1 DEF NewJob, JobOK, Controls, TypeOK
    <3>2. CASE job' \in {job, NoJob}
      BY <3>2 DEF NoJob, JobOK, Controls
    <3>3. QED
      BY <2>3, <3>1, <3>2
  <2>6. QED
    BY <2>1, <2>2, <2>4, <2>5 DEF registers, TypeOK, MapOK, MemOK
<1>3. CASE AttachLate
  <2>1. MapOK'
    BY <1>3, BusAssumption DEF AttachLate, Attach, MapOK, Entries
  <2>2. QED
    BY <1>3, <2>1 DEF AttachLate, registers, TypeOK, MapOK, MemOK, JobOK
<1>4. CASE CopyWord
  <2>1. sourceAddress \in Nat /\ destAddress \in Nat /\ BusRead(sourceAddress) \in Word
    BY <1>4, ReadIsWord DEF CopyWord, WordFaults, TypeOK
  <2>2. MemOK'
    BY <1>4, <2>1, WriteKeepsMemory DEF CopyWord, WordFaults
  <2>3. sourceAddress' \in Nat /\ destAddress' \in Nat /\ dataSize \in Nat
    BY <1>4, <2>1, AdvanceType DEF CopyWord
  <2>4. transferLength' \in Int
    BY <1>4, <2>3 DEF CopyWord, TypeOK
  <2>5. QED
    BY <1>4, <2>2, <2>3, <2>4 DEF CopyWord, TypeOK, MapOK, MemOK, JobOK
<1>5. CASE CopyFault
  BY <1>5 DEF CopyFault, registers, TypeOK, MapOK, MemOK, JobOK
<1>6. CASE Finish
  BY <1>6 DEF Finish, registers, TypeOK, MapOK, MemOK, JobOK
<1>7. CASE UNCHANGED vars
  BY <1>7 DEF vars, registers, TypeOK, MapOK, MemOK, JobOK
<1>8. QED
  BY <1>1, <1>2, <1>3, <1>4, <1>5, <1>6, <1>7 DEF Next, Transfer

\* Whatever the guest programs and wherever a transfer faults, the addresses stay
\* natural numbers and the memories keep their bytes.
THEOREM TypeCorrect == Spec => []TypeOK
<1>1. StateOK => TypeOK
  BY DEF StateOK
<1>2. QED
  BY InitStateOK, StepStateOK, <1>1, PTL DEF Spec
-----------------------------------------------------------------------------
(* The registers and the progress of a transfer. *)

LEMMA Product ==
  ASSUME NEW k \in Nat, NEW z \in Nat
  PROVE  k * z \in Nat /\ (k + 1) * z = k * z + z /\ 0 * z = 0
OBVIOUS

LEMMA Quotient ==
  ASSUME NEW k \in Nat, NEW z \in Nat, z > 0, NEW l \in Int
  PROVE  (l - (l - k * z)) \div z = k
<1>1. l - (l - k * z) = k * z
  BY Product
<1>2. (k * z) \div z = k
  OBVIOUS
<1>3. QED
  BY <1>1, <1>2

\* The registers are those of the job after k words, the last of which was still
\* called for.
Tracked(k) ==
  /\ transferLength = job.len - k * job.size
  /\ sourceAddress = SrcAt(k) /\ destAddress = DstAt(k)
  /\ k > 0 => transferLength + job.size > 0

TrackInv ==
  /\ Busy \in job.control => dataSize = job.size
  /\ JobDescribed => \E k \in Nat : Tracked(k)
  /\ pc = "copy" => Busy \in job.control /\ controlRegister = job.control
  /\ transferComplete /\ Busy \in job.control => transferLength <= 0

\* The number of words copied can be read off the registers.
LEMMA CopiedIs ==
  ASSUME StateOK, JobDescribed, NEW k \in Nat, Tracked(k)
  PROVE  Copied = k
BY Quotient DEF StateOK, JobOK, JobDescribed, Tracked, Copied

LEMMA InitTrack == Init => TrackInv
BY DEF Init, NoJob, TrackInv, JobDescribed, Busy

\* Copying one more word takes the registers one word further.
LEMMA WordTracks ==
  ASSUME StateOK, TrackInv, CopyWord, JobDescribed, NEW k \in Nat, Tracked(k)
  PROVE  Tracked(k + 1)'
<1>1. /\ job.size \in Nat /\ dataSize = job.size /\ controlRegister = job.control
      /\ job' = job /\ transferLength > 0
      /\ job.len \in Int /\ job.src \in Nat /\ job.dst \in Nat /\ transferLength \in Int
  BY DEF CopyWord, TrackInv, JobDescribed, StateOK, JobOK, TypeOK
<1>2. PICK z \in Nat : z = job.size
  BY <1>1
<1>3. k * z \in Nat /\ (k + 1) * z = k * z + z
  BY Product
<1>4. transferLength' = job.len - (k + 1) * z
  <2>1. transferLength = job.len - k * z /\ transferLength' = transferLength - z
    BY <1>1, <1>2 DEF Tracked, CopyWord
  <2>2. QED
    BY <1>1, <1>3, <2>1
<1>5. sourceAddress' = SrcAt(k + 1)
  <2>1. sourceAddress = IF SourceInc \in job.control THEN job.src + k * z ELSE job.src
    BY <1>2 DEF Tracked, SrcAt
  <2>2. sourceAddress' = IF SourceInc \in job.control THEN sourceAddress + z ELSE sourceAddress
    BY <1>1, <1>2 DEF CopyWord, Advance
  <2>3. SrcAt(k + 1) = IF SourceInc \in job.control THEN job.src + (k + 1) * z ELSE job.src
    BY <1>2 DEF SrcAt
  <2>4. QED
    BY <1>1, <1>3, <2>1, <2>2, <2>3
<1>6. destAddress' = DstAt(k + 1)
  <2>1. destAddress = IF DestInc \in job.control THEN job.dst + k * z ELSE job.dst
    BY <1>2 DEF Tracked, DstAt
  <2>2. destAddress' = IF DestInc \in job.control THEN destAddress + z ELSE destAddress
    BY <1>1, <1>2 DEF CopyWord, Advance
  <2>3. DstAt(k + 1) = IF DestInc \in job.control THEN job.dst + (k + 1) * z ELSE job.dst
    BY <1>2 DEF DstAt
  <2>4. QED
    BY <1>1, <1>3, <2>1, <2>2, <2>3
<1>7. transferLength' + z > 0
  <2>1. transferLength' = transferLength - z
    BY <1>1, <1>2 DEF CopyWord
  <2>2. transferLength - z + z > 0
    BY <1>1
  <2>3. QED
    BY <2>1, <2>2
<1>8. QED
  BY <1>1, <1>2, <1>4, <1>5, <1>6, <1>7 DEF Tracked, SrcAt, DstAt

LEMMA StepTrack == StateOK /\ TrackInv /\ [Next]_vars => TrackInv'
<1>. SUFFICES ASSUME StateOK, TrackInv, [Next]_vars PROVE TrackInv'
  OBVIOUS
<1>1. ASSUME job' = NoJob, pc' = "idle" PROVE TrackInv'
  BY <1>1 DEF TrackInv, NoJob, JobDescribed, Busy
<1>2. ASSUME UNCHANGED <<registers, job>>,
             pc' = "copy" => Busy \in job.control /\ controlRegister' = job.control,
             transferComplete' /\ Busy \in job.control => transferLength <= 0
      PROVE  TrackInv'
  BY <1>2 DEF registers, TrackInv, JobDescribed, Tracked, SrcAt, DstAt
<1>3. ASSUME NEW c \in SUBSET {Busy, SourceInc, DestInc}, WriteControl(c)
      PROVE  TrackInv'
  <2>1. CASE ~(Busy \in c /\ transferLength # 0)
    BY <1>1, <1>3, <2>1 DEF WriteControl
  <2>2. CASE Busy \in c /\ transferLength # 0 /\ Interrupted /\ c = job.control
    BY <1>2, <1>3, <2>2 DEF WriteControl
  <2>3. CASE Busy \in c /\ transferLength # 0 /\ ~(Interrupted /\ c = job.control)
    <3>1. /\ job' = NewJob(c) /\ UNCHANGED registers /\ controlRegister' = c
          /\ ~transferComplete'
      BY <1>3, <2>3 DEF WriteControl
    <3>2. /\ job'.src = sourceAddress /\ job'.dst = destAddress /\ job'.len = transferLength
          /\ job'.size = dataSize /\ job'.control = c
      BY <3>1 DEF NewJob
    <3>3. dataSize \in Nat /\ transferLength \in Int /\ sourceAddress \in Nat /\ destAddress \in Nat
      BY GuestAssumption DEF StateOK, TypeOK
    <3>4. transferLength' = job'.len - 0 * job'.size
      BY <3>1, <3>2, <3>3, Product DEF registers
    <3>5. sourceAddress' = SrcAt(0)' /\ destAddress' = DstAt(0)'
      BY <3>1, <3>2, <3>3, Product DEF registers, SrcAt, DstAt
    <3>6. Tracked(0)'
      BY <3>4, <3>5 DEF Tracked
    <3>7. QED
      BY <2>3, <3>1, <3>2, <3>6 DEF TrackInv, registers
  <2>4. QED
    BY <2>1, <2>2, <2>3
<1>4. CASE CopyWord
  <2>1. /\ job' = job /\ dataSize' = dataSize /\ transferLength > 0
        /\ UNCHANGED <<pc, controlRegister, transferComplete>>
    BY <1>4 DEF CopyWord
  <2>2. JobDescribed => \E k \in Nat : Tracked(k)'
    BY <1>4, WordTracks DEF TrackInv
  <2>3. ~(transferComplete /\ Busy \in job.control)
    BY <2>1 DEF TrackInv, StateOK, TypeOK
  <2>4. QED
    BY <2>1, <2>2, <2>3 DEF TrackInv, JobDescribed
<1>5. CASE CopyFault \/ Finish
  BY <1>2, <1>5 DEF CopyFault, Finish, Finished, TrackInv
<1>6. CASE AttachLate \/ UNCHANGED vars
  BY <1>2, <1>6 DEF AttachLate, vars, TrackInv
<1>7. ASSUME NEW s \in Sources, NEW d \in Dests, NEW l \in Lengths, NEW z \in DataSizes,
             WriteRegisters(s, d, l, z)
      PROVE  TrackInv'
  BY <1>1, <1>7 DEF WriteRegisters
<1>8. QED
  BY <1>3, <1>4, <1>5, <1>6, <1>7 DEF Next, Transfer

\* For every job, and however often it faults and is resumed, the registers are those
\* of the job after the words copied so far.
THEOREM RegistersTrack == Spec => []RegistersTrackCopy
<1>1. StateOK /\ TrackInv => RegistersTrackCopy
  BY CopiedIs DEF TrackInv, Tracked, RegistersTrackCopy
<1>2. QED
  BY InitStateOK, StepStateOK, InitTrack, StepTrack, <1>1, PTL DEF Spec

\* A transfer that is complete has copied the words that its length calls for, the one
\* in which the length ends included, and no word more.
THEOREM CompleteCopied == Spec => []CompleteMeansCopied
<1>1. StateOK /\ TrackInv => CompleteMeansCopied
  <2>. SUFFICES ASSUME StateOK, TrackInv, JobDescribed, job.len > 0, transferComplete
                PROVE  Copied * job.size >= job.len /\ (Copied - 1) * job.size < job.len
    BY DEF CompleteMeansCopied
  <2>1. PICK k \in Nat : Tracked(k)
    BY DEF TrackInv
  <2>2. PICK z \in Nat, l \in Int : z = job.size /\ l = job.len
    BY DEF StateOK, JobOK
  <2>3. l - k * z <= 0 /\ l > 0 /\ (k > 0 => l - k * z + z > 0)
    BY <2>1, <2>2 DEF Tracked, TrackInv, JobDescribed
  <2>4. k # 0
    BY <2>3, Product
  <2>5. PICK j \in Nat : k = j + 1
    BY <2>4
  <2>6. j * z \in Nat /\ k * z = j * z + z /\ k - 1 = j
    BY <2>5, Product
  <2>7. k * z >= l /\ (k - 1) * z < l
    BY <2>3, <2>4, <2>6
  <2>8. QED
    BY <2>1, <2>2, <2>7, CopiedIs
<1>2. QED
  BY InitStateOK, StepStateOK, InitTrack, StepTrack, <1>1, PTL DEF Spec
-----------------------------------------------------------------------------
(* What is attached where. *)

Attached(d) == \E i \in DOMAIN devices : devices[i].device = d

\* Each memory is found in one place only, the late one in the place it has.
Places == Placed /\ \A i \in DOMAIN devices : devices[i].device = Late.device => devices[i] = Late

LEMMA InitPlaces == Init => Places
BY PlacesAssumption DEF Init, Places, Placed

LEMMA StepPlaces == StateOK /\ Places /\ [Next]_vars => Places'
<1>. SUFFICES ASSUME StateOK, Places, [Next]_vars PROVE Places'
  OBVIOUS
<1>1. CASE UNCHANGED devices
  BY <1>1 DEF Places, Placed
<1>2. CASE AttachLate
  <2>1. Late = [device |-> Late.device, start |-> Late.start, end |-> Late.end]
    BY BusAssumption DEF Entries
  <2>2. devices' = Append(devices, Late) /\ devices \in Seq(Entries)
    BY <1>2, <2>1 DEF AttachLate, Attach, StateOK, MapOK
  <2>3. /\ DOMAIN devices' = DOMAIN devices \cup {Len(devices) + 1}
        /\ devices'[Len(devices) + 1] = Late
        /\ \A i \in DOMAIN devices : devices'[i] = devices[i]
    BY <2>2
  <2>4. QED
    BY <2>3 DEF Places, Placed
<1>3. QED
  BY <1>1, <1>2 DEF Next, Transfer, WriteRegisters, WriteControl, CopyWord, CopyFault, Finish, vars

-----------------------------------------------------------------------------
(* The bus now and the bus as the job found it. *)

Now(a) == BusRead(a)
Found(a) == Before!BusRead(a)

\* Both are routed alike: what they hold differs by the memories alone.
LEMMA SameRoutes ==
  ASSUME NEW a
  PROVE  /\ Before!Hits(a) = Hits(a) /\ Before!Hits(a)' = Hits(a)'
         /\ Before!Target(a) = Target(a) /\ Before!Target(a)' = Target(a)'
         /\ Before!TargetOffset(a) = TargetOffset(a)
         /\ Before!TargetOffset(a)' = TargetOffset(a)'
<1>1. Before!Hits(a) = Hits(a) /\ Before!Hits(a)' = Hits(a)'
  BY DEF Hits, Covers, WordAddress, Before!Hits, Before!Covers, Before!WordAddress
<1>2. Before!Route(a) = Route(a) /\ Before!Route(a)' = Route(a)'
  BY <1>1 DEF Route, Before!Route
<1>3. QED
  BY <1>1, <1>2 DEF Target, TargetOffset, WordAddress,
                    Before!Target, Before!TargetOffset, Before!WordAddress

LEMMA SameMemory ==
  ASSUME NEW a
  PROVE  /\ mem = job.mem => Now(a) = Found(a)
         /\ mem' = job'.mem => Now(a)' = Found(a)'
<1>1. ASSUME mem = job.mem PROVE Now(a) = Found(a)
  BY <1>1, SameRoutes
     DEF Now, Found, BusRead, MemRead, Fits, Fill, Fault, Ones, Before!BusRead, Before!MemRead,
         Before!Fits, Before!Fill, Before!Fault, Before!Ones
<1>2. ASSUME mem' = job'.mem PROVE Now(a)' = Found(a)'
  BY <1>2, SameRoutes
     DEF Now, Found, BusRead, MemRead, Fits, Fill, Fault, Ones, Before!BusRead, Before!MemRead,
         Before!Fits, Before!Fill, Before!Fault, Before!Ones
<1>3. QED
  BY <1>1, <1>2

LEMMA FoundKept ==
  ASSUME devices' = devices, job'.mem = job.mem, NEW a
  PROVE  Found(a)' = Found(a)
BY DEF Found, Before!BusRead, Before!Hits, Before!Target, Before!Route, Before!TargetOffset,
       Before!MemRead, Before!Fits, Before!Covers

LEMMA NowKept ==
  ASSUME devices' = devices, mem' = mem, NEW a
  PROVE  Now(a)' = Now(a)
BY DEF Now, BusRead, Hits, Target, Route, TargetOffset, MemRead, Fits
\* Attaching a memory where there is none changes neither, at an address in use.
LEMMA AttachKeepsReads ==
  ASSUME StateOK, AttachLate, NEW a \in Nat, Hits(a) # {}
  PROVE  Hits(a)' # {} /\ Now(a)' = Now(a) /\ Found(a)' = Found(a)
<1>1. Late = [device |-> Late.device, start |-> Late.start, end |-> Late.end]
  BY BusAssumption DEF Entries
<1>2. devices' = Append(devices, Late) /\ mem' = mem /\ job' = job
  BY <1>1 DEF AttachLate, Attach
<1>3. Hits(a)' # {} /\ Target(a)' = Target(a) /\ TargetOffset(a)' = TargetOffset(a)
  BY <1>2, BusAssumption, AttachKeepsRoutes DEF StateOK
<1>4. Now(a)' = Now(a)
  BY <1>2, <1>3 DEF Now, BusRead, MemRead, Fits
<1>5. Found(a)' = Found(a)
  BY <1>2, <1>3, SameRoutes DEF Found, Before!BusRead, Before!MemRead, Before!Fits
<1>6. QED
  BY <1>3, <1>4, <1>5

-----------------------------------------------------------------------------
(* A transfer copies faithfully. *)

(* The property, and besides it that what has been copied lies where       *)
(* something is attached, and that a memory not yet attached is unchanged. *)
Served == \A k \in 0 .. Copied - 1 : Hits(SrcAt(k)) # {} /\ Hits(DstAt(k)) # {}
LateKept == ~Attached(Late.device) => mem[Late.device] = job.mem[Late.device]

WrittenAt(w) == \E k \in 0 .. Copied - 1 : w = WordAddress(DstAt(k))

Origins == [0 .. Copied - 1 -> 0 .. Copied - 1]
Carried(origin) ==
  \A k \in 0 .. Copied - 1 : ~Overwritten(k) => Now(DstAt(k)) = Found(SrcAt(origin[k]))
Landed == \E origin \in Origins : IsOrigin(origin) /\ Carried(origin)
Untouched == \A a \in Nat : ~WrittenAt(WordAddress(a)) => Now(a) = Found(a)

CopyInv == JobDescribed => Served /\ LateKept /\ Landed /\ Untouched

IInv == StateOK /\ TrackInv /\ Places /\ CopyInv

LEMMA PlaceType ==
  ASSUME StateOK, NEW k \in Nat
  PROVE  SrcAt(k) \in Nat /\ DstAt(k) \in Nat
<1>1. PICK z \in Nat, s \in Nat, d \in Nat : z = job.size /\ s = job.src /\ d = job.dst
  BY DEF StateOK, JobOK
<1>2. k * z \in Nat
  BY Product
<1>3. QED
  BY <1>1, <1>2 DEF SrcAt, DstAt

\* Where the words came from depends on the job alone, word by word.
LEMMA SameSources ==
  ASSUME job' = job, NEW k
  PROVE  LandedAtSource(k)' = LandedAtSource(k) /\ SrcAt(k)' = SrcAt(k) /\ DstAt(k)' = DstAt(k)
BY DEF LandedAtSource, SrcAt, DstAt, WordAddress

LEMMA SameOrigins ==
  ASSUME job' = job, Copied' = Copied
  PROVE  /\ Origins' = Origins
         /\ \A origin : IsOrigin(origin)' = IsOrigin(origin)
         /\ \A k : Overwritten(k)' = Overwritten(k)
<1>1. Origins' = Origins
  BY DEF Origins
<1>2. ASSUME NEW origin PROVE IsOrigin(origin)' = IsOrigin(origin)
  BY SameSources DEF IsOrigin, Latest
<1>3. ASSUME NEW k PROVE Overwritten(k)' = Overwritten(k)
  BY SameSources DEF Overwritten, WordAddress
<1>4. QED
  BY <1>1, <1>2, <1>3

\* Of the words that landed at a word's source there is a last one, before that word.
LEMMA LatestLanded ==
  ASSUME NEW k \in Nat, LandedAtSource(k) # {}
  PROVE  /\ Latest(LandedAtSource(k)) \in LandedAtSource(k)
         /\ Latest(LandedAtSource(k)) \in 0 .. k - 1
         /\ \A j \in LandedAtSource(k) : j <= Latest(LandedAtSource(k))
<1>1. PICK S \in SUBSET (0 .. k - 1) : S = LandedAtSource(k)
  BY DEF LandedAtSource
<1>2. DEFINE T == {k - j : j \in S}
<1>3. T \in SUBSET Nat /\ T # {}
  BY <1>1
<1>4. PICK t \in T : \A u \in T : t <= u
  BY <1>3, HasLeast
<1>5. PICK j \in S : t = k - j
  BY <1>4
<1>6. \A i \in S : i <= j
  <2>1. ASSUME NEW i \in S PROVE i <= j
    <3>1. k - i \in T
      BY <2>1
    <3>2. k - j <= k - i
      BY <1>4, <1>5, <3>1
    <3>3. i \in Int /\ j \in Int
      BY <1>1, <1>5, <2>1
    <3>4. QED
      BY <3>2, <3>3
  <2>2. QED
    BY <2>1
<1>7. Latest(S) \in S /\ \A i \in S : i <= Latest(S)
  BY <1>6 DEF Latest
<1>8. QED
  BY <1>1, <1>7

\* An access sees nothing of its address but the word.
LEMMA SameWord ==
  ASSUME NEW a, NEW b, WordAddress(a) = WordAddress(b)
  PROVE  Now(a) = Now(b) /\ Hits(a) = Hits(b)
<1>1. Hits(a) = Hits(b)
  BY DEF Hits
<1>2. QED
  BY <1>1 DEF Now, BusRead, Target, TargetOffset, Route

\* A step that changes neither the bus nor the job keeps all this as it is.
LEMMA QuietStep ==
  ASSUME CopyInv, UNCHANGED <<devices, mem, job, transferLength>>
  PROVE  CopyInv'
<1>1. /\ Copied' = Copied /\ JobDescribed' = JobDescribed
      /\ \A k : SrcAt(k)' = SrcAt(k) /\ DstAt(k)' = DstAt(k)
  BY DEF Copied, JobDescribed, SrcAt, DstAt
<1>2. \A a : Now(a)' = Now(a) /\ Found(a)' = Found(a) /\ Hits(a)' = Hits(a)
  BY NowKept, FoundKept, RoutesKept
<1>3. LateKept' = LateKept
  BY DEF LateKept, Attached
<1>4. Served' = Served /\ Untouched' = Untouched
  BY <1>1, <1>2 DEF Served, Untouched, WrittenAt, WordAddress
<1>5. Landed' = Landed
  BY <1>1, <1>2, SameOrigins DEF Landed, Carried
<1>6. QED
  BY <1>1, <1>3, <1>4, <1>5 DEF CopyInv

\* A job begins with nothing copied and the memory as it is.
LEMMA NewJobStep ==
  ASSUME StateOK', job'.mem = mem', JobDescribed' => transferLength' = job'.len
  PROVE  CopyInv'
<1>. SUFFICES ASSUME JobDescribed'
              PROVE  (Served /\ LateKept /\ Landed /\ Untouched)'
  BY DEF CopyInv
<1>1. Copied' = 0
  <2>1. PICK l \in Int, z \in Nat : l = job'.len /\ z = job'.size /\ z > 0
    BY DEF StateOK, JobOK, JobDescribed
  <2>2. (l - l) \div z = 0
    BY <2>1
  <2>3. QED
    BY <2>1, <2>2 DEF Copied
<1>2. \A a : Now(a)' = Found(a)'
  BY SameMemory
<1>3. Landed'
  <2>1. [k \in {} |-> k] \in Origins' /\ \A k : k \notin 0 .. Copied' - 1
    BY <1>1 DEF Origins
  <2>2. QED
    BY <2>1 DEF Landed, IsOrigin, Carried
<1>4. QED
  BY <1>1, <1>2, <1>3 DEF Served, LateKept, Untouched
\* A memory attached between two attempts holds what it held before the first.
LEMMA AttachStep == IInv /\ AttachLate => CopyInv'
<1>. SUFFICES ASSUME IInv, AttachLate, JobDescribed
              PROVE  (Served /\ LateKept /\ Landed /\ Untouched)'
  BY DEF CopyInv, JobDescribed, AttachLate
<1>1. /\ mem' = mem /\ job' = job /\ transferLength' = transferLength
      /\ Served /\ LateKept /\ Landed /\ Untouched
  BY DEF AttachLate, registers, IInv, CopyInv
<1>2. /\ Copied' = Copied /\ Copied \in Nat
      /\ \A k : SrcAt(k)' = SrcAt(k) /\ DstAt(k)' = DstAt(k)
  BY <1>1, CopiedIs DEF Copied, SrcAt, DstAt, IInv, TrackInv
<1>3. \A k \in 0 .. Copied - 1 : k \in Nat /\ SrcAt(k) \in Nat /\ DstAt(k) \in Nat
  BY <1>2, PlaceType DEF IInv
<1>4. /\ devices' = Append(devices, Late) /\ devices \in Seq(Entries)
      /\ Late \in Entries
  BY BusAssumption DEF AttachLate, Attach, IInv, StateOK, MapOK, Entries
<1>5. Served'
  BY <1>1, <1>2, <1>3, AttachKeepsReads DEF Served, IInv
<1>6. LateKept'
  <2>1. devices'[Len(devices) + 1] = Late /\ Len(devices) + 1 \in DOMAIN devices'
    BY <1>4
  <2>2. QED
    BY <2>1 DEF LateKept, Attached
<1>7. Landed'
  <2>1. PICK origin \in Origins : IsOrigin(origin) /\ Carried(origin)
    BY <1>1 DEF Landed
  <2>2. origin \in Origins' /\ IsOrigin(origin)' /\ \A k : Overwritten(k)' = Overwritten(k)
    BY <1>1, <1>2, <2>1, SameOrigins
  <2>3. ASSUME NEW k \in 0 .. Copied - 1, ~Overwritten(k)
        PROVE  Now(DstAt(k))' = Found(SrcAt(origin[k]))'
    <3>1. origin[k] \in 0 .. Copied - 1
      BY <2>1 DEF Origins
    <3>2. Now(DstAt(k)) = Found(SrcAt(origin[k]))
      BY <2>1, <2>3 DEF Carried
    <3>3. Hits(SrcAt(origin[k])) # {} /\ Hits(DstAt(k)) # {}
      BY <1>1, <3>1 DEF Served
    <3>4. PICK a \in Nat, b \in Nat :
            /\ a = SrcAt(origin[k]) /\ b = DstAt(k)
            /\ a = SrcAt(origin[k])' /\ b = DstAt(k)'
      BY <1>2, <1>3, <3>1
    <3>5. Now(b)' = Now(b) /\ Found(a)' = Found(a)
      BY <3>3, <3>4, AttachKeepsReads DEF IInv
    <3>6. Now(DstAt(k))' = Now(b)' /\ Found(SrcAt(origin[k]))' = Found(a)'
      BY <3>4
    <3>7. QED
      BY <3>2, <3>4, <3>5, <3>6
  <2>4. Carried(origin)'
    BY <1>2, <2>2, <2>3 DEF Carried
  <2>5. QED
    BY <2>2, <2>4 DEF Landed
<1>8. Untouched'
  <2>1. Untouched
    BY <1>1
  <2>2. ASSUME NEW a \in Nat, ~WrittenAt(WordAddress(a))' PROVE Now(a)' = Found(a)'
    <3>1. Now(a) = Found(a)
      BY <1>2, <2>1, <2>2 DEF Untouched, WrittenAt, WordAddress
    <3>2. CASE Hits(a) # {}
      BY <3>1, <3>2, AttachKeepsReads DEF IInv
    <3>3. CASE Hits(a)' = {}
      BY <3>3, SameRoutes DEF Now, Found, BusRead, Before!BusRead, Fault, Before!Fault
    <3>4. CASE Hits(a) = {} /\ Hits(a)' # {}
      <4>1. Hits(a)' = {Len(devices) + 1} /\ devices'[Len(devices) + 1] = Late
        BY <1>4, <3>4 DEF Hits
      <4>2. Target(a)' = Late.device
        BY <4>1 DEF Target, Route
      <4>3. ~Attached(Late.device)
        <5>1. ASSUME NEW i \in DOMAIN devices, devices[i] = Late PROVE FALSE
          BY <1>4, <3>4, <4>1, <5>1 DEF Hits
        <5>2. QED
          BY <5>1 DEF Attached, IInv, Places, Placed
      <4>4. mem'[Target(a)'] = job'.mem[Target(a)']
        BY <1>1, <4>2, <4>3 DEF LateKept
      <4>5. QED
        BY <3>4, <4>4, SameRoutes
           DEF Now, Found, BusRead, MemRead, Fits, Fill, Fault, Ones, Before!BusRead,
               Before!MemRead, Before!Fits, Before!Fill, Before!Fault, Before!Ones
    <3>5. QED
      BY <3>2, <3>3, <3>4
  <2>3. QED
    BY <2>2 DEF Untouched
<1>9. QED
  BY <1>5, <1>6, <1>7, <1>8
\* One word more: it is read as the job found it, unless the job has written it, and
\* lands without disturbing any other.
LEMMA CopyStep == IInv /\ CopyWord => CopyInv'
<1>. SUFFICES ASSUME IInv, CopyWord, JobDescribed
              PROVE  (Served /\ LateKept /\ Landed /\ Untouched)'
  BY DEF CopyInv, JobDescribed, CopyWord
<1>1. PICK n \in Nat : Tracked(n)
  BY DEF IInv, TrackInv
<1>2. PICK from \in Nat, to \in Nat : from = SrcAt(n) /\ to = DstAt(n)
  BY PlaceType DEF IInv
<1>3. PICK w \in Word : w = Now(from)
  BY <1>1, <1>2, ReadIsWord DEF IInv, StateOK, CopyWord, WordFaults, Tracked, Now
<1>4. /\ from = sourceAddress /\ to = destAddress
      /\ BusWrites(to) /\ Hits(to) # {} /\ Hits(from) # {}
      /\ mem' = MemAfter(to, w) /\ devices' = devices /\ job' = job
  BY <1>1, <1>2, <1>3 DEF CopyWord, WordFaults, Tracked, BusWrites, BusRead, Now
<1>5. Copied = n /\ Copied' = n + 1
  <2>1. Copied = n
    BY <1>1, CopiedIs DEF IInv
  <2>2. Tracked(n + 1)' /\ StateOK' /\ JobDescribed' /\ n + 1 \in Nat
    BY <1>1, <1>4, WordTracks, StepStateOK DEF IInv, Next, Transfer, JobDescribed
  <2>3. Copied' = n + 1
    <3>1. PICK l \in Int, z \in Nat : l = job'.len /\ z = job'.size /\ z > 0
      BY <2>2 DEF StateOK, JobOK, JobDescribed
    <3>2. (l - (l - (n + 1) * z)) \div z = n + 1
      BY <2>2, <3>1, Quotient
    <3>3. QED
      BY <2>2, <3>1, <3>2 DEF Copied, Tracked
  <2>4. QED
    BY <2>1, <2>3
<1>6. \A k : SrcAt(k)' = SrcAt(k) /\ DstAt(k)' = DstAt(k)
  BY <1>4 DEF SrcAt, DstAt
<1>7. /\ Served /\ LateKept /\ Landed /\ Untouched
  BY DEF IInv, CopyInv
<1>8. \A k \in 0 .. n : k \in Nat /\ SrcAt(k) \in Nat /\ DstAt(k) \in Nat
  BY PlaceType DEF IInv
<1>9. \A a : Hits(a)' = Hits(a) /\ Found(a)' = Found(a)
  BY <1>4, RoutesKept, FoundKept
<1>10. Served'
  <2>1. ASSUME NEW k \in 0 .. n PROVE Hits(SrcAt(k)) # {} /\ Hits(DstAt(k)) # {}
    <3>1. CASE k = n
      BY <1>2, <1>4, <3>1
    <3>2. CASE k # n
      BY <1>5, <1>7, <3>2 DEF Served
    <3>3. QED
      BY <3>1, <3>2
  <2>2. \A k : Hits(SrcAt(k))' = Hits(SrcAt(k)) /\ Hits(DstAt(k))' = Hits(DstAt(k))
    BY <1>4, <1>6 DEF Hits
  <2>3. QED
    BY <1>5, <2>1, <2>2 DEF Served
<1>11. LateKept'
  <2>1. Target(to) \in Memory /\ Attached(Target(to))
    <3>1. Route(to) \in DOMAIN devices
      BY <1>4, RouteIsFirst DEF Hits, IInv, StateOK
    <3>2. QED
      BY <1>4, <3>1, TargetIsMemory DEF Attached, Target, IInv, StateOK
  <2>2. ~Attached(Late.device) => mem'[Late.device] = mem[Late.device]
    <3>1. PICK into \in RAMs, at \in Nat : into = Target(to) /\ Overlaid(into, at, w)
      BY <1>4, WriteOverlays DEF IInv, StateOK
    <3>2. Late.device \in Memory
      BY BusAssumption DEF Entries
    <3>3. QED
      BY <2>1, <3>1, <3>2 DEF Overlaid
  <2>3. Attached(Late.device)' = Attached(Late.device)
    BY <1>4 DEF Attached
  <2>4. QED
    BY <1>4, <1>7, <2>2, <2>3 DEF LateKept
<1>12. Now(to)' = w
  BY <1>4, ReadAfterWrite DEF IInv, StateOK, Now
<1>13. ASSUME NEW a \in Nat, WordAddress(a) # WordAddress(to)
       PROVE  Now(a)' = Now(a)
  BY <1>4, <1>13, NoAlias, ReadElsewhere DEF IInv, Places, StateOK, Now
<1>14. PICK f \in Origins : IsOrigin(f) /\ Carried(f)
  BY <1>7 DEF Landed
<1>15. PICK o \in 0 .. n :
         /\ w = Found(SrcAt(o))
         /\ o = IF LandedAtSource(n) = {} THEN n ELSE f[Latest(LandedAtSource(n))]
  <2>1. CASE LandedAtSource(n) = {}
    <3>1. ~WrittenAt(WordAddress(from))
      BY <1>2, <1>5, <2>1 DEF WrittenAt, LandedAtSource
    <3>2. w = Found(SrcAt(n)) /\ n \in 0 .. n
      BY <1>2, <1>3, <1>7, <3>1 DEF Untouched
    <3>3. QED
      BY <2>1, <3>2
  <2>2. CASE LandedAtSource(n) # {}
    <3>1. PICK j \in 0 .. n - 1 :
            /\ j = Latest(LandedAtSource(n)) /\ j \in LandedAtSource(n)
            /\ \A i \in LandedAtSource(n) : i <= j
      BY <2>2, LatestLanded
    <3>2. WordAddress(DstAt(j)) = WordAddress(from)
      BY <1>2, <3>1 DEF LandedAtSource
    <3>3. ~Overwritten(j)
      <4>1. ASSUME NEW i \in j + 1 .. n - 1, WordAddress(DstAt(i)) = WordAddress(DstAt(j))
            PROVE  FALSE
        <5>1. i \in LandedAtSource(n)
          BY <1>2, <3>1, <3>2, <4>1 DEF LandedAtSource
        <5>2. i <= j
          BY <3>1, <5>1
        <5>3. QED
          BY <4>1, <5>2
      <4>2. QED
        BY <1>5, <4>1 DEF Overwritten
    <3>4. Now(DstAt(j)) = Found(SrcAt(f[j])) /\ f[j] \in 0 .. n - 1
      BY <1>5, <1>14, <3>1, <3>3 DEF Carried, Origins
    <3>5. w = Found(SrcAt(f[j]))
      BY <1>3, <3>2, <3>4, SameWord
    <3>6. f[j] \in 0 .. n
      BY <3>4
    <3>7. QED
      BY <2>2, <3>1, <3>5, <3>6
  <2>3. QED
    BY <2>1, <2>2
<1>16. Landed'
  <2>1. PICK g \in [0 .. n -> 0 .. n] : g[n] = o /\ \A k \in 0 .. n - 1 : g[k] = f[k]
    <3>1. \A k \in 0 .. n : k # n => k \in 0 .. n - 1 /\ f[k] \in 0 .. n
      <4>1. \A k \in 0 .. n - 1 : f[k] \in 0 .. n - 1
        BY <1>5, <1>14 DEF Origins
      <4>2. QED
        BY <4>1
    <3>2. [k \in 0 .. n |-> IF k = n THEN o ELSE f[k]] \in [0 .. n -> 0 .. n]
      BY <3>1
    <3>3. WITNESS [k \in 0 .. n |-> IF k = n THEN o ELSE f[k]] \in [0 .. n -> 0 .. n]
    <3>4. QED
      OBVIOUS
  <2>2. g \in Origins'
    BY <1>5, <2>1 DEF Origins
  <2>3. IsOrigin(g)'
    <3>1. ASSUME NEW k \in 0 .. n
          PROVE  g[k] = IF LandedAtSource(k) = {} THEN k ELSE g[Latest(LandedAtSource(k))]
      <4>1. LandedAtSource(k) # {} => Latest(LandedAtSource(k)) \in 0 .. n - 1
        BY LatestLanded
      <4>2. CASE k = n
        BY <1>15, <2>1, <4>1, <4>2
      <4>3. CASE k # n
        <5>1. k \in 0 .. n - 1 /\ k \in 0 .. Copied - 1
          BY <1>5, <4>3
        <5>2. f[k] = IF LandedAtSource(k) = {} THEN k ELSE f[Latest(LandedAtSource(k))]
          BY <1>14, <5>1 DEF IsOrigin
        <5>3. QED
          BY <2>1, <4>1, <5>1, <5>2
      <4>4. QED
        BY <4>2, <4>3
    <3>2. ASSUME NEW k \in 0 .. n
          PROVE  /\ LandedAtSource(k)' = LandedAtSource(k)
                 /\ Latest(LandedAtSource(k))' = Latest(LandedAtSource(k))
      <4>1. LandedAtSource(k)' = LandedAtSource(k)
        BY <1>4, SameSources
      <4>2. QED
        BY <4>1 DEF Latest
    <3>3. 0 .. Copied' - 1 = 0 .. n
      BY <1>5
    <3>4. QED
      BY <3>1, <3>2, <3>3 DEF IsOrigin
  <2>4. ASSUME NEW k \in 0 .. n, ~Overwritten(k)' PROVE Now(DstAt(k))' = Found(SrcAt(g[k]))'
    <3>1. PICK b \in Nat : b = DstAt(k) /\ b = DstAt(k)'
      BY <1>6, <1>8
    <3>2. Found(SrcAt(g[k]))' = Found(SrcAt(g[k]))
      <4>1. PICK a : a = SrcAt(g[k]) /\ a = SrcAt(g[k])'
        BY <1>6
      <4>2. QED
        BY <1>9, <4>1
    <3>3. CASE k = n
      <4>1. b = to /\ g[k] = o
        BY <1>2, <2>1, <3>1, <3>3
      <4>2. Now(b)' = w
        BY <1>12, <4>1
      <4>3. QED
        BY <1>15, <3>1, <3>2, <4>1, <4>2
    <3>4. CASE k # n
      <4>1. k \in 0 .. n - 1 /\ n \in k + 1 .. n
        BY <3>4
      <4>2. WordAddress(b) # WordAddress(to)
        BY <1>2, <1>5, <1>6, <2>4, <3>1, <4>1 DEF Overwritten, WordAddress
      <4>3. ~Overwritten(k)
        BY <1>5, <1>6, <2>4 DEF Overwritten, WordAddress
      <4>4. Now(b) = Found(SrcAt(f[k])) /\ g[k] = f[k]
        BY <1>5, <1>14, <2>1, <3>1, <4>1, <4>3 DEF Carried
      <4>5. Now(b)' = Now(b)
        BY <1>13, <4>2
      <4>6. QED
        BY <3>1, <3>2, <4>4, <4>5
    <3>5. QED
      BY <3>3, <3>4
  <2>5. Carried(g)'
    BY <1>5, <2>4 DEF Carried
  <2>6. QED
    BY <2>2, <2>3, <2>5 DEF Landed
<1>17. Untouched'
  <2>1. ASSUME NEW a \in Nat, ~WrittenAt(WordAddress(a))' PROVE Now(a)' = Found(a)'
    <3>1. \A k \in 0 .. n : WordAddress(a) # WordAddress(DstAt(k))
      BY <1>5, <1>6, <2>1 DEF WrittenAt, WordAddress
    <3>2. ~WrittenAt(WordAddress(a)) /\ WordAddress(a) # WordAddress(to)
      BY <1>2, <1>5, <3>1 DEF WrittenAt
    <3>3. Now(a) = Found(a)
      BY <1>7, <3>2 DEF Untouched
    <3>4. QED
      BY <1>9, <1>13, <3>2, <3>3
  <2>2. QED
    BY <2>1 DEF Untouched
<1>18. QED
  BY <1>10, <1>11, <1>16, <1>17

LEMMA StepCopyInv == IInv /\ [Next]_vars => CopyInv'
<1>. SUFFICES ASSUME IInv, [Next]_vars PROVE CopyInv'
  OBVIOUS
<1>0. StateOK' /\ CopyInv
  BY StepStateOK DEF IInv
<1>1. ASSUME NEW s \in Sources, NEW d \in Dests, NEW l \in Lengths, NEW z \in DataSizes,
             WriteRegisters(s, d, l, z)
      PROVE  CopyInv'
  BY <1>1 DEF WriteRegisters, NoJob, CopyInv, JobDescribed, Busy
<1>2. ASSUME NEW c \in SUBSET {Busy, SourceInc, DestInc}, WriteControl(c)
      PROVE  CopyInv'
  <2>1. UNCHANGED <<devices, mem, transferLength>> /\ job' \in {job, NoJob, NewJob(c)}
    BY <1>2 DEF WriteControl, registers
  <2>2. CASE job' = job
    BY <1>0, <2>1, <2>2, QuietStep
  <2>3. CASE job' = NoJob
    BY <2>3 DEF NoJob, CopyInv, JobDescribed, Busy
  <2>4. CASE job' = NewJob(c)
    BY <1>0, <2>1, <2>4, NewJobStep DEF NewJob
  <2>5. QED
    BY <2>1, <2>2, <2>3, <2>4
<1>3. CASE AttachLate
  BY <1>3, AttachStep
<1>4. CASE CopyWord
  BY <1>4, CopyStep
<1>5. CASE CopyFault \/ Finish \/ UNCHANGED vars
  BY <1>0, <1>5, QuietStep DEF CopyFault, Finish, registers, vars
<1>6. QED
  BY <1>1, <1>2, <1>3, <1>4, <1>5 DEF Next, Transfer

LEMMA InitIInv == Init => IInv
<1>1. Init => CopyInv
  BY DEF Init, NoJob, CopyInv, JobDescribed, Busy
<1>2. QED
  BY <1>1, InitStateOK, InitTrack, InitPlaces DEF IInv

LEMMA StepIInv == IInv /\ [Next]_vars => IInv'
BY StepStateOK, StepTrack, StepPlaces, StepCopyInv DEF IInv

\* For every map, image and job, and however often it faults, is resumed and finds
\* memory attached meanwhile, a transfer has put at each destination the word that its
\* source held before, or what the transfer had written there, and has changed no other
\* word that can be read.
THEOREM WordsMoved == Spec => []CopyMovesWords
<1>1. IInv => CopyMovesWords
  <2>. SUFFICES ASSUME IInv, JobDescribed
                PROVE  LET written == {WordAddress(DstAt(k)) : k \in 0 .. Copied - 1}
                       IN  /\ \E origin \in Origins : IsOrigin(origin) /\ Carried(origin)
                           /\ \A i \in DOMAIN devices :
                                \A a \in devices[i].start .. devices[i].end :
                                  WordAddress(a) \notin written => Now(a) = Found(a)
    BY DEF CopyMovesWords, Origins, Carried, Now, Found
  <2>1. Landed /\ Untouched
    BY DEF IInv, CopyInv
  <2>2. ASSUME NEW i \in DOMAIN devices, NEW a \in devices[i].start .. devices[i].end
        PROVE  a \in Nat
    <3>1. devices[i] \in Entries
      BY DEF IInv, StateOK, MapOK
    <3>2. QED
      BY <3>1 DEF Entries
  <2>3. QED
    BY <2>1, <2>2 DEF Landed, Untouched, WrittenAt
<1>2. QED
  BY InitIInv, StepIInv, <1>1, PTL DEF Spec

\* The places of a transfer of whole words.
LEMMA WholeWordPlaces ==
  ASSUME StateOK, WholeWords, NEW k \in Nat
  PROVE  /\ SrcAt(k) = job.src + 4 * k /\ DstAt(k) = job.dst + 4 * k
         /\ WordAddress(SrcAt(k)) = SrcAt(k) /\ WordAddress(DstAt(k)) = DstAt(k)
<1>1. PICK s \in Nat, d \in Nat : s = job.src /\ d = job.dst /\ s % 4 = 0 /\ d % 4 = 0
  BY DEF StateOK, JobOK, WholeWords
<1>2. SrcAt(k) = s + 4 * k /\ DstAt(k) = d + 4 * k
  BY <1>1 DEF SrcAt, DstAt, WholeWords
<1>3. 4 * ((s + 4 * k) \div 4) = s + 4 * k /\ 4 * ((d + 4 * k) \div 4) = d + 4 * k
  BY <1>1
<1>4. QED
  BY <1>1, <1>2, <1>3 DEF WordAddress

\* For every map, image and job of whole words, the destination is a copy of the source
\* as it was, but for a copy forward into its own source, which repeats what it wrote.
THEOREM FaithfulCopy == Spec => []CopyIsFaithful
<1>1. ASSUME IInv, JobDescribed, WholeWords, NEW k \in 0 .. Copied - 1
      PROVE  Now(DstAt(k)) = IF job.src < job.dst /\ job.dst <= SrcAt(k)
                             THEN Now(SrcAt(k)) ELSE Found(SrcAt(k))
  <2>1. PICK n \in Nat : n = Copied
    BY <1>1, CopiedIs DEF IInv, TrackInv
  <2>2. PICK f \in [0 .. n - 1 -> 0 .. n - 1] : IsOrigin(f) /\ Carried(f)
    BY <1>1, <2>1 DEF IInv, CopyInv, Landed, Origins
  <2>3. PICK s \in Nat, d \in Nat : s = job.src /\ d = job.dst /\ s % 4 = 0 /\ d % 4 = 0
    BY <1>1 DEF IInv, StateOK, JobOK, WholeWords
  <2>4. \A j \in 0 .. n : /\ SrcAt(j) = s + 4 * j /\ DstAt(j) = d + 4 * j
                          /\ WordAddress(SrcAt(j)) = s + 4 * j
                          /\ WordAddress(DstAt(j)) = d + 4 * j
    <3>1. ASSUME NEW j \in 0 .. n
          PROVE  /\ SrcAt(j) = s + 4 * j /\ DstAt(j) = d + 4 * j
                 /\ WordAddress(SrcAt(j)) = s + 4 * j
                 /\ WordAddress(DstAt(j)) = d + 4 * j
      <4>1. j \in Nat
        OBVIOUS
      <4>2. QED
        BY <1>1, <2>3, <4>1, WholeWordPlaces DEF IInv
    <3>2. QED
      BY <3>1
  <2>5. \A j \in 0 .. n - 1 : Now(DstAt(j)) = Found(SrcAt(f[j]))
    <3>1. ASSUME NEW j \in 0 .. n - 1 PROVE ~Overwritten(j)
      <4>1. \A i \in j + 1 .. n - 1 : WordAddress(DstAt(i)) # WordAddress(DstAt(j))
        BY <2>4
      <4>2. QED
        BY <2>1, <4>1 DEF Overwritten
    <3>2. QED
      BY <2>1, <2>2, <3>1 DEF Carried
  <2>6. k \in 0 .. n - 1 /\ k \in Nat /\ k \in 0 .. n
    BY <2>1
  <2>7. f[k] = IF LandedAtSource(k) = {} THEN k ELSE f[Latest(LandedAtSource(k))]
    BY <2>1, <2>2, <2>6 DEF IsOrigin
  <2>8. CASE LandedAtSource(k) = {}
    <3>1. ASSUME NEW j \in 0 .. k - 1 PROVE d + 4 * j # s + 4 * k
      <4>1. j \in 0 .. n
        BY <2>6
      <4>2. WordAddress(DstAt(j)) # WordAddress(SrcAt(k))
        BY <2>8 DEF LandedAtSource
      <4>3. QED
        BY <2>4, <2>6, <4>1, <4>2
    <3>2. ~(s < d /\ d <= s + 4 * k)
      <4>1. ASSUME s < d, d <= s + 4 * k PROVE FALSE
        <5>1. PICK a \in Int, b \in Int : s = 4 * a /\ d = 4 * b
          <6>1. ASSUME NEW x \in Nat, x % 4 = 0 PROVE x \div 4 \in Int /\ x = 4 * (x \div 4)
            BY <6>1
          <6>2. QED
            BY <2>3, <6>1
        <5>2. a + k - b \in 0 .. k - 1
          BY <2>6, <4>1, <5>1
        <5>3. d + 4 * (a + k - b) = s + 4 * k
          BY <2>6, <5>1
        <5>4. QED
          BY <3>1, <5>2, <5>3
      <4>2. QED
        BY <4>1
    <3>3. QED
      BY <2>3, <2>4, <2>5, <2>6, <2>7, <2>8, <3>2
  <2>9. CASE LandedAtSource(k) # {}
    <3>1. PICK j \in 0 .. k - 1 : j = Latest(LandedAtSource(k)) /\ j \in LandedAtSource(k)
      BY <2>6, <2>9, LatestLanded
    <3>2. j \in 0 .. n /\ j \in 0 .. n - 1 /\ WordAddress(DstAt(j)) = WordAddress(SrcAt(k))
      <4>1. WordAddress(DstAt(j)) = WordAddress(SrcAt(k))
        BY <3>1 DEF LandedAtSource
      <4>2. QED
        BY <2>6, <4>1
    <3>3. s < d /\ d <= s + 4 * k
      <4>1. d + 4 * j = s + 4 * k
        BY <2>4, <2>6, <3>2
      <4>2. j \in Int /\ k \in Int /\ 0 <= j /\ j < k
        BY <2>6, <3>1
      <4>3. QED
        BY <2>3, <4>1, <4>2
    <3>4. Now(SrcAt(k)) = Now(DstAt(j))
      BY <3>2, SameWord
    <3>5. Now(DstAt(k)) = Now(DstAt(j))
      BY <2>5, <2>6, <2>7, <2>9, <3>1, <3>2
    <3>6. QED
      BY <2>3, <2>4, <2>6, <3>3, <3>4, <3>5
  <2>10. QED
    BY <2>8, <2>9
<1>2. IInv => CopyIsFaithful
  BY <1>1 DEF CopyIsFaithful, Now, Found
<1>3. QED
  BY InitIInv, StepIInv, <1>2, PTL DEF Spec
=============================================================================
