--------------------------------- MODULE DMA ---------------------------------
(***************************************************************************)
(* The DMA controller (src/dma.js), a second bus master: the guest writes  *)
(* its registers, and a write of the control register with the enable bit  *)
(* set copies words over the bus before it returns.  The loop of           *)
(* performTransfer takes one step per word here; nothing else runs while   *)
(* it does, but any word may fault, and then the guest's write throws and  *)
(* leaves the registers as they are.  The guest may write the control      *)
(* register again, and meanwhile the embedder may have attached a memory   *)
(* where there was none.                                                   *)
(***************************************************************************)
EXTENDS Bus

CONSTANTS Map, Image,                           \* the bus at first: its devices
                                                \* and what the memories hold
          Late,                                 \* the entry attached later
          Sources, Dests, Lengths, DataSizes,   \* what the guest programs
          MaxStarts                             \* bound: transfers started

ASSUME BusAssumption ==
  /\ Map \in Seq(Entries) /\ Late \in Entries
  /\ DOMAIN Image = Memory
  /\ \A d \in Memory : Image[d] \in [0 .. SizeOf[d] - 1 -> Byte]
\* Each memory is attached in one place.
ASSUME PlacesAssumption ==
  /\ \A i, j \in DOMAIN Map : Map[i].device = Map[j].device => i = j
  /\ \A i \in DOMAIN Map : Map[i].device # Late.device
ASSUME GuestAssumption ==
  Sources \cup Dests \cup Lengths \cup DataSizes \subseteq Nat /\ MaxStarts \in Nat

Busy == 0       \* bits of the control register: "status register"
SourceInc == 1
DestInc == 2

VARIABLES sourceAddress, destAddress, transferLength, dataSize,
          controlRegister, transferComplete,
          pc,       \* "copy" inside performTransfer's loop
          job,      \* history: the transfer in progress or last ended, as
                    \* programmed, with the memory it found
          starts    \* history: how many were started

registers == <<sourceAddress, destAddress, transferLength, dataSize>>
vars == <<devices, mem, registers, controlRegister, transferComplete, pc, job, starts>>

\* The job that the registers describe now.
NewJob(c) == [src |-> sourceAddress, dst |-> destAddress, len |-> transferLength,
              size |-> dataSize, control |-> c, mem |-> mem]
NoJob == [src |-> 0, dst |-> 0, len |-> 0, size |-> 4, control |-> {}, mem |-> mem]

Init == /\ devices = Map /\ mem = Image
        /\ sourceAddress = 0 /\ destAddress = 0
        /\ transferLength = 0 /\ dataSize = 4
        /\ controlRegister = {} /\ transferComplete = FALSE
        /\ pc = "idle" /\ job = NoJob /\ starts = 0

-----------------------------------------------------------------------------
(* The guest, by stores to the registers, and the embedder. *)

\* Stores at 0x00, 0x04, 0x08 and 0x10.  They only assign, so their order does
\* not matter and they are taken together.
WriteRegisters(s, d, l, z) ==
  /\ pc = "idle" /\ starts < MaxStarts
  /\ sourceAddress' = s /\ destAddress' = d /\ transferLength' = l /\ dataSize' = z
  /\ job' = NoJob
  /\ UNCHANGED <<devices, mem, controlRegister, transferComplete, pc, starts>>

\* The registers are those a faulted transfer left behind.
Interrupted == pc = "idle" /\ Busy \in job.control /\ ~transferComplete

\* start(): a length of zero throws, after the control register is assigned.
WriteControl(c) ==
  /\ pc = "idle"
  /\ controlRegister' = c
  /\ IF Busy \in c /\ transferLength # 0
     THEN /\ starts < MaxStarts
          /\ starts' = starts + 1
          /\ transferComplete' = FALSE
          /\ pc' = "copy"
          /\ job' = IF Interrupted /\ c = job.control THEN job ELSE NewJob(c)
     ELSE /\ job' = NoJob
          /\ UNCHANGED <<transferComplete, pc, starts>>
  /\ UNCHANGED <<devices, mem, registers>>

AttachLate ==
  /\ pc = "idle"
  /\ Attach(Late.device, Late.start, Late.end)
  /\ UNCHANGED <<mem, registers, controlRegister, transferComplete, pc, job, starts>>

-----------------------------------------------------------------------------
(* performTransfer. *)

WordFaults == BusRead(sourceAddress) = Fault \/ ~BusWrites(destAddress)

Advance_Down(addr, bit) == IF bit \in controlRegister THEN addr - dataSize ELSE addr
Advance(addr, bit) == IF bit \in controlRegister THEN addr + dataSize ELSE addr

CopyWord_IncFirst ==
  /\ pc = "copy" /\ transferLength > 0
  /\ ~WordFaults
  /\ BusWrites(Advance(destAddress, DestInc))
  /\ mem' = MemAfter(Advance(destAddress, DestInc), BusRead(sourceAddress))
  /\ sourceAddress' = Advance(sourceAddress, SourceInc)
  /\ destAddress' = Advance(destAddress, DestInc)
  /\ transferLength' = transferLength - dataSize
  /\ UNCHANGED <<devices, dataSize, controlRegister, transferComplete, pc, job, starts>>
CopyWord ==
  /\ pc = "copy" /\ transferLength > 0
  /\ ~WordFaults
  /\ mem' = MemAfter(destAddress, BusRead(sourceAddress))
  /\ sourceAddress' = Advance(sourceAddress, SourceInc)
  /\ destAddress' = Advance(destAddress, DestInc)
  /\ transferLength' = transferLength - dataSize
  /\ UNCHANGED <<devices, dataSize, controlRegister, transferComplete, pc, job, starts>>

\* The exception leaves performTransfer, start and the guest's store.
CopyFault_SkipsWord ==
  /\ pc = "copy" /\ transferLength > 0
  /\ WordFaults
  /\ pc' = "idle"
  /\ transferLength' = transferLength - dataSize
  /\ UNCHANGED <<devices, mem, sourceAddress, destAddress, dataSize,
                 controlRegister, transferComplete, job, starts>>
CopyFault_Retries ==
  /\ pc = "copy" /\ transferLength > 0
  /\ WordFaults
  /\ UNCHANGED vars
CopyFault ==
  /\ pc = "copy" /\ transferLength > 0
  /\ WordFaults
  /\ pc' = "idle"
  /\ UNCHANGED <<devices, mem, registers, controlRegister, transferComplete, job, starts>>

Finished_PartialWord == transferLength < dataSize
Finished == transferLength <= 0

Finish ==
  /\ pc = "copy" /\ Finished
  /\ controlRegister' = controlRegister \ {Busy}
  /\ transferComplete' = TRUE
  /\ pc' = "idle"
  /\ UNCHANGED <<devices, mem, registers, job, starts>>

-----------------------------------------------------------------------------
(* Specification. *)

Transfer == CopyWord \/ CopyFault \/ Finish

Next ==
  \/ \E s \in Sources, d \in Dests, l \in Lengths, z \in DataSizes :
       WriteRegisters(s, d, l, z)
  \/ \E c \in SUBSET {Busy, SourceInc, DestInc} : WriteControl(c)
  \/ AttachLate
  \/ Transfer

\* performTransfer runs until it returns or throws.
Spec == Init /\ [][Next]_vars /\ WF_vars(Transfer)

-----------------------------------------------------------------------------
(* Properties. *)

\* The words of the job copied so far, and where word k came from and went to.
Copied == (job.len - transferLength) \div job.size
SrcAt(k) == IF SourceInc \in job.control THEN job.src + k * job.size ELSE job.src
DstAt(k) == IF DestInc \in job.control THEN job.dst + k * job.size ELSE job.dst

\* The address space as it was when the job was started.
Before == INSTANCE Bus WITH mem <- job.mem

\* Type invariant.
TypeOK ==
  /\ devices \in Seq(Entries)
  /\ \A d \in Memory : mem[d] \in [0 .. SizeOf[d] - 1 -> Byte]
  /\ sourceAddress \in Nat /\ destAddress \in Nat
  /\ transferLength \in Int /\ dataSize \in DataSizes \cup {4}
  /\ controlRegister \subseteq {Busy, SourceInc, DestInc}
  /\ transferComplete \in BOOLEAN
  /\ pc \in {"idle", "copy"} /\ starts \in 0 .. MaxStarts

JobDescribed == Busy \in job.control /\ job.size > 0

\* Whether it runs, has faulted or is complete, a transfer's registers say how
\* far it got, so that writing the control register again resumes a faulted
\* transfer at the word that faulted.
RegistersTrackCopy ==
  JobDescribed =>
    /\ sourceAddress = SrcAt(Copied) /\ destAddress = DstAt(Copied)
    /\ transferLength = job.len - Copied * job.size

\* The words of the job that had landed where word k was then read, and the last of them.
LandedAtSource(k) == {j \in 0 .. k - 1 : WordAddress(DstAt(j)) = WordAddress(SrcAt(k))}
Latest(S) == CHOOSE j \in S : \A i \in S : i <= j

\* Word k carries what its source held before the transfer, unless the transfer had
\* written there by then: in that case what the word written there carried.
IsOrigin(origin) ==
  \A k \in 0 .. Copied - 1 :
    origin[k] = IF LandedAtSource(k) = {} THEN k ELSE origin[Latest(LandedAtSource(k))]

Overwritten(k) ==
  \E j \in k + 1 .. Copied - 1 : WordAddress(DstAt(j)) = WordAddress(DstAt(k))

\* What a transfer has done to memory at any moment, faulted, resumed or overlapping
\* itself: each access has moved one whole word, whatever the data size and wherever
\* in a word the addresses are, from its origin in the memory as it was before the
\* transfer, and no other word has changed.
CopyMovesWords ==
  JobDescribed =>
    LET written == {WordAddress(DstAt(k)) : k \in 0 .. Copied - 1}
    IN  /\ \E origin \in [0 .. Copied - 1 -> 0 .. Copied - 1] :
             /\ IsOrigin(origin)
             /\ \A k \in 0 .. Copied - 1 :
                  ~Overwritten(k) => BusRead(DstAt(k)) = Before!BusRead(SrcAt(origin[k]))
        /\ \A i \in DOMAIN devices :
             \A a \in devices[i].start .. devices[i].end :
               WordAddress(a) \notin written => BusRead(a) = Before!BusRead(a)

\* The transfers whose accesses are the words of the two ranges, one after the other.
WholeWords ==
  /\ job.size = 4 /\ job.src % 4 = 0 /\ job.dst % 4 = 0
  /\ {SourceInc, DestInc} \subseteq job.control

\* A transfer of whole words copies the source range to the destination range.  Forward
\* into its own source, a copy finds there what it has written: it repeats its
\* first words.
CopyIsFaithful ==
  JobDescribed /\ WholeWords =>
    \A k \in 0 .. Copied - 1 :
      BusRead(DstAt(k)) =
        IF job.src < job.dst /\ job.dst <= SrcAt(k)
        THEN BusRead(SrcAt(k)) ELSE Before!BusRead(SrcAt(k))

\* A transfer ends, by completion or by a fault, unless its data size is zero:
\* the guest's store returns, and the emulator does not hang in it.
Terminates == (pc = "copy" /\ dataSize > 0) ~> pc = "idle"

\* A transfer completes exactly when it has copied what was asked; the word in which
\* the length ends is copied whole.
CompleteMeansCopied ==
  JobDescribed /\ job.len > 0 /\ transferComplete =>
    Copied * job.size >= job.len /\ (Copied - 1) * job.size < job.len

\* src/dma.js:10 "bit 0 - is the status register.  0 means it is not
\* transferring, 1 means it is still transferring."
StatusTellsTransferring == Busy \in controlRegister => pc = "copy"
=============================================================================
