------------------------------ MODULE MemoryMap ------------------------------
(***************************************************************************)
(* An embedder that attaches memories to the bus, in any order and at any  *)
(* ranges, while bus masters read and write words: what the address space  *)
(* as a whole promises.  The names of its definitions begin with Map where *)
(* the modules of the bus masters have definitions of the same kind.       *)
(***************************************************************************)
EXTENDS Bus

CONSTANTS Addresses,   \* the byte addresses that bus masters use
          Starts,      \* the ranges that are attached: their first
          Ends,        \*   and their last addresses
          MaxDevices   \* bound: attachments in a run

ASSUME MapAssumption == Addresses \cup Starts \cup Ends \subseteq Nat

NoWord == <<>>

VARIABLES last   \* history: the word last written at each word address, unless
                 \* the memory cells behind it were changed through an alias

mapVars == <<devices, mem, last>>

WordAddresses == {WordAddress(a) : a \in Addresses}

MapInit == /\ devices = <<>>
           /\ mem = [d \in Memory |-> [o \in 0 .. SizeOf[d] - 1 |-> Zero]]
           /\ last = [a \in WordAddresses |-> NoWord]

\* Word addresses a and b reach common bytes of one memory.
Alias(a, b) ==
  /\ Hits(a) # {} /\ Hits(b) # {} /\ Target(a) = Target(b)
  /\ TargetOffset(a) - TargetOffset(b) \in -3 .. 3

AttachMemory(d, s, e) ==
  /\ Len(devices) < MaxDevices
  /\ Attach(d, s, e)
  /\ UNCHANGED <<mem, last>>

Write(a, w) ==
  /\ BusWrites(a)
  /\ mem' = MemAfter(a, w)
  /\ last' = [b \in WordAddresses |-> IF b = WordAddress(a) THEN w
                                      ELSE IF Alias(a, b) THEN NoWord ELSE last[b]]
  /\ UNCHANGED devices

\* A read, or an access or an attachment that throws, changes nothing.
ReadOrThrow == UNCHANGED mapVars

MapNext == \/ \E d \in Memory, s \in Starts, e \in Ends : AttachMemory(d, s, e)
           \/ \E a \in Addresses, b \in Byte : Write(a, Fill(b))
           \/ ReadOrThrow

MapSpec == MapInit /\ [][MapNext]_mapVars

-----------------------------------------------------------------------------
(* Properties. *)

\* Type invariant: every range attached is a non-empty range of a memory.
MapTypeOK ==
  /\ devices \in Seq([device : Memory, start : Starts, end : Ends])
  /\ \A i \in DOMAIN devices : devices[i].start <= devices[i].end
  /\ \A d \in Memory : mem[d] \in [0 .. SizeOf[d] - 1 -> Byte]
  /\ last \in [WordAddresses -> Word \cup {NoWord}]

RangeOf(i) == devices[i].start .. devices[i].end

\* What attach's overlap test guarantees: two ranges share one address at most.
SharedAddressIsSingle ==
  \A i, j \in DOMAIN devices :
    i # j => \A a, b \in RangeOf(i) \cap RangeOf(j) : a = b

\* On a map made of whole words, routing is exact: whichever range an address
\* lies in, in whatever order the ranges were attached, that device serves it.
WordMapIsExact ==
  (\A i \in DOMAIN devices : devices[i].start % 4 = 0 /\ devices[i].end % 4 = 3)
    => \A a \in Addresses, i \in DOMAIN devices :
         Covers(devices[i], a) => Route(a) = i

\* Attaching a device never takes an address from the device that serves it.
RoutingIsStable ==
  [][\A a \in Addresses :
       Hits(a) # {} => Hits(a)' # {} /\ Target(a)' = Target(a)
                       /\ TargetOffset(a)' = TargetOffset(a)]_mapVars

\* Read your writes: a word read is the last one written at that word address,
\* at any byte of it, whatever was attached or written elsewhere in between.
Coherent ==
  \A a \in Addresses :
    last[WordAddress(a)] # NoWord => BusRead(a) = last[WordAddress(a)]
=============================================================================
