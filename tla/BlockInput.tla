----------------------------- MODULE BlockInput ------------------------------
(***************************************************************************)
(* Block_Input (src/block_input.js): the ring buffer through which the     *)
(* host hands blocks of bytes to the emulated guest, together with the     *)
(* guest's reader, the newlib stub _read (usage_examples/handyarm.c).      *)
(*                                                                         *)
(* The host is JavaScript and runs to completion, so appendData is one     *)
(* step; the guest is machine code interpreted one instruction at a time   *)
(* by the same thread, so a call of appendData may fall between any two    *)
(* register accesses of _read.  Nothing but the two markers `start` (moved *)
(* by the guest) and `end` (moved by the host) synchronises them, and the  *)
(* host never looks at `start`: it may overrun what the guest has not read.*)
(***************************************************************************)
EXTENDS Integers, Sequences

CONSTANTS Bytes,     \* the byte values the host sends
          Sizes,     \* the sizes a Block_Input may be constructed with
          MaxLen,    \* bound: largest `len` the guest passes to _read
          MaxSent,   \* bound: bytes the history records as sent
          Empty      \* for the abstract channel: the reader holds no byte

Blank == 0                        \* the content of a fresh ArrayBuffer
Cell == Bytes \cup {Blank}

ASSUME SizesAssumption == Sizes \subseteq Nat \ {0}
ASSUME BoundsAssumption == MaxLen \in Nat \ {0} /\ MaxSent \in Nat
ASSUME EmptyAssumption == Empty \notin Cell

VARIABLES size, ram, start, end,  \* the Block_Input object
          outcome,                \* how the host's last appendData ended
          pc, seenEnd, byte,      \* the guest in _read: where, and its registers
          len, DataIdx,           \* ... its argument and its loop counter
          sent, rcvd,             \* history: bytes stored and bytes consumed,
          overrun                 \*   recorded until the first overrun

guest == <<pc, seenEnd, byte, len, DataIdx>>
vars == <<size, ram, start, end, outcome, guest, sent, rcvd, overrun>>

Init == /\ size \in Sizes
        /\ ram = [o \in 0 .. size - 1 |-> Blank]
        /\ start = 0 /\ end = 0
        /\ outcome = "none"
        /\ pc = "idle" /\ seenEnd = 0 /\ byte = Blank /\ len = 0 /\ DataIdx = 0
        /\ sent = <<>> /\ rcvd = <<>> /\ overrun = FALSE

-----------------------------------------------------------------------------
(* The ring. *)

Offset_NoWrap(i) == i
Offset(i) == i % size

\* Bytes the two markers say are unread, and those bytes, oldest first.
Used == Offset(end - start + size)
Unread == [i \in 1 .. Used |-> ram[Offset(start + i - 1)]]

\* RAM checks that an offset lies in the buffer, the DataView behind it that
\* the whole four-byte word does: the last word of an odd-sized buffer is dead.
WordFits(off) == 4 * (off \div 4) + 4 <= size

-----------------------------------------------------------------------------
(* The host: appendData. *)

\* The loop of appendData over `bytes`: each is merged into its word at `end`,
\* which then moves one on, modulo the size.
StoreBytes_FirstOnly(bytes) ==
  /\ ram' = IF bytes = <<>> THEN ram ELSE [ram EXCEPT ![end] = bytes[1]]
  /\ end' = Offset(end + Len(bytes))
  /\ overrun' = (overrun \/ Used + Len(bytes) >= size)
  /\ sent' = IF overrun' THEN <<>> ELSE sent \o bytes
  /\ rcvd' = IF overrun' THEN <<>> ELSE rcvd
StoreBytes(bytes) ==
  /\ ram' = [o \in 0 .. size - 1 |->
               LET j == Offset(o - end + size)
               IN  IF j < Len(bytes) THEN bytes[j + 1] ELSE ram[o]]
  /\ end' = Offset(end + Len(bytes))
  /\ overrun' = (overrun \/ Used + Len(bytes) >= size)
  /\ sent' = IF overrun' THEN <<>> ELSE sent \o bytes
  /\ rcvd' = IF overrun' THEN <<>> ELSE rcvd

\* The first n words the loop touches exist.
AllFit(n) == \A j \in 0 .. n - 1 : WordFits(Offset(end + j))

AppendData(data) ==
  /\ Len(data) <= size
  /\ AllFit(Len(data))
  /\ StoreBytes(data)
  /\ outcome' = "ok"
  /\ UNCHANGED <<size, start, guest>>

\* The word access of byte k + 1 throws; the k bytes before it stay stored.
AppendFault_Resets(data) ==
  /\ Len(data) <= size
  /\ \E k \in 0 .. Len(data) - 1 : AllFit(k) /\ ~AllFit(k + 1)
  /\ end' = start
  /\ outcome' = "ramFault"
  /\ UNCHANGED <<size, start, guest, ram, sent, rcvd, overrun>>
AppendFault(data) ==
  /\ Len(data) <= size
  /\ \E k \in 0 .. Len(data) - 1 :
       /\ AllFit(k) /\ ~AllFit(k + 1)
       /\ StoreBytes(SubSeq(data, 1, k))
  /\ outcome' = "ramFault"
  /\ UNCHANGED <<size, start, guest>>

AppendTooBig(data) ==
  /\ Len(data) > size
  /\ outcome' = "tooBig"
  /\ UNCHANGED <<size, ram, start, end, guest, sent, rcvd, overrun>>

-----------------------------------------------------------------------------
(* The guest: _read(file, ptr, n), one action per register access.  `start`  *)
(* moves only by the guest's own store, so its loads are merged with the     *)
(* step that uses them.                                                      *)

Call(n) ==
  /\ pc = "idle"
  /\ pc' = "loop" /\ len' = n /\ DataIdx' = 0
  /\ UNCHANGED <<size, ram, start, end, outcome, seenEnd, byte, sent, rcvd, overrun>>

LoadEnd ==
  /\ pc = "loop"
  /\ pc' = "test" /\ seenEnd' = end
  /\ UNCHANGED <<size, ram, start, end, outcome, byte, len, DataIdx, sent, rcvd, overrun>>

\* while (start_offset != end_offset), with the end_offset loaded before
Pending_DoWhile == TRUE
Pending_NoWrap == start < seenEnd
Pending == start # seenEnd

\* _read returns DataIdx; its locals die.  Registers are zeroed once dead.
Return == pc' = "idle" /\ len' = 0 /\ DataIdx' = 0

Test ==
  /\ pc = "test"
  /\ IF Pending THEN pc' = "load" /\ UNCHANGED <<len, DataIdx>> ELSE Return
  /\ seenEnd' = 0
  /\ UNCHANGED <<size, ram, start, end, outcome, byte, sent, rcvd, overrun>>

LoadByte ==
  /\ pc = "load"
  /\ pc' = "advance" /\ byte' = ram[start]
  /\ UNCHANGED <<size, ram, start, end, outcome, seenEnd, len, DataIdx,
                 sent, rcvd, overrun>>

\* The store of 1 to start_offset, which Block_Input adds to the marker.
Advance ==
  /\ pc = "advance"
  /\ start' = Offset(start + 1)
  /\ rcvd' = IF overrun THEN <<>> ELSE Append(rcvd, byte)
  /\ byte' = Blank
  /\ IF DataIdx + 1 = len
     THEN Return
     ELSE pc' = "loop" /\ DataIdx' = DataIdx + 1 /\ UNCHANGED len
  /\ UNCHANGED <<size, ram, end, outcome, seenEnd, sent, overrun>>

-----------------------------------------------------------------------------
(* Specification. *)

Blocks == UNION {[1 .. n -> Bytes] : n \in 0 .. size + 1}

Host == \E data \in Blocks :
          /\ Len(sent) + Len(data) <= MaxSent
          /\ AppendData(data) \/ AppendFault(data) \/ AppendTooBig(data)

GuestStep == LoadEnd \/ Test \/ LoadByte \/ Advance

Next == Host \/ (\E n \in 1 .. MaxLen : Call(n)) \/ GuestStep

\* The embedder keeps calling run(), so the guest's instructions keep being
\* executed, and the guest program keeps calling _read.  The host owes nothing.
Fairness == WF_vars(GuestStep) /\ WF_vars(\E n \in 1 .. MaxLen : Call(n))

Spec == Init /\ [][Next]_vars /\ Fairness

-----------------------------------------------------------------------------
(* Properties. *)

\* Type invariant: both markers stay inside the buffer whatever is appended
\* and consumed, and _read never stores a byte beyond the caller's `len`.
TypeOK ==
  /\ size \in Sizes
  /\ ram \in [0 .. size - 1 -> Cell]
  /\ start \in 0 .. size - 1 /\ end \in 0 .. size - 1
  /\ outcome \in {"none", "ok", "ramFault", "tooBig"}
  /\ pc \in {"idle", "loop", "test", "load", "advance"}
  /\ seenEnd \in 0 .. size - 1 /\ byte \in Cell
  /\ len \in 0 .. MaxLen /\ DataIdx \in 0 .. len
  /\ pc # "idle" => DataIdx < len
  /\ sent \in Seq(Bytes) /\ rcvd \in Seq(Cell)
  /\ overrun \in BOOLEAN

\* While the host has not overrun the reader, the bytes consumed followed by
\* the bytes in the ring are exactly the bytes stored: nothing is lost,
\* repeated, reordered or made up, whatever the interleaving.
Fifo == ~overrun => rcvd \o Unread = sent

\* The ring implements the byte channel, overruns included.
Channel == INSTANCE ByteChannel
             WITH chan <- Unread,
                  held <- IF pc = "advance" THEN byte ELSE Empty,
                  lost <- overrun
ChannelSpec == Channel!Spec

\* However far an append overruns the reader, what is left to read afterwards
\* is the newest part of the stream, in order: the oldest bytes are dropped,
\* `size` of them at a time, and no other byte is damaged.
OverrunKeepsNewest ==
  [][\A n \in 0 .. size : end' = Offset(end + n) /\ UNCHANGED guest =>
       \A data \in [1 .. n -> Bytes] :
         AppendData(data) => LET all == Unread \o data
                             IN  Unread' = SubSeq(all, Len(all) - Used' + 1, Len(all))]_vars

\* A word access that throws in the middle of appendData is not transient: it
\* leaves `end` at a dead word, and no later block is ever stored.
FaultIsPermanent == [][outcome = "ramFault" => end' = end /\ ram' = ram]_vars

\* Every byte stored is eventually consumed, unless the host overruns.
Delivery == \A n \in 1 .. MaxSent : Len(sent) >= n ~> (overrun \/ Len(rcvd) >= n)

\* src/block_input.js:37 "data MUST be smaller than the buffer or an error
\* occurs": a block the drained buffer accepts can be read back.
AcceptedBlockIsReadable ==
  [][\A n \in 1 .. size : \A data \in [1 .. n -> Bytes] :
       Used = 0 /\ AppendData(data) => Used' # 0]_vars
=============================================================================
