----------------------------- MODULE ByteChannel -----------------------------
(***************************************************************************)
(* What a byte channel built on a ring of `size` slots promises, without   *)
(* the ring.  `chan` holds the bytes written and not yet consumed, oldest  *)
(* first; `held` is the byte the reader has fetched and not yet consumed.  *)
(*                                                                         *)
(* The writer is never refused.  As long as the unread bytes number fewer  *)
(* than `size` the channel is an exact FIFO.  A write beyond that is an    *)
(* overrun: it leaves no more to read than there was before, and `lost`    *)
(* records it.  Only after an overrun may the reader find the channel      *)
(* empty under its feet, and then it fetches a stale byte, or consumes     *)
(* past the end and sees size - 1 stale bytes again.                       *)
(***************************************************************************)
EXTENDS Naturals, Sequences

CONSTANTS Cell,   \* what a slot may hold
          Empty   \* `held` when the reader holds nothing

VARIABLES size, chan, held, lost
vars == <<size, chan, held, lost>>

Init == /\ size \in Nat \ {0}
        /\ chan = <<>>
        /\ held = Empty
        /\ lost = FALSE

Write == /\ chan' \in Seq(Cell) /\ Len(chan') < size
         /\ Len(chan) <= Len(chan') /\ SubSeq(chan', 1, Len(chan)) = chan
         /\ UNCHANGED <<size, held, lost>>

Overrun == /\ chan' \in Seq(Cell) /\ Len(chan') <= Len(chan)
           /\ lost' = TRUE
           /\ UNCHANGED <<size, held>>

Fetch == /\ held = Empty
         /\ \/ chan # <<>> /\ held' = Head(chan)
            \/ chan = <<>> /\ lost /\ held' \in Cell
         /\ UNCHANGED <<size, chan, lost>>

Consume == /\ held # Empty
           /\ held' = Empty
           /\ \/ chan # <<>> /\ chan' = Tail(chan)
              \/ chan = <<>> /\ lost /\ chan' \in [1 .. size - 1 -> Cell]
           /\ UNCHANGED <<size, lost>>

Next == Write \/ Overrun \/ Fetch \/ Consume

Spec == Init /\ [][Next]_vars
=============================================================================
