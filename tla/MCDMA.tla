-------------------------------- MODULE MCDMA --------------------------------
(* DMA on a bus with two words of RAM, a hole of one word where a RAM can be *)
(* attached later, and one word of ROM.                                      *)
EXTENDS DMA, TLC

CONSTANTS ram, late, rom

MCSizeOf == ram :> 8 @@ late :> 4 @@ rom :> 4

MCMap == <<[device |-> ram, start |-> 0, end |-> 7],
           [device |-> rom, start |-> 12, end |-> 15]>>

MCImage == ram :> [o \in 0 .. 7 |-> 1 + o \div 4] @@
           late :> [o \in 0 .. 3 |-> 0] @@ rom :> [o \in 0 .. 3 |-> 255]

MCLate == [device |-> late, start |-> 8, end |-> 11]
=============================================================================
