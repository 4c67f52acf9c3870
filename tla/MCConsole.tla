------------------------------ MODULE MCConsole ------------------------------
(* Console over one RAM of two words, with nothing attached above it. *)
EXTENDS Console, TLC

CONSTANT guestRAM

MCSizeOf == guestRAM :> 8
MCMap == <<[device |-> guestRAM, start |-> 0, end |-> 7]>>
=============================================================================
