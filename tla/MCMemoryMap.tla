----------------------------- MODULE MCMemoryMap -----------------------------
(* MemoryMap on two words and a half of address space. *)
EXTENDS MemoryMap, TLC

CONSTANTS ramA, ramB, rom

MCSizeOf == ramA :> 8 @@ ramB :> 6 @@ rom :> 4
=============================================================================
