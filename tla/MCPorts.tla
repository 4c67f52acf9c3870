------------------------------- MODULE MCPorts -------------------------------
(* Two pins, each wired to the other by a listener of its own. *)
EXTENDS Ports

MCWires == <<{<<0, 1>>}, {<<1, 0>>}>>
=============================================================================
