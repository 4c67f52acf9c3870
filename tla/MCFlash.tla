------------------------------- MODULE MCFlash -------------------------------
(* Flash of two words and two pages, blank or with one word of data, and a *)
(* region of which one word lies inside and two behind its end.            *)
EXTENDS FlashExample

MCImages == {<<>>, <<{1}>>}
MCPattern == [off \in Region |-> IF off % 8 = 4 THEN {0} ELSE {1}]
=============================================================================
