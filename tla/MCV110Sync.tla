----------------------------- MODULE MCV110Sync -----------------------------
(* TLC instances of V110Sync: chips are lost on the way to one end.         *)
EXTENDS V110Sync
CONSTANT Slips
MCMaxSlips == [e \in End |-> IF e = "a" THEN Slips ELSE 0]
MCDataLines == {{}, {2, 4, 5}}
=============================================================================
