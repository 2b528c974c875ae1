------------------------------ MODULE MCV110Rx ------------------------------
(* TLC instances of V110Rx: every sequence of NumChars characters out of a  *)
(* few that tell the bit positions apart.                                   *)
EXTENDS V110Rx
CONSTANT NumChars
MCInputs == [1 .. NumChars -> {{0, 2, 4, 5}, {1, 3, 6, 7}}]
=============================================================================
