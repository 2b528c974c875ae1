------------------------------ MODULE MCV110Tx ------------------------------
(* TLC instance of V110Tx: every sequence of NumChars characters out of two *)
(* that differ in every bit.                                                *)
EXTENDS V110Tx
CONSTANT NumChars
MCInputs == [1 .. NumChars -> {{0, 2, 4, 5}, {1, 3, 6, 7}}]
=============================================================================
