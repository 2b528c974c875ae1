------------------------------ MODULE V110Bits ------------------------------
(***************************************************************************)
(* Octets of V.110 as the sets of their one bits (0 is the least           *)
(* significant, the first on the wire), and C's bit operations on them:    *)
(* & is \cap, | is \cup, an assignment to unsigned char is Byte.           *)
(*                                                                         *)
(* A data octet of a frame is a status bit (7), six bits of the            *)
(* asynchronous character stream (1..6) and a one (0).  A character is a   *)
(* zero start bit, eight data bits and at least one stop bit; the line     *)
(* idles at one.                                                           *)
(***************************************************************************)
EXTENDS Integers

Octet == SUBSET (0 .. 7)

Byte(s) == s \cap 0 .. 7

Shr(s, k) == {b - k : b \in {x \in s : x >= k}}

Shl(s, k) == {b + k : b \in s}

\* Octets of a frame that carry no data: the header and the E-bits.
HeaderLine == 10
ELine      == 5
=============================================================================
