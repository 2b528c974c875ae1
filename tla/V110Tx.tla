------------------------------- MODULE V110Tx -------------------------------
(***************************************************************************)
(* The sending half of a V.110 call: characters read from the TCP socket   *)
(* into the ring obuf (sbridge_run_v110), and cut into the octets of       *)
(* frames (v110_getline).  The number of octets asked for between two      *)
(* reads is that of the media frame just received: any number.             *)
(*                                                                         *)
(* External: the TCP server, which sends the characters of input, and the  *)
(* far end, which decodes the line like any start-stop receiver.           *)
(***************************************************************************)
EXTENDS V110Bits, Sequences

CONSTANTS
  BufLen,     \* OBUF_LEN
  Thresh,     \* OBUF_THRESH
  Inputs      \* the character sequences the TCP server may send

ASSUME TxAssumption ==
  /\ BufLen \in Nat /\ BufLen > 1
  /\ Thresh \in Nat
  /\ Inputs \subseteq Seq(Octet)

VARIABLES
  nextoline,  \* vs->nextoline
  nextobit,   \* vs->nextobit: 1 + the data bit to send next, 0 between characters
  obuf, obufstart, obufend,
  cts,        \* vs->cts: flow control signalled by the far end, {} when clear
  rts, sbit,  \* vs->rts, vs->sbit: {7} or {}
  octet,      \* the last octet put on the line
  input,      \* what the TCP server sends
  taken,      \* characters read from the socket
  far         \* the far end's decoder

ring   == <<obuf, obufend, taken>>
status == <<cts, rts, sbit>>
vars == <<nextoline, nextobit, ring, obufstart, status, octet, input, far>>

Bit7 == {{}, {7}}

-----------------------------------------------------------------------------
(* The far end: bits of the current character seen (0 when idle, start bit  *)
(* included), its data so far, the characters heard.  A framing error leaves *)
(* it stuck at bit 10.                                                       *)

Decoder(n, d, h) == [bits |-> n, data |-> d, heard |-> h]

\* It sees bit i of octet o.
Hear(f, o, i) ==
  CASE f.bits = 0 -> IF i \in o THEN f ELSE Decoder(1, {}, f.heard)
    [] f.bits \in 1 .. 8 ->
         Decoder(f.bits + 1, IF i \in o THEN f.data \cup {f.bits - 1} ELSE f.data, f.heard)
    [] f.bits = 9 ->
         IF i \in o THEN Decoder(0, f.data, Append(f.heard, f.data))
                    ELSE Decoder(10, f.data, f.heard)
    [] OTHER -> f

Hear3(f, o, i) == Hear(Hear(Hear(f, o, i), o, i + 1), o, i + 2)

\* The six bits of a data octet, in order.  A set of one decoder, computed by
\* halves, which spares TLC the unfolding of all six.
Listen(f, o) == {Hear3(g, o, 4) : g \in {Hear3(f, o, 1)}}

-----------------------------------------------------------------------------
Init ==
  /\ nextoline = HeaderLine /\ nextobit = 0
  /\ obuf = [i \in 0 .. BufLen - 1 |-> {}]
  /\ obufstart = 0 /\ obufend = 0
  /\ cts = {7} /\ rts = {7} /\ sbit = {7}
  /\ octet = 0 .. 7
  /\ input \in Inputs /\ taken = 0
  /\ far = Decoder(0, {}, << >>)

\* The masks helper1 and helper2.
Helper1(i) == {0, 7} \cup {b \in 1 .. 6 : b >= 9 - i}
Helper2(i) == {0, 7} \cup 1 .. i

\* A data octet without data: all ones, and the status bit of its line.
Blank == 0 .. 6 \cup IF nextoline \in {2, 7} THEN rts ELSE sbit

\* The bits of the current character from nextobit on, its stop bit, fill.
Finish == Byte(Shr(obuf[obufstart], nextobit - 2)) \cup Helper1(nextobit - 1)

\* A character that starts at bit place - 1: start bit, first data bits.
Starting(char, place) == Byte(Shl(char, place)) \cup Helper2(place - 2)

Popped == IF obufstart + 1 = BufLen THEN 0 ELSE obufstart + 1

\* Mutant: a character waits for the next one before it starts.
MayStartHeld(first) ==
  cts = {} /\ first # obufend /\ (first + 1) % BufLen # obufend

\* Flow control is honoured when a character is to start.
MayStart(first) == cts = {} /\ first # obufend

\* Mutant: the line counter wraps one line late.
SendEleven(o) ==
  octet' = o /\ nextoline' = IF nextoline = 11 THEN 1 ELSE nextoline + 1

Send(o) == octet' = o /\ nextoline' = IF nextoline = 10 THEN 1 ELSE nextoline + 1

SendData(o) ==
  /\ nextoline \notin {HeaderLine, ELine}
  /\ Send(o)
  /\ far' \in Listen(far, o)
  /\ UNCHANGED <<ring, status, input>>

SendHeader ==
  /\ nextoline = HeaderLine
  /\ Send({})
  /\ UNCHANGED <<nextobit, obufstart, ring, status, input, far>>

SendEBits ==
  /\ nextoline = ELine
  /\ Send(0 .. 7 \ {1})
  /\ UNCHANGED <<nextobit, obufstart, ring, status, input, far>>

SendIdle ==
  /\ nextobit = 0 /\ ~MayStart(obufstart)
  /\ SendData(Blank)
  /\ UNCHANGED <<nextobit, obufstart>>

SendFirst ==
  /\ nextobit = 0 /\ MayStart(obufstart)
  /\ SendData(Blank \cap Starting(obuf[obufstart], 2))
  /\ nextobit' = 6
  /\ UNCHANGED obufstart

\* Six more bits, and still some left.
SendMore ==
  /\ nextobit \in 1 .. 3
  /\ SendData(Blank \cap Finish)
  /\ nextobit' = nextobit + 6
  /\ UNCHANGED obufstart

\* The rest of the character.  No other follows it, for want of room or of
\* characters or because of flow control.
SendLast ==
  /\ nextobit > 3
  /\ nextobit < 5 \/ ~MayStart(Popped)
  /\ SendData(Blank \cap Finish)
  /\ nextobit' = 0
  /\ obufstart' = Popped

\* Mutant: the next character starts one bit late.
SendLastAndFirstLate ==
  /\ nextobit > 4 /\ MayStart(Popped)
  /\ LET place == 13 - nextobit IN
       /\ SendData(Blank \cap Finish \cap Starting(obuf[Popped], place))
       /\ nextobit' = 8 - place
  /\ obufstart' = Popped

\* The rest of the character, and the first bits of the next one.
SendLastAndFirst ==
  /\ nextobit > 4 /\ MayStart(Popped)
  /\ LET place == 12 - nextobit IN
       /\ SendData(Blank \cap Finish \cap Starting(obuf[Popped], place))
       /\ nextobit' = 8 - place
  /\ obufstart' = Popped

Getline ==
  SendHeader \/ SendEBits \/ SendIdle \/ SendFirst \/ SendMore \/ SendLast \/ SendLastAndFirst

\* Mutant: a full lap of the ring is asked for.
WantLap ==
  IF obufend >= obufstart
  THEN IF obufend - obufstart < Thresh THEN BufLen - obufend ELSE 0
  ELSE IF obufstart + BufLen - obufend < Thresh THEN obufstart - obufend - 1 ELSE 0

\* What the loop asks read() for: the room up to the end of the ring, one
\* entry being kept free, when fewer than Thresh characters are left.
Want ==
  IF obufend >= obufstart
  THEN IF obufend - obufstart < Thresh
       THEN BufLen - obufend - (IF obufstart = 0 THEN 1 ELSE 0)
       ELSE 0
  ELSE IF obufstart + BufLen - obufend < Thresh THEN obufstart - obufend - 1 ELSE 0

Replenish ==
  \E r \in 1 .. Want :
    /\ taken + r <= Len(input)
    /\ obuf' = [i \in 0 .. BufLen - 1 |->
                  IF i \in obufend .. obufend + r - 1
                  THEN input[taken + 1 + i - obufend] ELSE obuf[i]]
    /\ obufend' = IF obufend + r = BufLen THEN 0 ELSE obufend + r
    /\ taken' = taken + r
    /\ UNCHANGED <<nextoline, nextobit, obufstart, status, octet, input, far>>

\* The receiving half of the call changes the status bits (see V110Rx).
SetStatus ==
  /\ cts' \in Bit7 /\ rts' \in Bit7 /\ sbit' \in {sbit, {}}
  /\ UNCHANGED <<nextoline, nextobit, obufstart, ring, octet, input, far>>

Next == Getline \/ Replenish \/ SetStatus

Spec == Init /\ [][Next]_vars

\* The media frames keep coming, and the socket is read when it has data.
FairSpec == Spec /\ WF_vars(Getline) /\ WF_vars(Replenish)

-----------------------------------------------------------------------------
TypeOK ==
  /\ nextoline \in 1 .. 10
  /\ nextobit \in 0 .. 9
  /\ obuf \in [0 .. BufLen - 1 -> Octet]
  /\ obufstart \in 0 .. BufLen - 1 /\ obufend \in 0 .. BufLen - 1
  /\ cts \in Bit7 /\ rts \in Bit7 /\ sbit \in Bit7
  /\ octet \in Octet
  /\ input \in Inputs /\ taken \in 0 .. Len(input)
  /\ far \in [bits : 0 .. 10, data : Octet, heard : Seq(Octet)]

\* The far end is in step with nextobit and hears the bits of the character at
\* obufstart.  In particular a character's first bit only falls on odd bits of
\* an octet, so the shift by nextobit - 2 (v110.c:673) is never one by -1.
InStep ==
  /\ nextobit \in {0, 2, 4, 6, 8}
  /\ far.bits = nextobit
  /\ nextobit # 0 =>
       /\ obufstart # obufend
       /\ far.data = obuf[obufstart] \cap 0 .. nextobit - 2

\* The characters of the ring, in order.
Held ==
  LET n == IF obufend >= obufstart THEN obufend - obufstart
                                   ELSE obufend + BufLen - obufstart
  IN  [i \in 1 .. n |-> obuf[(obufstart + i - 1) % BufLen]]

\* Every character read from the server is heard, or still held by the ring:
\* nothing is lost, doubled or reordered by the two sides of the ring.
NothingLost == far.heard \o Held = SubSeq(input, 1, taken)

\* If the far end lets us send for good, it hears the whole input.
AllHeard == <>[](cts = {}) => <>(far.heard = input)
=============================================================================
