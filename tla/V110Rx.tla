------------------------------- MODULE V110Rx -------------------------------
(***************************************************************************)
(* The receiving half of a V.110 call: the octets of accepted frames are   *)
(* taken apart into characters (v110_process_frame), collected in the ring *)
(* ibuf, and written to the TCP socket between frames (sbridge_run_v110).  *)
(* A step is one data octet; frames that fail the checks on their first    *)
(* bits change nothing and are left out.                                   *)
(*                                                                         *)
(* External: the far end, which sends the characters of input with any     *)
(* fill between them, and the TCP socket, which takes any part of a write. *)
(***************************************************************************)
EXTENDS V110Bits, Sequences

CONSTANTS
  BufLen,      \* IBUF_LEN
  SyncFrames,  \* frames until synchronisation is declared
  Inputs,      \* the character sequences the far end may send
  Patience,    \* whether the far end obeys flow control before the ring is full
  LateStart    \* it may start a character in bit 6, behind a stop bit

ASSUME RxAssumption ==
  /\ BufLen \in Nat \ {0, 1} /\ \E k \in 1 .. 13 : BufLen = 2 ^ k
  /\ SyncFrames \in Nat \ {0}
  /\ Inputs \subseteq Seq(Octet)
  /\ Patience \subseteq BOOLEAN /\ LateStart \in BOOLEAN

VARIABLES
  line,       \* the octet of the frame looked at next
  synccount,  \* vs->synccount
  cts,        \* vs->cts: flow control signalled by the far end
  rts, sbit,  \* vs->rts, vs->sbit: what the sending half signals
  nextibit,   \* vs->nextibit: 1 + the data bit expected next, 0 between characters
  ibuf, ibufstart, ibufend,
  got,        \* what the TCP socket took
  input,      \* what the far end sends
  peer        \* the far end: characters begun, bits sent of the last (0: all),
              \* whether it is patient

status == <<synccount, cts, rts, sbit>>
vars == <<line, status, nextibit, ibuf, ibufstart, ibufend, got, input, peer>>

Bit7 == {{}, {7}}

DataBits == 1 .. 6

Indices == 0 .. BufLen - 1

Init ==
  /\ line = 1
  /\ synccount = SyncFrames /\ cts = {7} /\ rts = {7} /\ sbit = {7}
  /\ nextibit = 0
  /\ ibuf = [i \in Indices |-> {}] /\ ibufstart = 0 /\ ibufend = 0
  /\ got = << >>
  /\ input \in Inputs
  /\ \E p \in Patience : peer = [begun |-> 0, bits |-> 0, patient |-> p]

Count == (ibufend + BufLen - ibufstart) % BufLen

-----------------------------------------------------------------------------
(* The far end.                                                             *)

\* Bit j of a character on the line is one.
CharBit(char, j) == j = 9 \/ (j \in 1 .. 8 /\ j - 1 \in char)

InFlight == IF peer.bits = 0 THEN 0 ELSE 1

\* Bits of the current character still to be sent.
Rest == IF peer.bits = 0 THEN 0 ELSE 10 - peer.bits

\* Where the next character can start in this octet (7: not in this one).
StartPlaces ==
  {7} \cup {at \in Rest + 1 .. 6 :
              /\ peer.begun < Len(input)
              /\ peer.patient => Count + InFlight < BufLen - 1
              /\ at = 6 /\ Rest > 0 => LateStart}

\* The data bits of the octet.
LineBits(at) ==
  {i \in DataBits :
     \/ i <= Rest /\ CharBit(input[peer.begun], peer.bits + i - 1)
     \/ i > Rest /\ i < at
     \/ i > at /\ CharBit(input[peer.begun + 1], i - at)}

PeerAfter(at) ==
  IF at < 7 THEN [peer EXCEPT !.begun = @ + 1, !.bits = 7 - at]
  ELSE [peer EXCEPT !.bits = IF Rest <= 6 THEN 0 ELSE @ + 6]

-----------------------------------------------------------------------------
(* One octet in v110_process_frame; tmp is the octet & 0x7e.                *)

Put(char) == ibuf' = [ibuf EXCEPT ![ibufend] = char]

\* Nothing but fill.
RecvIdle(tmp) ==
  /\ nextibit = 0 /\ tmp = DataBits
  /\ UNCHANGED <<nextibit, ibuf, ibufend>>

\* The start bit is the octet's last.
RecvStartLast(tmp) ==
  /\ nextibit = 0 /\ tmp = 1 .. 5
  /\ nextibit' = 1
  /\ Put({})
  /\ UNCHANGED ibufend

\* The start bit is the first zero; the data bits behind it are kept.
RecvStart(tmp) ==
  /\ nextibit = 0 /\ tmp \notin {DataBits, 1 .. 5}
  /\ \E s \in DataBits \ tmp :
       /\ 1 .. s - 1 \subseteq tmp
       /\ nextibit' = 7 - s
       /\ Put(Shr(tmp, s + 1))
  /\ UNCHANGED ibufend

\* Mutant: a whole character's bits are added one place too high.
GrownHigh(tmp) ==
  IF nextibit < 9 THEN ibuf[ibufend] \cup Byte(Shl(Shr(tmp, 1), nextibit))
                  ELSE ibuf[ibufend]

\* The character with this octet's bits added.
Grown(tmp) ==
  IF nextibit < 9 THEN ibuf[ibufend] \cup Byte(Shl(Shr(tmp, 1), nextibit - 1))
                  ELSE ibuf[ibufend]

RecvMore(tmp) ==
  /\ nextibit \in 1 .. 3
  /\ nextibit' = nextibit + 6
  /\ Put(Grown(tmp))
  /\ UNCHANGED ibufend

StopBit == 10 - nextibit

Newend == (ibufend + 1) % BufLen

\* No room for the character.  The code goes on to the next octet as if this
\* one had not been looked at: nextibit stays.
RecvFull(tmp) ==
  /\ nextibit > 3 /\ StopBit \in tmp /\ Newend = ibufstart
  /\ Put(Grown(tmp))
  /\ UNCHANGED <<nextibit, ibufend>>

\* Mutant: the next character's first bits include its start bit.
ScanNextUnshifted(tmp, at, char) ==
  \E s \in StopBit + 1 .. 7 :
    /\ StopBit + 1 .. s - 1 \subseteq tmp /\ s \notin tmp
    /\ nextibit' = 7 - s
    /\ ibuf' = [ibuf EXCEPT ![ibufend] = char,
                            ![at] = IF s < 6 THEN Shr(tmp, s) ELSE IF at = ibufend THEN char ELSE @]

\* Look for the next start bit behind the stop bit.  A character that starts
\* in bit 6 has no data bits yet, and its entry of the ring is left as it is.
ScanNext(tmp, at, char) ==
  \E s \in StopBit + 1 .. 7 :
    /\ StopBit + 1 .. s - 1 \subseteq tmp /\ s \notin tmp
    /\ nextibit' = 7 - s
    /\ ibuf' = [ibuf EXCEPT ![ibufend] = char,
                            ![at] = IF s < 6 THEN Shr(tmp, s + 1) ELSE IF at = ibufend THEN char ELSE @]

\* Mutant: the ring takes a character it has no room for.
RecvStopUnchecked(tmp) ==
  /\ nextibit > 3 /\ StopBit \in tmp
  /\ ScanNext(tmp, Newend, Grown(tmp))
  /\ ibufend' = Newend

RecvStop(tmp) ==
  /\ nextibit > 3 /\ StopBit \in tmp /\ Newend # ibufstart
  /\ ScanNext(tmp, Newend, Grown(tmp))
  /\ ibufend' = Newend

\* A framing error: the character is dropped.
RecvNoStop(tmp) ==
  /\ nextibit > 3 /\ StopBit \notin tmp
  /\ ScanNext(tmp, ibufend, Grown(tmp))
  /\ UNCHANGED ibufend

Receive(tmp) ==
  \/ RecvIdle(tmp) \/ RecvStartLast(tmp) \/ RecvStart(tmp) \/ RecvMore(tmp)
  \/ RecvFull(tmp) \/ RecvStop(tmp) \/ RecvNoStop(tmp)

\* Top of v110_process_frame: count down to synchronisation, and from then on
\* take the far end's flow control signal out of the frame.
FrameStatus ==
  /\ synccount' = IF synccount = 0 THEN 0 ELSE synccount - 1
  /\ cts' \in IF synccount = 0 THEN Bit7 ELSE {cts}
  /\ rts' = IF synccount = 1 THEN {} ELSE rts
  /\ sbit' = IF synccount = 1 THEN {} ELSE sbit

\* Mutant: line 5 is taken for data.
NextLineAll == IF line = 9 THEN 1 ELSE line + 1

NextLine == CASE line = 4 -> 6 [] line = 9 -> 1 [] OTHER -> line + 1

LineIn ==
  /\ IF line = 1 THEN FrameStatus ELSE UNCHANGED status
  /\ line' = NextLine
  /\ \E at \in StartPlaces : Receive(LineBits(at)) /\ peer' = PeerAfter(at)
  /\ UNCHANGED <<ibufstart, got, input>>

Want == IF ibufend > ibufstart THEN ibufend - ibufstart
        ELSE IF ibufend < ibufstart THEN BufLen - ibufstart ELSE 0

\* Mutant: flow control is not taken back.
FlushNeverClears ==
  /\ line = 1 /\ Want > 0
  /\ \E r \in 0 .. Want :
       /\ got' = got \o [i \in 1 .. r |-> ibuf[ibufstart + i - 1]]
       /\ ibufstart' = IF ibufstart + r = BufLen THEN 0 ELSE ibufstart + r
       /\ rts' = IF r < Want THEN {7} ELSE rts
  /\ UNCHANGED <<line, synccount, cts, sbit, nextibit, ibuf, ibufend, input, peer>>

\* The loop's write to the TCP socket, which takes r characters (none: EAGAIN),
\* and the flow control that follows from it.
Flush ==
  /\ line = 1 /\ Want > 0
  /\ \E r \in 0 .. Want :
       /\ got' = got \o [i \in 1 .. r |-> ibuf[ibufstart + i - 1]]
       /\ ibufstart' = IF ibufstart + r = BufLen THEN 0 ELSE ibufstart + r
       /\ rts' = IF r < Want THEN {7} ELSE {}
  /\ UNCHANGED <<line, synccount, cts, sbit, nextibit, ibuf, ibufend, input, peer>>

Next == LineIn \/ Flush

Spec == Init /\ [][Next]_vars

-----------------------------------------------------------------------------
TypeOK ==
  /\ line \in 1 .. 9 \ {ELine}
  /\ synccount \in 0 .. SyncFrames
  /\ cts \in Bit7 /\ rts \in Bit7 /\ sbit \in Bit7
  /\ nextibit \in 0 .. 9
  /\ ibuf \in [Indices -> Octet] /\ ibufstart \in Indices /\ ibufend \in Indices
  /\ got \in Seq(Octet)
  /\ input \in Inputs
  /\ peer \in [begun : 0 .. Len(input), bits : 0 .. 9, patient : Patience]

\* The decoder is in step with a patient far end, and the entry at ibufend holds
\* the bits received of the current character and nothing else.
InStep ==
  peer.patient =>
    /\ nextibit = peer.bits
    /\ nextibit # 0 => ibuf[ibufend] = input[peer.begun] \cap 0 .. nextibit - 2

\* The characters of the ring, in order.
Held == [i \in 1 .. Count |-> ibuf[(ibufstart + i - 1) % BufLen]]

\* Every character a patient far end finished is written or held, unaltered and
\* in order, however the socket cuts the writes up.
ReceivedIsSent ==
  peer.patient => got \o Held = SubSeq(input, 1, peer.begun - InFlight)

\* The far end is not held off for ever: once synchronised, we assert flow
\* control only with characters left to write, whose write will lift it.
HoldsOffForAReason == synccount = 0 /\ rts = {7} => ibufstart # ibufend

\* Whatever the far end sends, an octet never touches a finished character
\* that waits in the ring, nor drops one.
FinishedStay ==
  [][LineIn => \A i \in Indices :
       (i + BufLen - ibufstart) % BufLen < Count
         => /\ ibuf'[i] = ibuf[i]
            /\ (i + BufLen - ibufstart) % BufLen < Count']_vars
=============================================================================
