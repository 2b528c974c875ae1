------------------------------ MODULE V110Sync ------------------------------
(***************************************************************************)
(* Two sbridge ends of a V.110 call find each other's frames and agree to  *)
(* send data: v110_input_frame_x1, _x2 and _x4 with the head of            *)
(* v110_process_frame against v110_getline and v110_fill_outframe_x*.      *)
(*                                                                         *)
(* An octet of a frame is cut into Chips(rate) chips, one per octet of the *)
(* B channel.  The receiver hunts for the zero chips of a header, takes    *)
(* the chips after it for a frame, and hunts anew.  A step moves one chip  *)
(* in each direction: the B channel is clocked, and the loop of            *)
(* sbridge_run_v110 sends as much as it received.                          *)
(*                                                                         *)
(* Of a frame under way the receiver's checks and the flow control bit are *)
(* kept; its characters are those of the module V110Rx, the sender's those *)
(* of V110Tx.  The TCP socket takes what it is given, so that rts is not   *)
(* set again.  External: the B channel, which may lose chips on the way to *)
(* an end a few times, any number of them each time.                       *)
(***************************************************************************)
EXTENDS V110Bits, FiniteSets

CONSTANTS
  Rates,       \* subset of {1, 2, 4}: how many chips carry an octet
  SyncFrames,  \* frames until synchronisation is declared
  Starts,      \* the chips of a frame the other end may be at when an end starts
  DataLines,   \* the data bits of an octet with characters in it
  MaxSlips     \* End -> how often chips on the way to it are lost

End == {"a", "b"}
Peer(e) == IF e = "a" THEN "b" ELSE "a"

ASSUME SyncAssumption ==
  /\ Rates \subseteq {1, 2, 4}
  /\ SyncFrames \in Nat \ {0}
  /\ Starts \subseteq Nat
  /\ DataLines \subseteq SUBSET (1 .. 6)
  /\ MaxSlips \in [End -> Nat]

VARIABLES
  rate,         \* chips per octet: which of the functions were chosen
  at,           \* the next chip of its frame an end sends, 0 the header's first
  octet,        \* the octet it is sending
  tail,         \* octets the character under way may still reach into
  vframe_in_len, ok, flow,  \* chips collected, whether the checks hold so far,
                            \* bit 7 of line 7
  synccount, cts, rts, sbit,
  losing, slips, \* chips on the way to an end get lost; how often they did
  gap,          \* some of the frame it collects were lost
  heard         \* since a chip was lost: only part of a frame, a frame without
                \* data so far, a whole one

sender   == <<at, octet, tail>>
receiver == <<vframe_in_len, ok, flow, synccount, cts, rts, sbit>>
vars == <<rate, sender, receiver, losing, slips, gap, heard>>

Bit7 == {{}, {7}}
Idle == 1 .. 6
MaxTail == 2    \* a character has ten bits, an octet takes six

FrameChips == 10 * rate
ChipBits == 8 \div rate

-----------------------------------------------------------------------------
(* The sender: v110_getline, cut up by v110_fill_outframe_x*.               *)

\* Line 0 is the header, nextoline = 10 in the code.
SentLine(e) == at[e] \div rate

\* Bit i of the chip is bit i of what the code puts below the filling ones.
SentChip(e) ==
  {i \in 0 .. ChipBits - 1 : i + (at[e] % rate) * ChipBits \in octet[e]}

Status(e, line) == IF line \in {2, 7} THEN rts[e] ELSE sbit[e]

\* Data goes out when flow control lets a character start, and for as long as
\* one that was started lasts.
MayCarry(e) == cts[e] = {} \/ tail[e] > 0

Octets(e, line) ==
  CASE line = 0 -> {{}}
    [] line = ELine -> {0 .. 7 \ {1}}
    [] OTHER -> {{0} \cup d \cup Status(e, line) :
                   d \in IF MayCarry(e) THEN DataLines \cup {Idle} ELSE {Idle}}

NextAt(e) == (at[e] + 1) % FrameChips

\* The chip is gone; with the last of an octet the next octet is made.
SendOn(e) ==
  IF NextAt(e) % rate # 0 THEN {[octet |-> octet[e], tail |-> tail[e]]}
  ELSE LET line == NextAt(e) \div rate
       IN  [octet : Octets(e, line),
            tail : {IF line \in {0, ELine} THEN tail[e]
                    ELSE IF cts[e] = {} THEN MaxTail
                    ELSE IF tail[e] > 0 THEN tail[e] - 1 ELSE 0}]

-----------------------------------------------------------------------------
(* The receiver.                                                            *)

\* The bits the hunt looks at: & 3, & 7, the whole octet.
HuntBits == IF rate = 2 THEN 0 .. 2 ELSE 0 .. ChipBits - 1

Hunting(e) == vframe_in_len[e] < rate

\* Mutant: zero chips need not follow one another.
LenAfterScattered(e, chip) ==
  IF Hunting(e) /\ chip \cap HuntBits # {} THEN vframe_in_len[e]
  ELSE (vframe_in_len[e] + 1) % FrameChips

\* Mutant: the position in the frame is not reset.
LenAfterOn(e, chip) ==
  IF Hunting(e) /\ chip \cap HuntBits # {} THEN 0 ELSE vframe_in_len[e] + 1

\* A chip that is not zero ends the hunt's run of zeros; a frame is complete
\* with its last chip.
LenAfter(e, chip) ==
  IF Hunting(e) /\ chip \cap HuntBits # {} THEN 0
  ELSE (vframe_in_len[e] + 1) % FrameChips

\* Mutant: only the E-bits are looked at.
ChecksEOnly(line, bits, first) ==
  line = ELine => \A i \in 0 .. 3 :
                    i \in first .. first + ChipBits - 1 => (i \in bits <=> i # 1)

\* v110_process_frame's checks, as far as they concern these bits of a line.
Checks(line, bits, first) ==
  /\ line # ELine /\ first = 0 => 0 \in bits
  /\ line = ELine => \A i \in 0 .. 3 :
                       i \in first .. first + ChipBits - 1 => (i \in bits <=> i # 1)

\* What is known of the frame with this chip, the (n + 1)th.
Collect(e, chip) ==
  LET n == vframe_in_len[e]
      first == (n % rate) * ChipBits
      bits == {first + i : i \in chip}
  IN  IF Hunting(e) THEN [ok |-> TRUE, flow |-> {}]
      ELSE [ok   |-> ok[e] /\ Checks(n \div rate, bits, first),
            flow |-> IF n \div rate = 7 THEN flow[e] \cup (bits \cap {7}) ELSE flow[e]]

Completes(e) == vframe_in_len[e] = FrameChips - 1

\* v110_process_frame goes on to the data of the frame.
Accepts(e, chip) == Completes(e) /\ Collect(e, chip).ok

\* Mutant: the signals to the other end are not lifted.
TakeHeld(e, chip) ==
  LET frame == Collect(e, chip)
      taken == Accepts(e, chip)
  IN  [len |-> LenAfter(e, chip),
       ok |-> Completes(e) \/ frame.ok,
       flow |-> IF Completes(e) THEN {} ELSE frame.flow,
       synccount |-> IF taken /\ synccount[e] > 0 THEN synccount[e] - 1 ELSE synccount[e],
       cts |-> IF taken /\ synccount[e] = 0 THEN frame.flow ELSE cts[e],
       rts |-> rts[e],
       sbit |-> sbit[e]]

\* Mutant: the signals are lifted with the first frame.
TakeEager(e, chip) ==
  LET frame == Collect(e, chip)
      taken == Accepts(e, chip)
  IN  [len |-> LenAfter(e, chip),
       ok |-> Completes(e) \/ frame.ok,
       flow |-> IF Completes(e) THEN {} ELSE frame.flow,
       synccount |-> IF taken /\ synccount[e] > 0 THEN synccount[e] - 1 ELSE synccount[e],
       cts |-> IF taken /\ synccount[e] = 0 THEN frame.flow ELSE cts[e],
       rts |-> IF taken THEN {} ELSE rts[e],
       sbit |-> IF taken THEN {} ELSE sbit[e]]

\* One end takes one chip.  What is left of a complete frame is forgotten.
Take(e, chip) ==
  LET frame == Collect(e, chip)
      taken == Accepts(e, chip)
      synced == taken /\ synccount[e] = 1
  IN  [len |-> LenAfter(e, chip),
       ok |-> Completes(e) \/ frame.ok,
       flow |-> IF Completes(e) THEN {} ELSE frame.flow,
       synccount |-> IF taken /\ synccount[e] > 0 THEN synccount[e] - 1 ELSE synccount[e],
       cts |-> IF taken /\ synccount[e] = 0 THEN frame.flow ELSE cts[e],
       rts |-> IF synced THEN {} ELSE rts[e],
       sbit |-> IF synced THEN {} ELSE sbit[e]]

Keep(e) ==
  [len |-> vframe_in_len[e], ok |-> ok[e], flow |-> flow[e],
   synccount |-> synccount[e], cts |-> cts[e], rts |-> rts[e], sbit |-> sbit[e]]

-----------------------------------------------------------------------------
(* An end starts with the header, while the other may be anywhere in a frame *)
(* it has nobody to send to.                                                *)
Init ==
  /\ rate \in Rates
  /\ \E start \in Starts :
       /\ start < FrameChips
       /\ at = [e \in End |-> IF e = "a" THEN 0 ELSE start]
       /\ octet = [e \in End |->
                     CASE at[e] \div rate = 0 -> {}
                       [] at[e] \div rate = ELine -> 0 .. 7 \ {1}
                       [] OTHER -> 0 .. 7]
  /\ tail = [e \in End |-> 0]
  /\ vframe_in_len = [e \in End |-> 0]
  /\ ok = [e \in End |-> TRUE] /\ flow = [e \in End |-> {}]
  /\ synccount = [e \in End |-> SyncFrames]
  /\ cts = [e \in End |-> {7}] /\ rts = [e \in End |-> {7}] /\ sbit = [e \in End |-> {7}]
  /\ losing = [e \in End |-> FALSE] /\ slips = [e \in End |-> 0]
  /\ gap = [e \in End |-> FALSE] /\ heard = [e \in End |-> "part"]

\* What end e knows of the other's frames once it got, or lost, this chip.
Heard(e, lost) ==
  LET p == Peer(e)
      data == SentLine(p) \notin {0, ELine} /\ ~(Idle \subseteq octet[p])
  IN  IF lost \/ (heard[e] = "idle" /\ data) THEN "part"
      ELSE IF heard[e] = "frame" \/ NextAt(p) # 0 THEN heard[e]
      ELSE IF heard[e] = "idle" THEN "frame" ELSE "idle"

\* One chip in each direction; the ends of lost do not get theirs.
Chip(lost) ==
  /\ losing' = [e \in End |-> e \in lost]
  /\ slips' = [e \in End |-> slips[e] + IF e \in lost /\ ~losing[e] THEN 1 ELSE 0]
  /\ LET new == [e \in End |-> IF e \in lost THEN Keep(e) ELSE Take(e, SentChip(Peer(e)))]
     IN  /\ vframe_in_len' = [e \in End |-> new[e].len]
         /\ ok' = [e \in End |-> new[e].ok]
         /\ flow' = [e \in End |-> new[e].flow]
         /\ synccount' = [e \in End |-> new[e].synccount]
         /\ cts' = [e \in End |-> new[e].cts]
         /\ rts' = [e \in End |-> new[e].rts]
         /\ sbit' = [e \in End |-> new[e].sbit]
  /\ heard' = [e \in End |-> Heard(e, e \in lost)]
  /\ gap' = [e \in End |-> IF e \in lost THEN ~Hunting(e)
                          ELSE gap[e] /\ ~Completes(e)]
  /\ at' = [e \in End |-> NextAt(e)]
  /\ \E a \in SendOn("a"), b \in SendOn("b") :
       /\ octet' = [e \in End |-> IF e = "a" THEN a.octet ELSE b.octet]
       /\ tail' = [e \in End |-> IF e = "a" THEN a.tail ELSE b.tail]
  /\ UNCHANGED rate

MayLose == {e \in End : losing[e] \/ slips[e] < MaxSlips[e]}

Next == \E lost \in SUBSET MayLose : Chip(lost)

Spec == Init /\ [][Next]_vars

\* The B channel is clocked and is not broken for ever.
FairSpec == Spec /\ WF_vars(Chip({}))

-----------------------------------------------------------------------------
TypeOK ==
  /\ rate \in Rates
  /\ at \in [End -> 0 .. FrameChips - 1]
  /\ octet \in [End -> Octet]
  /\ tail \in [End -> 0 .. MaxTail]
  /\ vframe_in_len \in [End -> 0 .. FrameChips - 1]
  /\ ok \in [End -> BOOLEAN] /\ flow \in [End -> Bit7]
  /\ synccount \in [End -> 0 .. SyncFrames]
  /\ cts \in [End -> Bit7] /\ rts \in [End -> Bit7] /\ sbit \in [End -> Bit7]
  /\ losing \in [End -> BOOLEAN] /\ gap \in [End -> BOOLEAN]
  /\ slips \in [End -> Nat] /\ heard \in [End -> {"part", "idle", "frame"}]
  /\ \A e \in End : slips[e] <= MaxSlips[e]

\* The receiver's idea of the frame is the other end's.
Aligned(e) == vframe_in_len[e] = at[Peer(e)]

\* However the hunt was led astray by zeros in the data, one frame without
\* data brings it back, and it stays until chips are lost.
IdleAligns == \A e \in End : heard[e] = "frame" => Aligned(e)

\* An end that may send data knows that the other one is ready for it: it has
\* declared synchronisation, and it is in step unless it lost chips.
DataIsHeard ==
  \A e \in End : MayCarry(Peer(e)) =>
    /\ slips[Peer(e)] = 0 => synccount[e] = 0
    /\ slips[e] = 0 => Aligned(e)

\* A frame that is accepted is a frame the other end sent, and not the end of
\* one and the beginning of the next, unless chips got lost in the middle.
AcceptsWholeFrames ==
  [][\A e \in End :
       (Accepts(e, SentChip(Peer(e))) /\ ~losing'[e] /\ ~gap[e]) => Aligned(e)]_vars

\* Both ends synchronise, and the one that lost nothing is allowed to send, for
\* good.  The other may take what is left of a broken frame for a flow control
\* signal, and zeros in every frame's last octet may keep it from reading another.
Connects ==
  <>[](\A e \in End : synccount[e] = 0 /\ (slips[e] = 0 => cts[e] = {}))
=============================================================================
