--------------------------- MODULE V110SyncProofs ---------------------------
(***************************************************************************)
(* Proofs about V110Sync, for every rate, every number of frames until     *)
(* synchronisation, every start and every number of losses: types, that a  *)
(* frame without data brings the receiver into step, what an end that      *)
(* sends data knows of the other one, and that v110_process_frame's checks *)
(* let no frame of the receiver's own making pass.                         *)
(*                                                                         *)
(* The inductive invariant says for each end what the octet under way is   *)
(* (Whole), where the receiver is in a frame without data (Settles), what  *)
(* an end that lost nothing knows of the other one (Follows, with Quiet    *)
(* until the other's first header), and which check a frame that is not    *)
(* the sender's has still to fail (Doomed).                                *)
(***************************************************************************)
EXTENDS V110Sync, TLAPS


\* What the octet being sent is, as far as a receiver relies on it.
Whole(e) ==
  /\ SentLine(e) = 0 => octet[e] = {}
  /\ SentLine(e) = ELine => octet[e] = 0 .. 7 \ {1}
  /\ SentLine(e) = 7 => 7 \in octet[e] \/ synccount[e] = 0

NoData(e) == SentLine(e) \in {0, ELine} \/ Idle \subseteq octet[e]

\* Within a frame without data the receiver is where the sender is, or ahead of it,
\* still in a frame of its own making, or back to the hunt for the next header.
Settles(e) ==
  /\ heard[e] = "idle" => \/ vframe_in_len[e] >= at[Peer(e)] \/ vframe_in_len[e] = 0
                          \/ at[Peer(e)] <= rate
  /\ heard[e] = "frame" => Aligned(e)

\* Before the first header: the other end sent no data, and completed no frame.
Quiet(e) ==
  /\ vframe_in_len[e] < at[Peer(e)]
  /\ vframe_in_len[e] = 0 \/ at[Peer(e)] <= rate
  /\ NoData(Peer(e)) /\ cts[Peer(e)] = {7} /\ tail[Peer(e)] = 0
  /\ synccount[Peer(e)] = SyncFrames /\ vframe_in_len[Peer(e)] <= at[Peer(e)]

\* An end that lost nothing.
Follows(e) ==
  /\ losing[e] => slips[e] > 0
  /\ slips[e] = 0 =>
       /\ Aligned(e) \/ Quiet(e)
       /\ Aligned(e) /\ vframe_in_len[e] >= 8 * rate => flow[e] # {} \/ synccount[Peer(e)] = 0
       /\ MayCarry(e) => synccount[Peer(e)] = 0

Lifted(e) == rts[e] = {} => synccount[e] = 0

\* A frame being collected that is none of the sender's has a check still to fail:
\* the E-bits, or the first bit of the line where the sender's header is.
Doomed(e) ==
  LET len == vframe_in_len[e]
      sent == at[Peer(e)]
  IN  \/ len < sent /\ (sent - len < rate => len <= 5 * rate)
      \/ /\ sent < rate /\ sent < len /\ len - sent <= 9 * rate
         /\ \A x \in rate .. len - 1 : len - sent <= x => x % rate # 0

Checked(e) == ok[e] /\ ~gap[e] /\ ~Hunting(e) => Aligned(e) \/ Doomed(e)

EndInv(e) == Whole(e) /\ Settles(e) /\ Follows(e) /\ Lifted(e) /\ Checked(e)

IInv == TypeOK /\ \A e \in End : EndInv(e)

-----------------------------------------------------------------------------
(* Ends, rates and chips.                                                   *)

\* There are two ends.
LEMMA PeerIs ==
  ASSUME NEW e \in End
  PROVE  Peer(e) \in End /\ Peer(Peer(e)) = e /\ Peer(e) # e
  BY DEF Peer, End

\* The fields of one end's state.
LEMMA EndTyped ==
  ASSUME TypeOK, NEW e \in End
  PROVE  /\ at[e] \in 0 .. FrameChips - 1 /\ octet[e] \in Octet /\ tail[e] \in 0 .. MaxTail
         /\ vframe_in_len[e] \in 0 .. FrameChips - 1 /\ ok[e] \in BOOLEAN /\ flow[e] \in Bit7
         /\ synccount[e] \in 0 .. SyncFrames /\ cts[e] \in Bit7 /\ rts[e] \in Bit7 /\ sbit[e] \in Bit7
         /\ losing[e] \in BOOLEAN /\ gap[e] \in BOOLEAN /\ slips[e] \in Nat
         /\ heard[e] \in {"part", "idle", "frame"}
         /\ SyncFrames \in Nat /\ SyncFrames > 0
  BY SyncAssumption DEF TypeOK

\* The three rates and what they make of a frame.
LEMMA RateIs ==
  ASSUME TypeOK
  PROVE  \/ rate = 1 /\ FrameChips = 10 /\ ChipBits = 8
         \/ rate = 2 /\ FrameChips = 20 /\ ChipBits = 4
         \/ rate = 4 /\ FrameChips = 40 /\ ChipBits = 2
<1>1. rate \in {1, 2, 4}
  BY SyncAssumption DEF TypeOK
<1>2. CASE rate = 1
  BY <1>2 DEF FrameChips, ChipBits
<1>3. CASE rate = 2
  BY <1>3 DEF FrameChips, ChipBits
<1>4. CASE rate = 4
  BY <1>4 DEF FrameChips, ChipBits
<1>5. QED
  BY <1>1, <1>2, <1>3, <1>4

\* Lines, by the number of the chip.
LEMMA LineIs ==
  ASSUME TypeOK, NEW n \in 0 .. FrameChips - 1
  PROVE  /\ n \div rate \in 0 .. 9
         /\ n \div rate = 0 <=> n < rate
         /\ n \div rate = ELine <=> n \in 5 * rate .. 6 * rate - 1
         /\ n \div rate = 7 <=> n \in 7 * rate .. 8 * rate - 1
         /\ n % rate \in 0 .. rate - 1
<1>1. CASE rate = 1 /\ FrameChips = 10
  BY <1>1 DEF ELine
<1>2. CASE rate = 2 /\ FrameChips = 20
  BY <1>2 DEF ELine
<1>3. CASE rate = 4 /\ FrameChips = 40
  BY <1>3 DEF ELine
<1>4. QED
  BY <1>1, <1>2, <1>3, RateIs

\* The header is sent as zeros.
LEMMA ChipHeader ==
  ASSUME TypeOK, NEW e \in End, Whole(e), at[e] < rate
  PROVE  SentChip(e) = {}
<1>1. at[e] \in 0 .. FrameChips - 1
  BY EndTyped
<1>2. octet[e] = {}
  BY <1>1, LineIs DEF Whole, SentLine
<1>3. QED
  BY <1>2 DEF SentChip

\* A later part of the E-bits has its lowest bit set, bit 1 of their first does not.
LEMMA ChipE ==
  ASSUME TypeOK, NEW e \in End, Whole(e), at[e] \in 5 * rate + 1 .. 6 * rate - 1
  PROVE  1 \in SentChip(e)
<1>1. at[e] \in 0 .. FrameChips - 1
  BY EndTyped
<1>2. octet[e] = 0 .. 7 \ {1}
  <2>1. at[e] \in 5 * rate .. 6 * rate - 1
    BY RateIs
  <2>2. QED
    BY <1>1, <2>1, LineIs DEF Whole, SentLine
<1>3. CASE rate = 1
  BY <1>3
<1>4. CASE rate = 2 /\ ChipBits = 4
  <2>1. at[e] % rate = 1
    BY <1>4
  <2>2. QED
    BY <1>2, <1>4, <2>1 DEF SentChip
<1>5. CASE rate = 4 /\ ChipBits = 2
  <2>1. at[e] % rate \in 1 .. 3
    BY <1>5
  <2>2. QED
    BY <1>2, <1>5, <2>1 DEF SentChip
<1>6. QED
  BY <1>3, <1>4, <1>5, RateIs

\* Without data, nothing after the header looks like zeros to the hunt.
LEMMA ChipNoData ==
  ASSUME TypeOK, NEW e \in End, Whole(e), NoData(e), at[e] >= rate
  PROVE  SentChip(e) \cap HuntBits # {}
<1>1. at[e] \in 0 .. FrameChips - 1
  BY EndTyped
<1>2. SentLine(e) # 0
  BY <1>1, LineIs, RateIs DEF SentLine
<1>3. {2, 3, 4, 5, 6} \subseteq octet[e]
  BY <1>2 DEF Whole, NoData, Idle
<1>4. at[e] % rate \in 0 .. rate - 1
  BY <1>1, LineIs
<1>5. CASE rate = 1 /\ ChipBits = 8
  <2>1. 2 \in SentChip(e) /\ 2 \in HuntBits
    BY <1>3, <1>4, <1>5 DEF SentChip, HuntBits
  <2>2. QED
    BY <2>1
<1>6. CASE rate = 2 /\ ChipBits = 4
  <2>1. 2 \in SentChip(e) /\ 2 \in HuntBits
    BY <1>3, <1>4, <1>6 DEF SentChip, HuntBits
  <2>2. QED
    BY <2>1
<1>7. CASE rate = 4 /\ ChipBits = 2
  <2>1. CASE at[e] % rate = 0
    <3>1. 0 \in octet[e] \/ 1 \in octet[e]
      BY <1>2 DEF Whole, NoData, Idle
    <3>2. 0 \in SentChip(e) \/ 1 \in SentChip(e)
      BY <1>7, <2>1, <3>1 DEF SentChip
    <3>3. 0 \in HuntBits /\ 1 \in HuntBits
      BY <1>7 DEF HuntBits
    <3>4. QED
      BY <3>2, <3>3
  <2>2. CASE at[e] % rate \in 1 .. 3
    <3>1. 0 \in SentChip(e) /\ 0 \in HuntBits
      BY <1>3, <1>7, <2>2 DEF SentChip, HuntBits
    <3>2. QED
      BY <3>1
  <2>3. QED
    BY <1>4, <1>7, <2>1, <2>2
<1>8. QED
  BY <1>5, <1>6, <1>7, RateIs

-----------------------------------------------------------------------------
(* A step, end by end.                                                      *)

\* What an end sends next.
LEMMA Sends ==
  ASSUME TypeOK, NEW lost, Chip(lost), NEW e \in End
  PROVE  /\ rate' = rate /\ at'[e] = NextAt(e)
         /\ NextAt(e) % rate # 0 => octet'[e] = octet[e] /\ tail'[e] = tail[e]
         /\ NextAt(e) % rate = 0 =>
              /\ octet'[e] \in Octets(e, NextAt(e) \div rate)
              /\ tail'[e] = IF NextAt(e) \div rate \in {0, ELine} THEN tail[e]
                            ELSE IF cts[e] = {} THEN MaxTail
                            ELSE IF tail[e] > 0 THEN tail[e] - 1 ELSE 0
<1>1. rate' = rate /\ at'[e] = NextAt(e)
  BY DEF Chip
<1>2. PICK s \in SendOn(e) : octet'[e] = s.octet /\ tail'[e] = s.tail
  <2>1. PICK a \in SendOn("a"), b \in SendOn("b") :
          /\ octet' = [x \in End |-> IF x = "a" THEN a.octet ELSE b.octet]
          /\ tail' = [x \in End |-> IF x = "a" THEN a.tail ELSE b.tail]
    BY DEF Chip
  <2>2. CASE e = "a"
    BY <2>1, <2>2
  <2>3. CASE e = "b"
    BY <2>1, <2>3
  <2>4. QED
    BY <2>2, <2>3 DEF End
<1>3. CASE NextAt(e) % rate # 0
  BY <1>1, <1>2, <1>3 DEF SendOn
<1>4. CASE NextAt(e) % rate = 0
  BY <1>1, <1>2, <1>4 DEF SendOn
<1>5. QED
  BY <1>1, <1>3, <1>4

\* Whether the checks still hold, after a chip.
LEMMA TakesOk ==
  ASSUME NEW e \in End, NEW c
  PROVE  /\ Take(e, c).ok <=> Completes(e) \/ Collect(e, c).ok
         /\ Take(e, c).ok \in BOOLEAN
<1> DEFINE Ok == Completes(e) \/ Collect(e, c).ok
<1>1. \E l, f, s, k, r, b :
        Take(e, c) = [len |-> l, ok |-> Ok, flow |-> f, synccount |-> s, cts |-> k, rts |-> r, sbit |-> b]
  BY Zenon DEF Take
<1>2. Ok \in BOOLEAN
  OBVIOUS
<1> HIDE DEF Ok
<1>3. Take(e, c).ok = Ok
  BY <1>1
<1>4. Take(e, c).ok \in BOOLEAN
  BY <1>2, <1>3
<1>5. Take(e, c).ok <=> Ok
  BY <1>3, Zenon
<1>6. QED
  BY <1>4, <1>5, Zenon DEF Ok

\* An end that gets its chip.
LEMMA Receives ==
  ASSUME NEW lost, Chip(lost), NEW e \in End, e \notin lost
  PROVE  LET c == SentChip(Peer(e))
         IN  /\ vframe_in_len'[e] = LenAfter(e, c)
             /\ ok'[e] <=> Completes(e) \/ Collect(e, c).ok
             /\ flow'[e] = IF Completes(e) THEN {} ELSE Collect(e, c).flow
             /\ synccount'[e] = IF Accepts(e, c) /\ synccount[e] > 0 THEN synccount[e] - 1 ELSE synccount[e]
             /\ cts'[e] = IF Accepts(e, c) /\ synccount[e] = 0 THEN Collect(e, c).flow ELSE cts[e]
             /\ rts'[e] = IF Accepts(e, c) /\ synccount[e] = 1 THEN {} ELSE rts[e]
             /\ sbit'[e] = IF Accepts(e, c) /\ synccount[e] = 1 THEN {} ELSE sbit[e]
             /\ ~losing'[e] /\ slips'[e] = slips[e] + 0
             /\ (gap'[e] <=> gap[e] /\ ~Completes(e)) /\ heard'[e] = Heard(e, FALSE)
<1> DEFINE new == [x \in End |-> IF x \in lost THEN Keep(x) ELSE Take(x, SentChip(Peer(x)))]
<1>1. /\ vframe_in_len'[e] = new[e].len /\ ok'[e] = new[e].ok /\ flow'[e] = new[e].flow
      /\ synccount'[e] = new[e].synccount /\ cts'[e] = new[e].cts
      /\ rts'[e] = new[e].rts /\ sbit'[e] = new[e].sbit
  BY DEF Chip
<1>2. new[e] = Take(e, SentChip(Peer(e)))
  OBVIOUS
<1> HIDE DEF new
<1>3. ~losing'[e] /\ slips'[e] = slips[e] + 0
  <2>1. /\ losing' = [x \in End |-> x \in lost]
        /\ slips' = [x \in End |-> slips[x] + IF x \in lost /\ ~losing[x] THEN 1 ELSE 0]
    BY DEF Chip
  <2>2. QED
    BY <2>1
<1>4. (gap'[e] <=> gap[e] /\ ~Completes(e)) /\ heard'[e] = Heard(e, FALSE)
  <2>1. /\ gap' = [x \in End |-> IF x \in lost THEN ~Hunting(x) ELSE gap[x] /\ ~Completes(x)]
        /\ heard' = [x \in End |-> Heard(x, x \in lost)]
    BY DEF Chip
  <2>2. gap'[e] <=> gap[e] /\ ~Completes(e)
    BY <2>1
  <2>3. heard'[e] = Heard(e, e \in lost)
    BY <2>1
  <2>4. QED
    BY <2>2, <2>3 DEF Heard
<1> DEFINE c == SentChip(Peer(e))
<1> HIDE DEF c
<1>5. /\ new[e].len = LenAfter(e, c)
      /\ new[e].flow = IF Completes(e) THEN {} ELSE Collect(e, c).flow
      /\ new[e].synccount = IF Accepts(e, c) /\ synccount[e] > 0 THEN synccount[e] - 1 ELSE synccount[e]
      /\ new[e].cts = IF Accepts(e, c) /\ synccount[e] = 0 THEN Collect(e, c).flow ELSE cts[e]
      /\ new[e].rts = IF Accepts(e, c) /\ synccount[e] = 1 THEN {} ELSE rts[e]
      /\ new[e].sbit = IF Accepts(e, c) /\ synccount[e] = 1 THEN {} ELSE sbit[e]
  BY <1>2 DEF Take, c
<1>6. new[e].ok <=> Completes(e) \/ Collect(e, c).ok
  BY <1>2, TakesOk, Zenon DEF c
<1>7. QED
  BY <1>1, <1>3, <1>4, <1>5, <1>6 DEF c

\* An end whose chip is lost.
LEMMA Loses ==
  ASSUME NEW lost, Chip(lost), NEW e \in End, e \in lost
  PROVE  /\ vframe_in_len'[e] = vframe_in_len[e] /\ ok'[e] = ok[e] /\ flow'[e] = flow[e]
         /\ synccount'[e] = synccount[e] /\ cts'[e] = cts[e]
         /\ rts'[e] = rts[e] /\ sbit'[e] = sbit[e]
         /\ losing'[e] /\ slips'[e] = slips[e] + IF ~losing[e] THEN 1 ELSE 0
         /\ (gap'[e] <=> ~Hunting(e)) /\ heard'[e] = "part"
<1> DEFINE new == [x \in End |-> IF x \in lost THEN Keep(x) ELSE Take(x, SentChip(Peer(x)))]
<1>1. /\ vframe_in_len'[e] = new[e].len /\ ok'[e] = new[e].ok /\ flow'[e] = new[e].flow
      /\ synccount'[e] = new[e].synccount /\ cts'[e] = new[e].cts
      /\ rts'[e] = new[e].rts /\ sbit'[e] = new[e].sbit
  BY DEF Chip
<1>2. new[e] = Keep(e)
  OBVIOUS
<1> HIDE DEF new
<1>3. losing'[e] /\ slips'[e] = slips[e] + IF ~losing[e] THEN 1 ELSE 0
  <2>1. /\ losing' = [x \in End |-> x \in lost]
        /\ slips' = [x \in End |-> slips[x] + IF x \in lost /\ ~losing[x] THEN 1 ELSE 0]
    BY DEF Chip
  <2>2. QED
    BY <2>1
<1>4. (gap'[e] <=> ~Hunting(e)) /\ heard'[e] = "part"
  <2>1. /\ gap' = [x \in End |-> IF x \in lost THEN ~Hunting(x) ELSE gap[x] /\ ~Completes(x)]
        /\ heard' = [x \in End |-> Heard(x, x \in lost)]
    BY DEF Chip
  <2>2. gap'[e] <=> ~Hunting(e)
    BY <2>1
  <2>3. heard'[e] = Heard(e, e \in lost)
    BY <2>1
  <2>4. QED
    BY <2>2, <2>3 DEF Heard
<1>5. QED
  BY <1>1, <1>2, <1>3, <1>4 DEF Keep

\* The next chip of a frame.
LEMMA NextAtIs ==
  ASSUME TypeOK, NEW e \in End
  PROVE  /\ NextAt(e) \in 0 .. FrameChips - 1
         /\ NextAt(e) = IF at[e] = FrameChips - 1 THEN 0 ELSE at[e] + 1
<1>1. at[e] \in 0 .. FrameChips - 1
  BY EndTyped
<1>2. CASE FrameChips = 10
  BY <1>1, <1>2 DEF NextAt
<1>3. CASE FrameChips = 20
  BY <1>1, <1>3 DEF NextAt
<1>4. CASE FrameChips = 40
  BY <1>1, <1>4 DEF NextAt
<1>5. QED
  BY <1>2, <1>3, <1>4, RateIs

\* What a chip does to the position in the frame.
LEMMA LenIs ==
  ASSUME TypeOK, NEW e \in End, NEW c
  PROVE  /\ LenAfter(e, c) \in 0 .. FrameChips - 1
         /\ vframe_in_len[e] < rate /\ c \cap HuntBits # {} => LenAfter(e, c) = 0
         /\ vframe_in_len[e] < rate /\ c \cap HuntBits = {} => LenAfter(e, c) = vframe_in_len[e] + 1
         /\ vframe_in_len[e] >= rate =>
              LenAfter(e, c) = IF vframe_in_len[e] = FrameChips - 1 THEN 0 ELSE vframe_in_len[e] + 1
<1> DEFINE n == vframe_in_len[e]
<1>1. n \in 0 .. FrameChips - 1 /\ n \in Nat
  BY EndTyped, RateIs
<1> HIDE DEF n
<1>2. (n + 1) % FrameChips = IF n = FrameChips - 1 THEN 0 ELSE n + 1
  <2>1. CASE FrameChips = 10
    BY <1>1, <2>1
  <2>2. CASE FrameChips = 20
    BY <1>1, <2>2
  <2>3. CASE FrameChips = 40
    BY <1>1, <2>3
  <2>4. QED
    BY <2>1, <2>2, <2>3, RateIs
<1>3. n < rate => n # FrameChips - 1
  BY <1>1, RateIs
<1>4. LenAfter(e, c) = IF n < rate /\ c \cap HuntBits # {} THEN 0 ELSE (n + 1) % FrameChips
  BY DEF LenAfter, Hunting, n
<1>5. QED
  BY <1>1, <1>2, <1>3, <1>4, RateIs DEF n

\* A frame's last chip is no part of a hunt.
LEMMA CompletesIs ==
  ASSUME TypeOK, NEW e \in End, Completes(e)
  PROVE  vframe_in_len[e] = FrameChips - 1 /\ ~Hunting(e) /\ vframe_in_len[e] >= rate
  BY RateIs DEF Completes, Hunting


\* What a frame's next chip does to what is known of the frame.
LEMMA CollectIs ==
  ASSUME TypeOK, NEW e \in End, NEW c
  PROVE  /\ Hunting(e) => Collect(e, c).flow = {}
         /\ ~Hunting(e) =>
              /\ Collect(e, c).ok =>
                   ok[e] /\ Checks(vframe_in_len[e] \div rate,
                                   {(vframe_in_len[e] % rate) * ChipBits + i : i \in c},
                                   (vframe_in_len[e] % rate) * ChipBits)
              /\ Collect(e, c).flow =
                   IF vframe_in_len[e] \div rate = 7
                   THEN flow[e] \cup ({(vframe_in_len[e] % rate) * ChipBits + i : i \in c} \cap {7})
                   ELSE flow[e]
<1> DEFINE n == vframe_in_len[e]
           first == (n % rate) * ChipBits
           bits == {first + i : i \in c}
           Right == ok[e] /\ Checks(n \div rate, bits, first)
<1>1. Hunting(e) => Collect(e, c).flow = {}
  BY DEF Collect
<1>2. ASSUME ~Hunting(e)
      PROVE  Collect(e, c).flow = IF n \div rate = 7 THEN flow[e] \cup (bits \cap {7}) ELSE flow[e]
  BY <1>2 DEF Collect
<1>3. ASSUME ~Hunting(e)
      PROVE  Collect(e, c).ok => Right
  <2>1. \E f : Collect(e, c) = [ok |-> Right, flow |-> f]
    BY <1>3, Zenon DEF Collect
  <2> HIDE DEF Right
  <2>2. Collect(e, c).ok = Right
    BY <2>1
  <2>3. QED
    BY <2>2, Zenon
<1>4. QED
  BY <1>1, <1>2, <1>3, Zenon

\* What is kept of the flow control bit is that bit.
LEMMA FlowTyped ==
  ASSUME TypeOK, NEW e \in End, NEW c
  PROVE  Collect(e, c).flow \in Bit7 /\ flow[e] \subseteq {7}
<1> DEFINE bits == {(vframe_in_len[e] % rate) * ChipBits + i : i \in c}
<1>1. /\ Hunting(e) => Collect(e, c).flow = {}
      /\ ~Hunting(e) => Collect(e, c).flow = IF vframe_in_len[e] \div rate = 7
                                             THEN flow[e] \cup (bits \cap {7}) ELSE flow[e]
  BY CollectIs, Zenon
<1>2. flow[e] = {} \/ flow[e] = {7}
  BY EndTyped DEF Bit7
<1> HIDE DEF bits
<1>3. QED
  BY <1>1, <1>2 DEF Bit7

-----------------------------------------------------------------------------
(* The invariant through a step.                                            *)

\* Whatever the reader keeps may have changed, synchronisation is not undone.
LEMMA SyncStays ==
  ASSUME TypeOK, NEW lost, Chip(lost), NEW e \in End
  PROVE  /\ synccount[e] = 0 => synccount'[e] = 0
         /\ ~Completes(e) => synccount'[e] = synccount[e] /\ cts'[e] = cts[e]
         /\ slips'[e] = 0 => slips[e] = 0
         /\ losing'[e] /\ ~losing[e] => slips'[e] > 0
         /\ ~losing'[e] <=> e \notin lost
<1>0. slips[e] \in Nat
  BY EndTyped
<1>1. CASE e \in lost
  BY <1>0, <1>1, Loses
<1>2. CASE e \notin lost
  <2> DEFINE c == SentChip(Peer(e))
  <2>1. /\ synccount'[e] = IF Accepts(e, c) /\ synccount[e] > 0 THEN synccount[e] - 1 ELSE synccount[e]
        /\ cts'[e] = IF Accepts(e, c) /\ synccount[e] = 0 THEN Collect(e, c).flow ELSE cts[e]
        /\ ~losing'[e] /\ slips'[e] = slips[e] + 0
    BY <1>2, Receives
  <2>2. ~Completes(e) => ~Accepts(e, c)
    BY DEF Accepts
  <2> HIDE DEF c
  <2>3. QED
    BY <1>0, <1>2, <2>1, <2>2
<1>3. QED
  BY <1>1, <1>2

\* The signals are lifted by synchronisation alone.
LEMMA StepLifted ==
  ASSUME TypeOK, NEW lost, Chip(lost), NEW e \in End, Lifted(e)
  PROVE  Lifted(e)'
<1>1. CASE e \in lost
  BY <1>1, Loses DEF Lifted
<1>2. CASE e \notin lost
  <2> DEFINE c == SentChip(Peer(e))
  <2>1. /\ synccount'[e] = IF Accepts(e, c) /\ synccount[e] > 0 THEN synccount[e] - 1 ELSE synccount[e]
        /\ rts'[e] = IF Accepts(e, c) /\ synccount[e] = 1 THEN {} ELSE rts[e]
    BY <1>2, Receives
  <2> HIDE DEF c
  <2>2. QED
    BY <2>1 DEF Lifted
<1>3. QED
  BY <1>1, <1>2

\* The octet under way is what its line demands.
LEMMA StepWhole ==
  ASSUME TypeOK, NEW lost, Chip(lost), NEW e \in End, Whole(e), Lifted(e)
  PROVE  Whole(e)'
<1> DEFINE n == NextAt(e)
<1>1. /\ rate' = rate /\ at'[e] = n /\ n \in 0 .. FrameChips - 1
      /\ n = IF at[e] = FrameChips - 1 THEN 0 ELSE at[e] + 1
      /\ n % rate # 0 => octet'[e] = octet[e]
      /\ n % rate = 0 => octet'[e] \in Octets(e, n \div rate)
  BY Sends, NextAtIs, Zenon
<1>2. SentLine(e)' = n \div rate
  BY <1>1 DEF SentLine
<1>3. CASE n % rate # 0
  <2>1. n \div rate = SentLine(e)
    <3>1. at[e] \in 0 .. FrameChips - 1
      BY EndTyped
    <3> HIDE DEF n
    <3>2. CASE rate = 1 /\ FrameChips = 10
      BY <1>1, <1>3, <3>1, <3>2
    <3>3. CASE rate = 2 /\ FrameChips = 20
      BY <1>1, <1>3, <3>1, <3>3 DEF SentLine
    <3>4. CASE rate = 4 /\ FrameChips = 40
      BY <1>1, <1>3, <3>1, <3>4 DEF SentLine
    <3>5. QED
      BY <3>2, <3>3, <3>4, RateIs
  <2>2. synccount[e] = 0 => synccount'[e] = 0
    BY SyncStays
  <2> HIDE DEF n
  <2>3. QED
    BY <1>1, <1>2, <1>3, <2>1, <2>2 DEF Whole
<1>4. CASE n % rate = 0
  <2> HIDE DEF n
  <2>0. octet'[e] \in Octets(e, n \div rate)
    BY <1>1, <1>4
  <2>1. n \div rate = 0 => octet'[e] = {}
    BY <2>0 DEF Octets, ELine
  <2>2. n \div rate = ELine => octet'[e] = 0 .. 7 \ {1}
    BY <2>0 DEF Octets, ELine
  <2>3. ASSUME n \div rate = 7 PROVE 7 \in octet'[e] \/ synccount'[e] = 0
    <3>1. PICK d : octet'[e] = {0} \cup d \cup Status(e, 7)
      BY <2>0, <2>3 DEF Octets, ELine
    <3>2. Status(e, 7) = rts[e]
      BY DEF Status
    <3>3. CASE rts[e] = {7}
      BY <3>1, <3>2, <3>3
    <3>4. CASE rts[e] = {}
      BY <3>4, SyncStays DEF Lifted
    <3>5. QED
      BY <3>3, <3>4, EndTyped DEF Bit7
  <2>4. QED
    BY <1>2, <2>1, <2>2, <2>3 DEF Whole
<1>5. QED
  BY <1>3, <1>4

\* An end in step that gets its chip stays in step.
LEMMA StaysAligned ==
  ASSUME TypeOK, NEW lost, Chip(lost), NEW e \in End, e \notin lost, Whole(Peer(e)), Aligned(e)
  PROVE  Aligned(e)'
<1> DEFINE p == Peer(e)
           c == SentChip(p)
<1>1. p \in End
  BY PeerIs
<1>2. /\ vframe_in_len'[e] = LenAfter(e, c) /\ at'[p] = NextAt(p)
  BY <1>1, Receives, Sends, Zenon
<1>3. at[p] < rate => c = {}
  BY <1>1, ChipHeader
<1>4. NextAt(p) = IF at[p] = FrameChips - 1 THEN 0 ELSE at[p] + 1
  BY <1>1, NextAtIs
<1>5. vframe_in_len[e] = at[p] /\ at[p] \in 0 .. FrameChips - 1
  BY <1>1, EndTyped DEF Aligned
<1>6. LenAfter(e, c) = NextAt(p)
  <2>1. /\ vframe_in_len[e] < rate /\ c \cap HuntBits = {} => LenAfter(e, c) = vframe_in_len[e] + 1
        /\ vframe_in_len[e] >= rate =>
              LenAfter(e, c) = IF vframe_in_len[e] = FrameChips - 1 THEN 0 ELSE vframe_in_len[e] + 1
    BY LenIs
  <2>2. at[p] < rate => c \cap HuntBits = {}
    BY <1>3
  <2> HIDE DEF p, c
  <2>3. QED
    BY <1>4, <1>5, <2>1, <2>2, RateIs
<1>7. QED
  BY <1>2, <1>6 DEF Aligned

\* A frame without data brings the receiver back into step.
LEMMA StepSettles ==
  ASSUME TypeOK, NEW lost, Chip(lost), NEW e \in End, Whole(Peer(e)), Settles(e)
  PROVE  Settles(e)'
<1> DEFINE p == Peer(e)
           c == SentChip(p)
<1>1. p \in End
  BY PeerIs
<1>2. CASE e \in lost
  BY <1>2, Loses DEF Settles
<1>3. CASE e \notin lost
  <2>1. /\ vframe_in_len'[e] = LenAfter(e, c) /\ at'[p] = NextAt(p) /\ rate' = rate
        /\ heard'[e] = Heard(e, FALSE)
    BY <1>1, <1>3, Receives, Sends, Zenon
  <2>2. CASE heard[e] = "frame"
    <3>1. heard'[e] = "frame"
      BY <2>1, <2>2 DEF Heard
    <3>2. Aligned(e)'
      BY <1>3, <2>2, StaysAligned DEF Settles
    <3>3. QED
      BY <3>1, <3>2 DEF Settles
  <2>3. CASE heard[e] = "part"
    <3>1. heard'[e] = "part" \/ (heard'[e] = "idle" /\ at'[p] = 0)
      <4>1. heard'[e] = IF NextAt(p) # 0 THEN "part" ELSE "idle"
        BY <2>1, <2>3 DEF Heard
      <4>2. QED
        BY <2>1, <4>1
    <3>2. at'[p] = 0 => at'[p] <= rate'
      BY <2>1, RateIs
    <3>3. QED
      BY <3>1, <3>2 DEF Settles
  <2>4. CASE heard[e] = "idle" /\ ~NoData(p)
    <3>1. heard'[e] = "part"
      BY <2>1, <2>4 DEF Heard, NoData
    <3>2. QED
      BY <3>1 DEF Settles
  <2>5. CASE heard[e] = "idle" /\ NoData(p)
    <3>1. heard'[e] = IF NextAt(p) = 0 THEN "frame" ELSE "idle"
      BY <2>1, <2>5 DEF Heard, NoData
    <3>2. /\ vframe_in_len[e] < rate /\ c \cap HuntBits # {} => LenAfter(e, c) = 0
          /\ vframe_in_len[e] >= rate =>
                LenAfter(e, c) = IF vframe_in_len[e] = FrameChips - 1 THEN 0 ELSE vframe_in_len[e] + 1
      BY LenIs
    <3>3. NextAt(p) = IF at[p] = FrameChips - 1 THEN 0 ELSE at[p] + 1
      BY <1>1, NextAtIs
    <3>4. at[p] >= rate => c \cap HuntBits # {}
      BY <1>1, <2>5, ChipNoData
    <3>5. vframe_in_len[e] >= at[p] \/ vframe_in_len[e] = 0 \/ at[p] <= rate
      BY <2>5 DEF Settles
    <3>6. at[p] \in 0 .. FrameChips - 1 /\ vframe_in_len[e] \in 0 .. FrameChips - 1
      BY <1>1, EndTyped
    <3>7. /\ NextAt(p) = 0 => LenAfter(e, c) = 0
          /\ LenAfter(e, c) >= NextAt(p) \/ LenAfter(e, c) = 0 \/ NextAt(p) <= rate
      <4> HIDE DEF p, c
      <4>1. QED
        BY <3>2, <3>3, <3>4, <3>5, <3>6, RateIs
    <3>8. QED
      BY <2>1, <3>1, <3>7 DEF Settles, Aligned
  <2>6. QED
    BY <2>2, <2>3, <2>4, <2>5, EndTyped
<1>4. QED
  BY <1>2, <1>3

\* Without leave to send data, an end sends none.
LEMMA StepNoData ==
  ASSUME TypeOK, NEW lost, Chip(lost), NEW e \in End,
         NoData(e), cts[e] = {7}, tail[e] = 0
  PROVE  NoData(e)' /\ tail'[e] = 0
<1> DEFINE n == NextAt(e)
<1>1. /\ rate' = rate /\ at'[e] = n /\ n \in 0 .. FrameChips - 1
      /\ n = IF at[e] = FrameChips - 1 THEN 0 ELSE at[e] + 1
      /\ n % rate # 0 => octet'[e] = octet[e] /\ tail'[e] = tail[e]
      /\ n % rate = 0 =>
           /\ octet'[e] \in Octets(e, n \div rate)
           /\ tail'[e] = IF n \div rate \in {0, ELine} THEN tail[e]
                         ELSE IF cts[e] = {} THEN MaxTail
                         ELSE IF tail[e] > 0 THEN tail[e] - 1 ELSE 0
  BY Sends, NextAtIs, Zenon
<1>2. SentLine(e)' = n \div rate
  BY <1>1 DEF SentLine
<1>3. ~MayCarry(e)
  BY DEF MayCarry
<1>4. CASE n % rate # 0
  <2>1. n \div rate = SentLine(e)
    <3>1. at[e] \in 0 .. FrameChips - 1
      BY EndTyped
    <3> HIDE DEF n
    <3>2. CASE rate = 1 /\ FrameChips = 10
      BY <1>1, <1>4, <3>1, <3>2
    <3>3. CASE rate = 2 /\ FrameChips = 20
      BY <1>1, <1>4, <3>1, <3>3 DEF SentLine
    <3>4. CASE rate = 4 /\ FrameChips = 40
      BY <1>1, <1>4, <3>1, <3>4 DEF SentLine
    <3>5. QED
      BY <3>2, <3>3, <3>4, RateIs
  <2> HIDE DEF n
  <2>2. QED
    BY <1>1, <1>2, <1>4, <2>1 DEF NoData
<1>5. CASE n % rate = 0
  <2> HIDE DEF n
  <2>1. n \div rate \notin {0, ELine} => Idle \subseteq octet'[e]
    BY <1>1, <1>3, <1>5 DEF Octets
  <2>2. NoData(e)'
    BY <1>2, <2>1 DEF NoData
  <2>3. tail'[e] = 0
    BY <1>1, <1>5
  <2>4. QED
    BY <2>2, <2>3
<1>6. QED
  BY <1>4, <1>5

\* The other end's first frame: the receiver stays behind, then meets its end.
LEMMA QuietEnds ==
  ASSUME TypeOK, NEW lost, Chip(lost), NEW e \in End, e \notin lost, Whole(Peer(e)), Quiet(e)
  PROVE  Aligned(e)' \/ Quiet(e)'
<1> DEFINE p == Peer(e)
           c == SentChip(p)
<1>1. p \in End
  BY PeerIs
<1>2. /\ vframe_in_len'[e] = LenAfter(e, c) /\ at'[p] = NextAt(p) /\ rate' = rate
  BY <1>1, Receives, Sends, Zenon
<1>3. /\ vframe_in_len[e] < rate /\ c \cap HuntBits # {} => LenAfter(e, c) = 0
      /\ vframe_in_len[e] < rate /\ c \cap HuntBits = {} => LenAfter(e, c) = vframe_in_len[e] + 1
  BY LenIs
<1>4. /\ NextAt(p) \in 0 .. FrameChips - 1
      /\ NextAt(p) = IF at[p] = FrameChips - 1 THEN 0 ELSE at[p] + 1
  BY <1>1, NextAtIs
<1>5. /\ at[p] < rate => c \cap HuntBits = {}
      /\ at[p] >= rate => c \cap HuntBits # {}
  BY <1>1, ChipHeader, ChipNoData DEF Quiet
<1>6. /\ at[p] \in 0 .. FrameChips - 1 /\ vframe_in_len[e] \in 0 .. FrameChips - 1
      /\ vframe_in_len[p] \in 0 .. FrameChips - 1
  BY <1>1, EndTyped
<1>7. /\ vframe_in_len[e] < at[p] /\ (vframe_in_len[e] = 0 \/ at[p] <= rate)
      /\ NoData(p) /\ cts[p] = {7} /\ tail[p] = 0 /\ synccount[p] = SyncFrames
      /\ vframe_in_len[p] <= at[p]
  BY DEF Quiet
<1>8. /\ NextAt(p) = 0 => LenAfter(e, c) = 0
      /\ NextAt(p) # 0 => LenAfter(e, c) < NextAt(p) /\ (LenAfter(e, c) = 0 \/ NextAt(p) <= rate)
  <2> HIDE DEF p, c
  <2>1. QED
    BY <1>3, <1>4, <1>5, <1>6, <1>7, RateIs
<1>9. CASE NextAt(p) = 0
  BY <1>2, <1>8, <1>9 DEF Aligned
<1>10. CASE NextAt(p) # 0
  <2>1. vframe_in_len[p] < FrameChips - 1
    <3> HIDE DEF p, c
    <3>1. QED
      BY <1>4, <1>6, <1>7, <1>10, RateIs
  <2>2. cts'[p] = {7} /\ synccount'[p] = SyncFrames
    <3>1. ~Completes(p)
      BY <1>6, <2>1, RateIs DEF Completes
    <3>2. QED
      BY <1>1, <1>7, <3>1, SyncStays
  <2>3. vframe_in_len'[p] <= NextAt(p)
    <3>1. vframe_in_len'[p] = vframe_in_len[p] \/ (\E d : vframe_in_len'[p] = LenAfter(p, d))
      <4>1. CASE p \in lost
        BY <1>1, <4>1, Loses
      <4>2. CASE p \notin lost
        <5>1. vframe_in_len'[p] = LenAfter(p, SentChip(Peer(p)))
          BY <1>1, <4>2, Receives, Zenon
        <5>2. QED
          BY <5>1, Zenon
      <4>3. QED
        BY <4>1, <4>2
    <3>2. \A d : LenAfter(p, d) = 0 \/ LenAfter(p, d) = vframe_in_len[p] + 1
      <4>1. TAKE d
      <4>2. /\ vframe_in_len[p] < rate /\ d \cap HuntBits # {} => LenAfter(p, d) = 0
            /\ vframe_in_len[p] < rate /\ d \cap HuntBits = {} => LenAfter(p, d) = vframe_in_len[p] + 1
            /\ vframe_in_len[p] >= rate =>
                 LenAfter(p, d) = IF vframe_in_len[p] = FrameChips - 1 THEN 0 ELSE vframe_in_len[p] + 1
        BY <1>1, LenIs
      <4> HIDE DEF p, c
      <4>3. QED
        BY <1>6, <4>2, RateIs
    <3> HIDE DEF p, c
    <3>3. QED
      BY <1>4, <1>6, <1>7, <1>10, <3>1, <3>2, RateIs
  <2>4. NoData(p)' /\ tail'[p] = 0
    BY <1>1, <1>7, StepNoData
  <2>5. QED
    BY <1>2, <1>8, <1>10, <2>2, <2>3, <2>4 DEF Quiet
<1>11. QED
  BY <1>9, <1>10

\* The last bit of line 7: flow control is on, or the sender is synchronised.
LEMMA ChipFlow ==
  ASSUME TypeOK, NEW e \in End, Whole(e), at[e] = 8 * rate - 1, synccount[e] # 0
  PROVE  7 \in {(at[e] % rate) * ChipBits + i : i \in SentChip(e)}
<1>1. at[e] \in 0 .. FrameChips - 1
  BY EndTyped
<1>2. 7 \in octet[e]
  <2>1. at[e] \in 7 * rate .. 8 * rate - 1
    BY RateIs
  <2>2. QED
    BY <1>1, <2>1, LineIs DEF Whole, SentLine
<1>3. at[e] % rate = rate - 1
  BY RateIs
<1>4. ChipBits - 1 + (rate - 1) * ChipBits = 7 /\ ChipBits - 1 \in 0 .. ChipBits - 1
  BY RateIs
<1>5. ChipBits - 1 \in SentChip(e)
  BY <1>2, <1>3, <1>4 DEF SentChip
<1>6. (at[e] % rate) * ChipBits + (ChipBits - 1) = 7
  BY <1>3, RateIs
<1>7. QED
  BY <1>5, <1>6

\* What an end that lost nothing knows stays true.
LEMMA StepFollows ==
  ASSUME TypeOK, NEW lost, Chip(lost), NEW e \in End, Whole(Peer(e)), Follows(e)
  PROVE  Follows(e)'
<1> DEFINE p == Peer(e)
           c == SentChip(p)
<1>1. p \in End
  BY PeerIs
<1>2. losing'[e] => slips'[e] > 0
  <2>1. CASE e \in lost
    BY <2>1, Loses, EndTyped DEF Follows
  <2>2. CASE e \notin lost
    BY <2>2, Receives
  <2>3. QED
    BY <2>1, <2>2
<1>3. ASSUME slips'[e] = 0
      PROVE  e \notin lost /\ slips[e] = 0
  BY <1>2, <1>3, SyncStays
<1>4. ASSUME slips'[e] = 0
      PROVE  Aligned(e)' \/ Quiet(e)'
  BY <1>3, <1>4, StaysAligned, QuietEnds DEF Follows
<1>5. synccount[p] = 0 => synccount'[p] = 0
  BY <1>1, SyncStays
<1>6. rate' = rate
  BY Sends
<1>7. /\ vframe_in_len[e] < rate /\ c \cap HuntBits # {} => LenAfter(e, c) = 0
      /\ vframe_in_len[e] < rate /\ c \cap HuntBits = {} => LenAfter(e, c) = vframe_in_len[e] + 1
      /\ vframe_in_len[e] >= rate =>
           LenAfter(e, c) = IF vframe_in_len[e] = FrameChips - 1 THEN 0 ELSE vframe_in_len[e] + 1
  BY LenIs
<1>8. at[p] \in 0 .. FrameChips - 1 /\ vframe_in_len[e] \in 0 .. FrameChips - 1
  BY <1>1, EndTyped
<1>9. ASSUME slips[e] = 0, vframe_in_len[e] >= rate
      PROVE  Aligned(e)
  <2>1. ~Quiet(e)
    <3>1. ~(vframe_in_len[e] < at[p] /\ (vframe_in_len[e] = 0 \/ at[p] <= rate))
      <4> HIDE DEF p, c
      <4>1. QED
        BY <1>8, <1>9, RateIs
    <3>2. QED
      BY <3>1 DEF Quiet
  <2>2. QED
    BY <1>9, <2>1 DEF Follows
<1>10. ASSUME slips'[e] = 0, vframe_in_len'[e] >= 8 * rate
       PROVE  flow'[e] # {} \/ synccount'[p] = 0
  <2>1. /\ vframe_in_len'[e] = LenAfter(e, c)
        /\ flow'[e] = IF Completes(e) THEN {} ELSE Collect(e, c).flow
    BY <1>3, <1>10, Receives
  <2>2. /\ vframe_in_len[e] # FrameChips - 1 /\ vframe_in_len[e] >= 8 * rate - 1
        /\ vframe_in_len[e] >= rate
    <3> HIDE DEF p, c
    <3>1. QED
      BY <1>7, <1>8, <1>10, <2>1, RateIs
  <2>3. Aligned(e)
    BY <1>3, <1>9, <1>10, <2>2
  <2>4. ~Completes(e) /\ ~Hunting(e)
    <3>1. ~(vframe_in_len[e] < rate)
      BY <1>8, <2>2, RateIs
    <3>2. QED
      BY <2>2, <3>1 DEF Completes, Hunting
  <2>5. flow'[e] = IF vframe_in_len[e] \div rate = 7
                   THEN flow[e] \cup ({(vframe_in_len[e] % rate) * ChipBits + i : i \in c} \cap {7})
                   ELSE flow[e]
    BY <2>1, <2>4, CollectIs, Zenon
  <2>6. CASE vframe_in_len[e] = 8 * rate - 1
    <3>1. synccount[p] # 0 => 7 \in {(vframe_in_len[e] % rate) * ChipBits + i : i \in c}
      BY <1>1, <2>3, <2>6, ChipFlow DEF Aligned
    <3>2. vframe_in_len[e] \div rate = 7
      <4>1. vframe_in_len[e] \in 7 * rate .. 8 * rate - 1
        BY <2>6, RateIs
      <4>2. QED
        BY <1>8, <4>1, LineIs
    <3> HIDE DEF p, c
    <3>3. QED
      BY <1>5, <2>5, <3>1, <3>2
  <2>7. CASE vframe_in_len[e] >= 8 * rate
    <3>1. vframe_in_len[e] \div rate # 7
      <4>1. vframe_in_len[e] \notin 7 * rate .. 8 * rate - 1
        BY <1>8, <2>7, RateIs
      <4>2. QED
        BY <1>8, <4>1, LineIs
    <3>2. flow[e] # {} \/ synccount[p] = 0
      BY <1>3, <1>10, <2>3, <2>7 DEF Follows
    <3>3. QED
      BY <1>5, <2>5, <3>1, <3>2
  <2>8. QED
    BY <1>8, <2>2, <2>6, <2>7, RateIs
<1>11. ASSUME slips'[e] = 0, MayCarry(e)'
       PROVE  synccount'[p] = 0
  <2>1. CASE MayCarry(e)
    BY <1>3, <1>5, <1>11, <2>1 DEF Follows
  <2>2. CASE ~MayCarry(e)
    <3>1. tail'[e] = 0
      <4>1. tail[e] = 0 /\ cts[e] # {}
        BY <2>2, EndTyped DEF MayCarry
      <4>2. QED
        BY <4>1, Sends
    <3>2. cts'[e] = {} /\ cts[e] # {}
      BY <1>11, <2>2, <3>1 DEF MayCarry
    <3>3. Accepts(e, c) /\ Collect(e, c).flow = {}
      BY <1>3, <1>11, <3>2, Receives
    <3>4. Completes(e)
      BY <3>3 DEF Accepts
    <3>5. vframe_in_len[e] = FrameChips - 1 /\ ~Hunting(e) /\ vframe_in_len[e] >= rate
      BY <3>4, CompletesIs
    <3>6. Aligned(e)
      BY <1>3, <1>9, <1>11, <3>5
    <3>7. vframe_in_len[e] >= 8 * rate
      BY <3>5, RateIs
    <3>8. vframe_in_len[e] \div rate # 7
      <4>1. vframe_in_len[e] \notin 7 * rate .. 8 * rate - 1
        BY <1>8, <3>7, RateIs
      <4>2. QED
        BY <1>8, <4>1, LineIs
    <3>9. flow[e] = {}
      BY <3>3, <3>5, <3>8, CollectIs, Zenon
    <3>10. QED
      BY <1>3, <1>5, <1>11, <3>6, <3>7, <3>9 DEF Follows
  <2>3. QED
    BY <2>1, <2>2
<1>12. QED
  BY <1>2, <1>4, <1>6, <1>10, <1>11 DEF Follows

\* A header's chip does not pass for the first part of a line.
LEMMA HeaderFails ==
  ASSUME TypeOK, NEW e \in End, Whole(Peer(e)), ~Hunting(e),
         at[Peer(e)] < rate, Collect(e, SentChip(Peer(e))).ok
  PROVE  vframe_in_len[e] % rate # 0
<1> DEFINE n == vframe_in_len[e]
           c == SentChip(Peer(e))
<1>1. c = {}
  BY PeerIs, ChipHeader
<1>2. Checks(n \div rate, {(n % rate) * ChipBits + i : i \in c}, (n % rate) * ChipBits)
  BY CollectIs, Zenon
<1>3. {(n % rate) * ChipBits + i : i \in c} = {}
  BY <1>1
<1>4. ASSUME n % rate = 0 PROVE FALSE
  <2>1. (n % rate) * ChipBits = 0
    BY <1>4, RateIs
  <2>2. Checks(n \div rate, {}, 0)
    BY <1>2, <1>3, <2>1
  <2>3. 0 + ChipBits - 1 \in Nat /\ 0 \in 0 .. 0 + ChipBits - 1 /\ 0 \in 0 .. 3
    BY RateIs
  <2>4. QED
    BY <2>2, <2>3 DEF Checks
<1>5. QED
  BY <1>4

\* A later part of the E-bits does not pass for their first.
LEMMA EBitsFail ==
  ASSUME TypeOK, NEW e \in End, Whole(Peer(e)), vframe_in_len[e] = 5 * rate,
         at[Peer(e)] \in 5 * rate + 1 .. 6 * rate - 1
  PROVE  ~Collect(e, SentChip(Peer(e))).ok
<1> DEFINE n == vframe_in_len[e]
           c == SentChip(Peer(e))
<1>1. 1 \in c
  BY PeerIs, ChipE
<1>2. n \div rate = ELine /\ (n % rate) * ChipBits = 0 /\ ~Hunting(e)
  <2>1. n \in 0 .. FrameChips - 1 /\ n \in 5 * rate .. 6 * rate - 1
    BY RateIs
  <2>2. n \div rate = ELine
    BY <2>1, LineIs
  <2>3. n % rate = 0
    BY RateIs
  <2>4. QED
    BY <2>2, <2>3, RateIs DEF Hunting
<1>3. SUFFICES ASSUME Checks(ELine, {0 + i : i \in c}, 0) PROVE FALSE
  <2>1. Collect(e, c).ok =>
          Checks(n \div rate, {(n % rate) * ChipBits + i : i \in c}, (n % rate) * ChipBits)
    BY <1>2, CollectIs, Zenon
  <2>2. QED
    BY <1>2, <1>3, <2>1
<1>4. 1 \in {0 + i : i \in c}
  BY <1>1
<1>5. 1 \in 0 .. 3 /\ 1 \in 0 .. 0 + ChipBits - 1
  BY RateIs
<1>6. QED
  BY <1>3, <1>4, <1>5 DEF Checks

\* A frame of the receiver's own making that the sender's header runs into ends there.
LEMMA HeaderEnds ==
  ASSUME TypeOK, NEW l \in 0 .. FrameChips - 1, NEW a \in 0 .. rate - 1,
         a < l, rate <= l, l % rate # 0,
         \A x \in rate .. l - 1 : l - a <= x => x % rate # 0
  PROVE  a + 1 < rate
<1>1. ASSUME a = rate - 1 PROVE FALSE
  <2>1. CASE rate = 1 /\ FrameChips = 10
    BY <2>1
  <2>2. CASE rate = 2 /\ FrameChips = 20
    BY <1>1, <2>2
  <2>3. CASE rate = 4 /\ FrameChips = 40
    <3>1. l % 4 \in 1 .. 3
      BY <2>3
    <3>2. /\ l - (l % 4) \in 4 .. l - 1 /\ (l - (l % 4)) % 4 = 0 /\ l - 3 <= l - (l % 4)
      BY <2>3, <3>1
    <3>3. QED
      BY <1>1, <2>3, <3>2
  <2>4. QED
    BY <2>1, <2>2, <2>3, RateIs
<1>2. QED
  BY <1>1, RateIs

\* A frame of the receiver's own making has a check still to fail.
LEMMA StepChecked ==
  ASSUME TypeOK, NEW lost, Chip(lost), NEW e \in End, Whole(Peer(e)), Checked(e)
  PROVE  Checked(e)'
<1> DEFINE p == Peer(e)
           c == SentChip(p)
           l == vframe_in_len[e]
           a == at[p]
           m == LenAfter(e, c)
           b == NextAt(p)
<1>1. p \in End
  BY PeerIs
<1>2. rate' = rate /\ at'[p] = b
  BY <1>1, Sends, Zenon
<1>3. CASE e \in lost
  <2>1. vframe_in_len'[e] = l /\ (gap'[e] <=> ~Hunting(e))
    BY <1>3, Loses, Zenon
  <2>2. Hunting(e)' <=> Hunting(e)
    BY <1>2, <2>1 DEF Hunting
  <2>3. QED
    BY <2>1, <2>2 DEF Checked
<1>4. CASE e \notin lost
  <2>1. /\ vframe_in_len'[e] = m
        /\ ok'[e] <=> Completes(e) \/ Collect(e, c).ok
        /\ gap'[e] <=> gap[e] /\ ~Completes(e)
    BY <1>4, Receives, Zenon
  <2>2. SUFFICES ASSUME ok'[e], ~gap'[e], ~Hunting(e)'
                 PROVE  Aligned(e)' \/ Doomed(e)'
    BY DEF Checked
  <2>3. a \in 0 .. FrameChips - 1 /\ l \in 0 .. FrameChips - 1
    BY <1>1, EndTyped
  <2>4. b \in 0 .. FrameChips - 1 /\ b = IF a = FrameChips - 1 THEN 0 ELSE a + 1
    BY <1>1, NextAtIs
  <2>5. /\ l < rate => m = 0 \/ m = l + 1
        /\ l >= rate => m = IF l = FrameChips - 1 THEN 0 ELSE l + 1
    BY LenIs
  <2>6. m >= rate
    <3>1. ~(m < rate)
      BY <1>2, <2>1, <2>2 DEF Hunting
    <3> HIDE DEF m, l
    <3>2. QED
      BY <2>3, <2>5, <3>1, RateIs
  <2>7. m = l + 1 /\ l # FrameChips - 1 /\ l >= rate - 1
    <3> HIDE DEF m, l, b, a
    <3>1. QED
      BY <2>3, <2>5, <2>6, RateIs
  <2>8. ~gap[e] /\ Collect(e, c).ok
    <3>1. ~Completes(e)
      BY <2>7 DEF Completes
    <3>2. QED
      BY <2>1, <2>2, <3>1, Zenon
  <2>9. SUFFICES \/ m = b
                 \/ m < b /\ (b - m < rate => m <= 5 * rate)
                 \/ /\ b < rate /\ b < m /\ m - b <= 9 * rate
                    /\ \A x \in rate .. m - 1 : m - b <= x => x % rate # 0
    BY <1>2, <2>1 DEF Aligned, Doomed
  <2>10. CASE l = rate - 1
    <3> HIDE DEF m, l, b, a
    <3>1. QED
      BY <2>3, <2>4, <2>7, <2>10, RateIs
  <2>11. CASE l >= rate
    <3>1. ~Hunting(e)
      <4>1. ~(l < rate)
        BY <2>3, <2>11, RateIs
      <4>2. QED
        BY <4>1 DEF Hunting
    <3>2. ok[e]
      BY <2>8, <3>1, CollectIs, Zenon
    <3>3. Aligned(e) \/ Doomed(e)
      BY <2>8, <3>1, <3>2 DEF Checked
    <3>4. CASE l = a
      <4> HIDE DEF m, l, b, a
      <4>1. QED
        BY <2>3, <2>4, <2>7, <3>4
    <3>5. CASE l < a /\ (a - l < rate => l <= 5 * rate)
      <4>1. a - l < rate => l < 5 * rate
        <5>1. ASSUME a - l < rate, l = 5 * rate PROVE FALSE
          <6>1. a \in 5 * rate + 1 .. 6 * rate - 1
            <7> HIDE DEF m, l, b, a
            <7>1. QED
              BY <2>3, <3>5, <5>1, RateIs
          <6>2. QED
            BY <2>8, <5>1, <6>1, EBitsFail
        <5> HIDE DEF m, l, b, a
        <5>2. QED
          BY <2>3, <3>5, <5>1, RateIs
      <4> HIDE DEF m, l, b, a
      <4>2. CASE a # FrameChips - 1
        BY <2>3, <2>4, <2>7, <3>5, <4>1, <4>2, RateIs
      <4>3. CASE a = FrameChips - 1
        BY <2>3, <2>4, <2>7, <3>5, <4>1, <4>3, RateIs
      <4>4. QED
        BY <4>2, <4>3
    <3>6. CASE /\ a < rate /\ a < l /\ l - a <= 9 * rate
               /\ \A x \in rate .. l - 1 : l - a <= x => x % rate # 0
      <4>1. l % rate # 0
        BY <2>8, <3>1, <3>6, HeaderFails
      <4> HIDE DEF m, l, b, a
      <4>2. a \in 0 .. rate - 1
        BY <2>3, <3>6, RateIs
      <4>3. a + 1 < rate
        BY <2>3, <2>11, <3>6, <4>1, <4>2, HeaderEnds
      <4>4. b = a + 1
        BY <2>3, <2>4, <4>3, RateIs
      <4>5. \A x \in rate .. m - 1 : m - b <= x => x % rate # 0
        <5>1. TAKE x \in rate .. m - 1
        <5>2. x = l \/ x \in rate .. l - 1
          BY <2>3, <2>7, <5>1, RateIs
        <5>3. m - b = l - a
          BY <2>3, <2>7, <4>4
        <5>4. QED
          BY <3>6, <4>1, <5>2, <5>3
      <4>6. b < rate /\ b < m /\ m - b <= 9 * rate
        BY <2>3, <2>7, <3>6, <4>3, <4>4, RateIs
      <4>7. QED
        BY <4>5, <4>6
    <3>7. QED
      BY <3>3, <3>4, <3>5, <3>6 DEF Aligned, Doomed
  <2>12. QED
    BY <2>3, <2>7, <2>10, <2>11, RateIs
<1>5. QED
  BY <1>3, <1>4

\* Types through a step.
LEMMA StepTyped ==
  ASSUME TypeOK, NEW lost \in SUBSET MayLose, Chip(lost)
  PROVE  TypeOK'
<1>1. ASSUME NEW e \in End
      PROVE  /\ at'[e] \in 0 .. FrameChips - 1 /\ octet'[e] \in Octet /\ tail'[e] \in 0 .. MaxTail
  <2> DEFINE n == NextAt(e)
  <2>1. /\ at'[e] = n /\ n \in 0 .. FrameChips - 1
        /\ n % rate # 0 => octet'[e] = octet[e] /\ tail'[e] = tail[e]
        /\ n % rate = 0 =>
             /\ octet'[e] \in Octets(e, n \div rate)
             /\ tail'[e] = IF n \div rate \in {0, ELine} THEN tail[e]
                           ELSE IF cts[e] = {} THEN MaxTail
                           ELSE IF tail[e] > 0 THEN tail[e] - 1 ELSE 0
    BY Sends, NextAtIs, Zenon
  <2> HIDE DEF n
  <2>2. octet[e] \in Octet /\ tail[e] \in 0 .. MaxTail /\ rts[e] \in Bit7 /\ sbit[e] \in Bit7
    BY EndTyped
  <2>3. tail'[e] \in 0 .. MaxTail
    BY <2>1, <2>2 DEF MaxTail
  <2>4. \A line : Octets(e, line) \subseteq Octet
    <3>1. TAKE line
    <3>2. CASE line = 0
      BY <3>2 DEF Octets, ELine, Octet
    <3>3. CASE line = ELine
      BY <3>3 DEF Octets, ELine, Octet
    <3>4. CASE line # 0 /\ line # ELine
      <4>1. ASSUME NEW o \in Octets(e, line) PROVE o \in Octet
        <5>1. PICK d \in DataLines \cup {Idle} : o = {0} \cup d \cup Status(e, line)
          BY <3>4, <4>1 DEF Octets
        <5>2. d \subseteq 1 .. 6
          BY SyncAssumption DEF Idle
        <5>3. Status(e, line) \subseteq {7}
          BY <2>2 DEF Status, Bit7
        <5>4. d \subseteq 0 .. 7 /\ Status(e, line) \subseteq 0 .. 7 /\ {0} \subseteq 0 .. 7
          BY <5>2, <5>3
        <5>5. o \subseteq 0 .. 7
          BY <5>1, <5>4
        <5>6. QED
          BY <5>5 DEF Octet
      <4>2. QED
        BY <4>1
    <3>5. QED
      BY <3>2, <3>3, <3>4
  <2>5. QED
    BY <2>1, <2>2, <2>3, <2>4
<1>2. ASSUME NEW e \in End
      PROVE  /\ vframe_in_len'[e] \in 0 .. FrameChips - 1 /\ flow'[e] \in Bit7
             /\ synccount'[e] \in 0 .. SyncFrames
             /\ cts'[e] \in Bit7 /\ rts'[e] \in Bit7 /\ sbit'[e] \in Bit7
             /\ slips'[e] \in Nat /\ slips'[e] <= MaxSlips[e]
             /\ heard'[e] \in {"part", "idle", "frame"}
  <2>0. /\ vframe_in_len[e] \in 0 .. FrameChips - 1 /\ flow[e] \in Bit7
        /\ synccount[e] \in 0 .. SyncFrames /\ SyncFrames \in Nat
        /\ cts[e] \in Bit7 /\ rts[e] \in Bit7 /\ sbit[e] \in Bit7
        /\ slips[e] \in Nat /\ heard[e] \in {"part", "idle", "frame"}
    BY EndTyped
  <2>1. slips[e] <= MaxSlips[e] /\ MaxSlips[e] \in Nat
    BY SyncAssumption DEF TypeOK
  <2>2. CASE e \in lost
    <3>1. losing[e] \/ slips[e] < MaxSlips[e]
      BY <2>2 DEF MayLose
    <3>2. slips'[e] = slips[e] + IF ~losing[e] THEN 1 ELSE 0
      BY <2>2, Loses
    <3>3. slips'[e] \in Nat /\ slips'[e] <= MaxSlips[e]
      BY <2>0, <2>1, <3>1, <3>2
    <3>4. QED
      BY <2>0, <2>2, <3>3, Loses
  <2>3. CASE e \notin lost
    <3> DEFINE c == SentChip(Peer(e))
    <3>1. /\ vframe_in_len'[e] = LenAfter(e, c)
          /\ flow'[e] = IF Completes(e) THEN {} ELSE Collect(e, c).flow
          /\ synccount'[e] = IF Accepts(e, c) /\ synccount[e] > 0 THEN synccount[e] - 1 ELSE synccount[e]
          /\ cts'[e] = IF Accepts(e, c) /\ synccount[e] = 0 THEN Collect(e, c).flow ELSE cts[e]
          /\ rts'[e] = IF Accepts(e, c) /\ synccount[e] = 1 THEN {} ELSE rts[e]
          /\ sbit'[e] = IF Accepts(e, c) /\ synccount[e] = 1 THEN {} ELSE sbit[e]
          /\ slips'[e] = slips[e] + 0 /\ heard'[e] = Heard(e, FALSE)
      BY <2>3, Receives, Zenon
    <3>2. LenAfter(e, c) \in 0 .. FrameChips - 1 /\ Collect(e, c).flow \in Bit7
      BY LenIs, FlowTyped
    <3>3. heard'[e] \in {"part", "idle", "frame"}
      BY <2>0, <3>1 DEF Heard
    <3> HIDE DEF c
    <3>4. {} \in Bit7
      BY DEF Bit7
    <3>5. synccount'[e] \in 0 .. SyncFrames /\ slips'[e] \in Nat /\ slips'[e] <= MaxSlips[e]
      BY <2>0, <2>1, <3>1
    <3>6. QED
      BY <2>0, <3>1, <3>2, <3>3, <3>4, <3>5
  <2>4. QED
    BY <2>2, <2>3
<1>3. rate' = rate /\ FrameChips' = FrameChips
  BY Sends DEF FrameChips, Chip
<1>4. ASSUME NEW e \in End
      PROVE  ok'[e] \in BOOLEAN /\ gap'[e] \in BOOLEAN /\ losing'[e] \in BOOLEAN
  <2>1. losing' = [x \in End |-> x \in lost]
    BY DEF Chip
  <2>2. gap' = [x \in End |-> IF x \in lost THEN ~Hunting(x) ELSE gap[x] /\ ~Completes(x)]
    BY DEF Chip
  <2>3. CASE e \in lost
    BY <2>1, <2>2, <2>3, Loses, EndTyped
  <2>4. CASE e \notin lost
    <3> DEFINE new == [x \in End |-> IF x \in lost THEN Keep(x) ELSE Take(x, SentChip(Peer(x)))]
    <3>1. ok'[e] = new[e].ok
      BY DEF Chip
    <3>2. new[e] = Take(e, SentChip(Peer(e)))
      BY <2>4
    <3> HIDE DEF new
    <3>3. ok'[e] \in BOOLEAN
      BY <3>1, <3>2, TakesOk, Zenon
    <3>4. losing'[e] \in BOOLEAN
      BY <2>1
    <3>5. gap'[e] = (gap[e] /\ ~Completes(e))
      BY <2>2, <2>4
    <3>6. QED
      BY <3>3, <3>4, <3>5
  <2>5. QED
    BY <2>3, <2>4
<1>5. /\ at' = [x \in End |-> at'[x]] /\ octet' = [x \in End |-> octet'[x]]
      /\ tail' = [x \in End |-> tail'[x]]
      /\ vframe_in_len' = [x \in End |-> vframe_in_len'[x]]
      /\ ok' = [x \in End |-> ok'[x]] /\ flow' = [x \in End |-> flow'[x]]
      /\ synccount' = [x \in End |-> synccount'[x]]
      /\ cts' = [x \in End |-> cts'[x]] /\ rts' = [x \in End |-> rts'[x]]
      /\ sbit' = [x \in End |-> sbit'[x]]
      /\ losing' = [x \in End |-> losing'[x]] /\ slips' = [x \in End |-> slips'[x]]
      /\ gap' = [x \in End |-> gap'[x]] /\ heard' = [x \in End |-> heard'[x]]
  BY DEF Chip
<1>6. rate' \in Rates
  BY <1>3 DEF TypeOK
<1>7. /\ at' \in [End -> 0 .. FrameChips - 1] /\ octet' \in [End -> Octet]
      /\ tail' \in [End -> 0 .. MaxTail]
  BY <1>1, <1>5
<1>8. /\ vframe_in_len' \in [End -> 0 .. FrameChips - 1] /\ flow' \in [End -> Bit7]
      /\ synccount' \in [End -> 0 .. SyncFrames]
  BY <1>2, <1>5
<1>9. cts' \in [End -> Bit7] /\ rts' \in [End -> Bit7] /\ sbit' \in [End -> Bit7]
  BY <1>2, <1>5
<1>10. slips' \in [End -> Nat] /\ heard' \in [End -> {"part", "idle", "frame"}]
  BY <1>2, <1>5
<1>11. ok' \in [End -> BOOLEAN] /\ gap' \in [End -> BOOLEAN] /\ losing' \in [End -> BOOLEAN]
  BY <1>4, <1>5
<1>12. \A e \in End : slips'[e] <= MaxSlips[e]
  BY <1>2
<1>13. QED
  BY <1>3, <1>6, <1>7, <1>8, <1>9, <1>10, <1>11, <1>12, Zenon DEF TypeOK

\* The invariant holds at the start.
LEMMA InitInv == Init => IInv
<1> SUFFICES ASSUME Init PROVE IInv
  OBVIOUS
<1>1. PICK start \in Starts :
        /\ start < FrameChips
        /\ at = [e \in End |-> IF e = "a" THEN 0 ELSE start]
  BY DEF Init
<1>2. /\ rate \in Rates /\ rate \in {1, 2, 4} /\ SyncFrames \in Nat /\ SyncFrames > 0
      /\ start \in Nat
  BY SyncAssumption DEF Init
<1>3. FrameChips \in Nat /\ FrameChips > 8 * rate /\ rate > 0 /\ start \in 0 .. FrameChips - 1
      /\ 0 \in 0 .. FrameChips - 1
  BY <1>1, <1>2 DEF FrameChips
<1>4. /\ octet = [e \in End |-> CASE at[e] \div rate = 0 -> {}
                                 [] at[e] \div rate = ELine -> 0 .. 7 \ {1}
                                 [] OTHER -> 0 .. 7]
      /\ tail = [e \in End |-> 0] /\ vframe_in_len = [e \in End |-> 0]
      /\ ok = [e \in End |-> TRUE] /\ flow = [e \in End |-> {}]
      /\ synccount = [e \in End |-> SyncFrames]
      /\ cts = [e \in End |-> {7}] /\ rts = [e \in End |-> {7}] /\ sbit = [e \in End |-> {7}]
      /\ losing = [e \in End |-> FALSE] /\ slips = [e \in End |-> 0]
      /\ gap = [e \in End |-> FALSE] /\ heard = [e \in End |-> "part"]
  BY DEF Init
<1>5. ASSUME NEW e \in End
      PROVE  /\ at[e] \div rate = 0 => octet[e] = {}
             /\ at[e] \div rate = ELine => octet[e] = 0 .. 7 \ {1}
             /\ at[e] \div rate \notin {0, ELine} => octet[e] = 0 .. 7
  <2>1. octet[e] = CASE at[e] \div rate = 0 -> {}
                     [] at[e] \div rate = ELine -> 0 .. 7 \ {1}
                     [] OTHER -> 0 .. 7
    BY <1>4
  <2>2. QED
    BY <2>1 DEF ELine
<1>6. octet \in [End -> Octet]
  <2>1. octet = [e \in End |-> octet[e]]
    BY <1>4
  <2>2. \A e \in End : octet[e] \in Octet
    BY <1>5 DEF Octet
  <2>3. QED
    BY <2>1, <2>2
<1>7. TypeOK
  <2>1. at \in [End -> 0 .. FrameChips - 1]
    BY <1>1, <1>3
  <2>2. synccount \in [End -> 0 .. SyncFrames] /\ vframe_in_len \in [End -> 0 .. FrameChips - 1]
        /\ tail \in [End -> 0 .. MaxTail]
    BY <1>2, <1>3, <1>4 DEF MaxTail
  <2>3. \A e \in End : slips[e] <= MaxSlips[e]
    BY <1>4, SyncAssumption
  <2>4. QED
    BY <1>2, <1>4, <1>6, <2>1, <2>2, <2>3 DEF TypeOK, Bit7
<1>8. ASSUME NEW e \in End PROVE EndInv(e)
  <2>1. Peer(e) \in End
    BY PeerIs
  <2>2. Whole(e)
    BY <1>5 DEF Whole, SentLine, ELine
  <2>3. Settles(e) /\ Lifted(e)
    BY <1>4 DEF Settles, Lifted
  <2>4. Checked(e)
    BY <1>3, <1>4 DEF Checked, Hunting
  <2>5. Aligned(e) \/ Quiet(e)
    <3>1. CASE at[Peer(e)] = 0
      BY <1>4, <3>1 DEF Aligned
    <3>2. CASE at[Peer(e)] # 0
      <4>1. 0 < at[Peer(e)]
        BY <1>7, <2>1, <3>2, EndTyped, RateIs
      <4>2. NoData(Peer(e))
        BY <1>5, <2>1 DEF NoData, SentLine, Idle
      <4>3. QED
        <5>1. /\ vframe_in_len[e] = 0 /\ cts[Peer(e)] = {7} /\ tail[Peer(e)] = 0
              /\ synccount[Peer(e)] = SyncFrames /\ vframe_in_len[Peer(e)] = 0
          BY <1>4, <2>1
        <5>2. 0 <= at[Peer(e)]
          BY <4>1, <1>7, <2>1, EndTyped, RateIs
        <5>3. QED
          BY <4>1, <4>2, <5>1, <5>2 DEF Quiet
    <3>3. QED
      BY <3>1, <3>2
  <2>6. ~(vframe_in_len[e] >= 8 * rate) /\ ~MayCarry(e)
    <3>1. vframe_in_len[e] = 0 /\ cts[e] = {7} /\ tail[e] = 0
      BY <1>4
    <3>2. ~(0 >= 8 * rate)
      BY <1>7, RateIs
    <3>3. QED
      BY <3>1, <3>2 DEF MayCarry
  <2>7. Follows(e)
    BY <1>4, <2>5, <2>6 DEF Follows
  <2>8. QED
    BY <2>2, <2>3, <2>4, <2>7 DEF EndInv
<1>9. QED
  BY <1>7, <1>8 DEF IInv

\* The invariant is inductive.
LEMMA StepInv == IInv /\ [Next]_vars => IInv'
<1> SUFFICES ASSUME IInv, [Next]_vars PROVE IInv'
  OBVIOUS
<1>1. CASE Next
  <2>1. PICK lost \in SUBSET MayLose : Chip(lost)
    BY <1>1 DEF Next
  <2>2. TypeOK'
    BY <2>1, StepTyped DEF IInv
  <2>3. ASSUME NEW e \in End PROVE EndInv(e)'
    <3>1. Peer(e) \in End
      BY PeerIs
    <3>2. TypeOK /\ EndInv(e) /\ Whole(Peer(e))
      BY <3>1 DEF IInv, EndInv
    <3>3. Whole(e)' /\ Lifted(e)'
      BY <2>1, <3>2, StepWhole, StepLifted DEF EndInv
    <3>4. Settles(e)' /\ Checked(e)' /\ Follows(e)'
      BY <2>1, <3>2, StepSettles, StepChecked, StepFollows DEF EndInv
    <3>5. QED
      BY <3>3, <3>4 DEF EndInv
  <2>4. QED
    BY <2>2, <2>3 DEF IInv
<1>2. CASE UNCHANGED vars
  <2>1. /\ UNCHANGED <<rate, at, octet, tail, vframe_in_len, ok, flow>>
        /\ UNCHANGED <<synccount, cts, rts, sbit, losing, slips, gap, heard>>
    BY <1>2 DEF vars, sender, receiver
  <2>2. TypeOK'
    BY <2>1 DEF IInv, TypeOK, FrameChips
  <2>3. ASSUME NEW e \in End PROVE EndInv(e)'
    <3>1. EndInv(e)
      BY DEF IInv
    <3>2. Whole(e)' /\ Lifted(e)'
      BY <2>1, <3>1 DEF EndInv, Whole, Lifted, SentLine
    <3>3. Settles(e)'
      BY <2>1, <3>1 DEF EndInv, Settles, Aligned
    <3>4. Follows(e)'
      BY <2>1, <3>1 DEF EndInv, Follows, Aligned, Quiet, NoData, SentLine, MayCarry
    <3>5. Checked(e)'
      BY <2>1, <3>1 DEF EndInv, Checked, Doomed, Aligned, Hunting
    <3>6. QED
      BY <3>2, <3>3, <3>4, <3>5 DEF EndInv
  <2>4. QED
    BY <2>2, <2>3 DEF IInv
<1>3. QED
  BY <1>1, <1>2

-----------------------------------------------------------------------------

\* The invariant of every state: what the octet under way holds, where the
\* receiver may be in the frame, and what an end that lost nothing knows.
THEOREM Invariant == Spec => []IInv
  BY InitInv, StepInv, PTL DEF Spec

\* Every variable keeps its type: the position of v110_input_frame_x* stays in
\* the frame, synccount in its range, the signals are bit 7 or nothing.
THEOREM TypeCorrect == Spec => []TypeOK
<1>1. IInv => TypeOK
  BY DEF IInv
<1>2. QED
  BY <1>1, Invariant, PTL

\* One frame without data, however the hunt was led astray before it, leaves the
\* receiver at the chip the other end sends next.
THEOREM IdleFrameAligns == Spec => []IdleAligns
<1>1. IInv => IdleAligns
  BY DEF IInv, EndInv, Settles, IdleAligns
<1>2. QED
  BY <1>1, Invariant, PTL

\* An end that sends data knows that the other one has synchronised, if it lost
\* nothing itself, and is in step, if the other one lost nothing.
THEOREM DataFindsTheOtherEnd == Spec => []DataIsHeard
<1>1. ASSUME IInv, NEW e \in End, MayCarry(Peer(e))
      PROVE  /\ slips[Peer(e)] = 0 => synccount[e] = 0
             /\ slips[e] = 0 => Aligned(e)
  <2>1. Peer(e) \in End /\ Peer(Peer(e)) = e
    BY PeerIs
  <2>2. Follows(e) /\ Follows(Peer(e))
    BY <1>1, <2>1 DEF IInv, EndInv
  <2>3. slips[Peer(e)] = 0 => synccount[e] = 0
    BY <1>1, <2>1, <2>2 DEF Follows
  <2>4. ~Quiet(e)
    BY <1>1 DEF MayCarry, Quiet
  <2>5. QED
    BY <2>2, <2>3, <2>4 DEF Follows
<1>2. IInv => DataIsHeard
  BY <1>1 DEF DataIsHeard
<1>3. QED
  BY <1>2, Invariant, PTL

\* A frame that completes with its checks intact is the sender's.
LEMMA AcceptedIsWhole ==
  ASSUME IInv, NEW e \in End, Accepts(e, SentChip(Peer(e))), ~gap[e]
  PROVE  Aligned(e)
<1> DEFINE l == vframe_in_len[e]
           a == at[Peer(e)]
<1>1. Completes(e) /\ Collect(e, SentChip(Peer(e))).ok
  BY DEF Accepts
<1>2. TypeOK /\ Checked(e) /\ Whole(Peer(e))
  BY PeerIs DEF IInv, EndInv
<1>3. l = FrameChips - 1 /\ ~Hunting(e) /\ l >= rate
  BY <1>1, <1>2, CompletesIs
<1>4. ok[e]
  BY <1>1, <1>2, <1>3, CollectIs, Zenon
<1>5. a \in 0 .. FrameChips - 1 /\ l \in 0 .. FrameChips - 1
  BY <1>2, PeerIs, EndTyped
<1>6. Aligned(e) \/ Doomed(e)
  BY <1>2, <1>3, <1>4 DEF Checked
<1>7. ASSUME Doomed(e) PROVE FALSE
  <2>1. \/ l < a
        \/ /\ a < rate /\ a < l /\ l - a <= 9 * rate
           /\ \A x \in rate .. l - 1 : l - a <= x => x % rate # 0
    BY <1>7 DEF Doomed
  <2>2. CASE l < a
    <3> HIDE DEF l, a
    <3>1. QED
      BY <1>2, <1>3, <1>5, <2>2, RateIs
  <2>3. CASE /\ a < rate /\ a < l /\ l - a <= 9 * rate
             /\ \A x \in rate .. l - 1 : l - a <= x => x % rate # 0
    <3>1. l % rate # 0
      BY <1>1, <1>2, <1>3, <2>3, HeaderFails
    <3> HIDE DEF l, a
    <3>2. a \in 0 .. rate - 1
      BY <1>2, <1>5, <2>3, RateIs
    <3>3. a + 1 < rate
      BY <1>2, <1>3, <1>5, <2>3, <3>1, <3>2, HeaderEnds
    <3>4. QED
      BY <1>2, <1>3, <1>5, <2>3, <3>3, RateIs
  <2>4. QED
    BY <2>1, <2>2, <2>3
<1>8. QED
  BY <1>6, <1>7

\* v110_process_frame's checks let no frame pass that is the end of one and the
\* beginning of the next: what is accepted without a loss in the middle is what
\* the other end sent as a frame.
THEOREM AcceptedFramesAreWhole == Spec => AcceptsWholeFrames
<1> DEFINE Wholly == \A e \in End :
             (Accepts(e, SentChip(Peer(e))) /\ ~losing'[e] /\ ~gap[e]) => Aligned(e)
<1>1. IInv /\ [Next]_vars => [Wholly]_vars
  BY AcceptedIsWhole
<1> HIDE DEF Wholly
<1>2. Spec => [][Wholly]_vars
  BY <1>1, Invariant, PTL DEF Spec
<1>3. QED
  BY <1>2 DEF AcceptsWholeFrames, Wholly
=============================================================================
