---------------------------- MODULE V110RxProofs ----------------------------
(***************************************************************************)
(* The receiving half of a V.110 call, for every length of its ring, every *)
(* input and every way the socket cuts the writes up.  First what holds    *)
(* whatever the far end does: types, and that a character once finished    *)
(* stays.  Then the decoder against a patient far end, one lemma for each  *)
(* kind of octet: fill, a start, six more data bits, a stop bit.  IInv is  *)
(* the inductive invariant.                                                *)
(***************************************************************************)
EXTENDS V110Rx, SequenceTheorems, TLAPS

-----------------------------------------------------------------------------
(* Rings of N entries, as ibuf is: those in use go from index s to e, e not *)
(* included, and one is always left free.                                   *)

\* How many entries lie between s and e.
Dist(N, s, e) == (e + N - s) % N

\* The entry j places behind s.
Slot(N, s, j) == (s + j) % N

\* An index past the end starts over.
LEMMA ModIs ==
  ASSUME NEW N \in Nat, N > 1, NEW x \in 0 .. 2 * N - 1
  PROVE  x % N = IF x < N THEN x ELSE x - N
<1>1. CASE x < N
  BY <1>1
<1>2. CASE x >= N
  <2>1. x - N \in 0 .. N - 1
    BY <1>2
  <2>2. x = N * 1 + (x - N)
    OBVIOUS
  <2>3. QED
    BY <1>2, <2>1, <2>2
<1>3. QED
  BY <1>1, <1>2

\* How far e is behind s, which may lie further on in the array.
LEMMA DistIs ==
  ASSUME NEW N \in Nat, N > 1, NEW s \in 0 .. N - 1, NEW e \in 0 .. N - 1
  PROVE  Dist(N, s, e) = IF e >= s THEN e - s ELSE e + N - s
<1> DEFINE x == e + N - s
<1>1. x \in 0 .. 2 * N - 1
  OBVIOUS
<1> HIDE DEF x
<1>2. x % N = IF x < N THEN x ELSE x - N
  BY <1>1, ModIs
<1>3. QED
  BY <1>2 DEF Dist, x

\* Where the entry j places behind s is in the array.
LEMMA SlotIs ==
  ASSUME NEW N \in Nat, N > 1, NEW s \in 0 .. N - 1, NEW j \in 0 .. N - 1
  PROVE  Slot(N, s, j) = IF s + j < N THEN s + j ELSE s + j - N
<1> DEFINE x == s + j
<1>1. x \in 0 .. 2 * N - 1
  OBVIOUS
<1> HIDE DEF x
<1>2. x % N = IF x < N THEN x ELSE x - N
  BY <1>1, ModIs
<1>3. QED
  BY <1>2 DEF Slot, x

\* The index after e.
LEMMA NextIs ==
  ASSUME NEW N \in Nat, N > 1, NEW e \in 0 .. N - 1
  PROVE  (e + 1) % N = IF e = N - 1 THEN 0 ELSE e + 1
<1>1. e + 1 \in 0 .. 2 * N - 1
  OBVIOUS
<1>2. QED
  BY <1>1, ModIs

-----------------------------------------------------------------------------
\* The entries in use are those from s, and neither e nor, while one is left
\* free, the one behind e is among them.
LEMMA RingFacts ==
  ASSUME NEW N \in Nat, N > 1, NEW s \in 0 .. N - 1, NEW e \in 0 .. N - 1
  PROVE  LET c == Dist(N, s, e)
             n == (e + 1) % N
         IN  /\ c \in 0 .. N - 1 /\ (c = 0 <=> s = e) /\ Slot(N, s, c) = e
             /\ n \in 0 .. N - 1 /\ n # e
             /\ n = s <=> c = N - 1
             /\ n # s => Dist(N, s, n) = c + 1
             /\ \A j \in 0 .. c - 1 : /\ Slot(N, s, j) \in 0 .. N - 1 /\ Slot(N, s, j) # e
                                      /\ n # s => Slot(N, s, j) # n
<1> DEFINE c == Dist(N, s, e)
           n == (e + 1) % N
<1>1. c = IF e >= s THEN e - s ELSE e + N - s
  BY DistIs
<1>2. n = IF e = N - 1 THEN 0 ELSE e + 1
  BY NextIs
<1>3. n \in 0 .. N - 1
  BY <1>2
<1> HIDE DEF c, n
<1>4. Dist(N, s, n) = IF n >= s THEN n - s ELSE n + N - s
  BY <1>3, DistIs
<1>5. c \in 0 .. N - 1 /\ (c = 0 <=> s = e)
  BY <1>1
<1>6. Slot(N, s, c) = e
  <2>1. Slot(N, s, c) = IF s + c < N THEN s + c ELSE s + c - N
    BY <1>5, SlotIs
  <2>2. QED
    BY <1>1, <2>1
<1>7. n # e /\ (n = s <=> c = N - 1) /\ (n # s => Dist(N, s, n) = c + 1)
  BY <1>1, <1>2, <1>4
<1>8. ASSUME NEW j \in 0 .. c - 1
      PROVE  /\ Slot(N, s, j) \in 0 .. N - 1 /\ Slot(N, s, j) # e
             /\ n # s => Slot(N, s, j) # n
  <2>1. j \in 0 .. N - 1
    BY <1>5
  <2>2. Slot(N, s, j) = IF s + j < N THEN s + j ELSE s + j - N
    BY <2>1, SlotIs
  <2>3. QED
    BY <1>1, <1>2, <2>1, <2>2
<1>9. QED
  BY <1>3, <1>5, <1>6, <1>7, <1>8 DEF c, n

\* Entry i is in use if it is nearer to s than e is.
LEMMA EntryInUse ==
  ASSUME NEW N \in Nat, N > 1, NEW s \in 0 .. N - 1, NEW e \in 0 .. N - 1,
         NEW i \in 0 .. N - 1, Dist(N, s, i) < Dist(N, s, e)
  PROVE  i # e /\ ((e + 1) % N # s => i # (e + 1) % N)
<1>1. Dist(N, s, e) \in 0 .. N - 1 /\ Dist(N, s, i) \in 0 .. N - 1
  BY RingFacts
<1>2. i # e
  BY <1>1
<1>3. (e + 1) % N # s => Dist(N, s, (e + 1) % N) = Dist(N, s, e) + 1
  BY RingFacts
<1>4. QED
  BY <1>1, <1>2, <1>3

\* r entries are taken off the front, at most up to the end of the array.
LEMMA RingTaken ==
  ASSUME NEW N \in Nat, N > 1, NEW s \in 0 .. N - 1, NEW e \in 0 .. N - 1, s # e,
         NEW r \in 0 .. (IF e > s THEN e - s ELSE N - s)
  PROVE  LET t == IF s + r = N THEN 0 ELSE s + r
         IN  /\ t \in 0 .. N - 1 /\ Dist(N, t, e) = Dist(N, s, e) - r /\ r <= Dist(N, s, e)
             /\ \A j \in 0 .. r - 1 : Slot(N, s, j) = s + j /\ s + j \in 0 .. N - 1
             /\ \A j \in 0 .. Dist(N, s, e) - r - 1 : Slot(N, t, j) = Slot(N, s, r + j)
             /\ r < (IF e > s THEN e - s ELSE N - s) => t # e
<1> DEFINE t == IF s + r = N THEN 0 ELSE s + r
<1>1. t \in 0 .. N - 1
  OBVIOUS
<1>2. Dist(N, s, e) = IF e >= s THEN e - s ELSE e + N - s
  BY DistIs
<1>3. Dist(N, t, e) = IF e >= t THEN e - t ELSE e + N - t
  BY <1>1, DistIs
<1>4. Dist(N, t, e) = Dist(N, s, e) - r /\ r <= Dist(N, s, e)
  BY <1>2, <1>3
<1>5. Dist(N, s, e) \in 0 .. N - 1
  BY <1>2
<1>6. ASSUME NEW j \in 0 .. r - 1
      PROVE  Slot(N, s, j) = s + j /\ s + j \in 0 .. N - 1
  <2>1. j \in 0 .. N - 1 /\ s + j < N
    OBVIOUS
  <2>2. QED
    BY <2>1, SlotIs
<1>7. ASSUME NEW j \in 0 .. Dist(N, s, e) - r - 1
      PROVE  Slot(N, t, j) = Slot(N, s, r + j)
  <2>1. j \in 0 .. N - 1 /\ r + j \in 0 .. N - 1
    BY <1>5
  <2>2. Slot(N, t, j) = IF t + j < N THEN t + j ELSE t + j - N
    BY <1>1, <2>1, SlotIs
  <2>3. Slot(N, s, r + j) = IF s + (r + j) < N THEN s + (r + j) ELSE s + (r + j) - N
    BY <2>1, SlotIs
  <2>4. QED
    BY <2>1, <2>2, <2>3
<1>8. r < (IF e > s THEN e - s ELSE N - s) => t # e
  OBVIOUS
<1>9. QED
  BY <1>1, <1>4, <1>6, <1>7, <1>8

-----------------------------------------------------------------------------
(* The ring ibuf.                                                           *)

\* The characters that wait, the entry at ibufend and the one behind it.
LEMMA IbufFacts ==
  ASSUME NEW s \in Indices, NEW e \in Indices
  PROVE  LET c == Dist(BufLen, s, e)
             n == (e + 1) % BufLen
         IN  /\ c \in 0 .. BufLen - 1 /\ (c = 0 <=> s = e) /\ Slot(BufLen, s, c) = e
             /\ n \in Indices /\ n # e
             /\ n = s <=> c = BufLen - 1
             /\ n # s => Dist(BufLen, s, n) = c + 1
             /\ \A j \in 0 .. c - 1 : /\ Slot(BufLen, s, j) \in Indices /\ Slot(BufLen, s, j) # e
                                      /\ n # s => Slot(BufLen, s, j) # n
<1>1. BufLen \in Nat /\ BufLen > 1 /\ s \in 0 .. BufLen - 1 /\ e \in 0 .. BufLen - 1
  BY RxAssumption DEF Indices
<1>2. QED
  BY <1>1, RingFacts, ZenonT(30) DEF Indices

\* An entry that waits to be written is none of those an octet may change.
LEMMA IbufInUse ==
  ASSUME NEW s \in Indices, NEW e \in Indices, NEW i \in Indices, Dist(BufLen, s, i) < Dist(BufLen, s, e)
  PROVE  i # e /\ ((e + 1) % BufLen # s => i # (e + 1) % BufLen)
  BY RxAssumption, EntryInUse DEF Indices

\* What is left of the ring when the socket took r characters.
LEMMA IbufTaken ==
  ASSUME NEW s \in Indices, NEW e \in Indices, s # e,
         NEW r \in 0 .. (IF e > s THEN e - s ELSE BufLen - s)
  PROVE  LET t == IF s + r = BufLen THEN 0 ELSE s + r
         IN  /\ t \in Indices /\ Dist(BufLen, t, e) = Dist(BufLen, s, e) - r /\ r <= Dist(BufLen, s, e)
             /\ \A j \in 0 .. r - 1 : Slot(BufLen, s, j) = s + j /\ s + j \in Indices
             /\ \A j \in 0 .. Dist(BufLen, s, e) - r - 1 : Slot(BufLen, t, j) = Slot(BufLen, s, r + j)
             /\ r < (IF e > s THEN e - s ELSE BufLen - s) => t # e
  BY RxAssumption, RingTaken DEF Indices

-----------------------------------------------------------------------------
(* Bits.                                                                    *)

\* What is kept of a character that starts at bit s.
LEMMA FirstBits ==
  ASSUME NEW c \in Octet, NEW s \in 1 .. 5, NEW t,
         \A i \in s + 1 .. 6 : i \in t <=> i - s - 1 \in c, t \subseteq DataBits
  PROVE  Shr(t, s + 1) = c \cap 0 .. 5 - s
<1>1. ASSUME NEW b \in Shr(t, s + 1) PROVE b \in c \cap 0 .. 5 - s
  <2>1. PICK x \in t : x >= s + 1 /\ b = x - (s + 1)
    BY <1>1 DEF Shr
  <2>2. QED
    BY <2>1 DEF DataBits
<1>2. ASSUME NEW b \in c \cap 0 .. 5 - s PROVE b \in Shr(t, s + 1)
  <2>1. b + s + 1 \in s + 1 .. 6 /\ (b + s + 1) - s - 1 = b /\ (b + s + 1) - (s + 1) = b
    BY DEF Octet
  <2>2. b + s + 1 \in t
    BY <2>1
  <2>3. QED
    BY <2>1, <2>2 DEF Shr
<1>3. QED
  BY <1>1, <1>2

\* What the next octet adds to a character of which n - 1 bits are there.
LEMMA MoreBits ==
  ASSUME NEW c \in Octet, NEW n \in 1 .. 8, NEW t, t \subseteq DataBits,
         \A i \in 1 .. 6 : i + n < 10 => (i \in t <=> i + n - 2 \in c)
  PROVE  (c \cap 0 .. n - 2) \cup Byte(Shl(Shr(t, 1), n - 1)) = c \cap 0 .. n + 4
<1>1. ASSUME NEW b \in Byte(Shl(Shr(t, 1), n - 1)) PROVE b \in c \cap 0 .. n + 4
  <2>1. PICK x \in t : b = (x - 1) + (n - 1) /\ b \in 0 .. 7
    BY <1>1 DEF Byte, Shl, Shr
  <2>2. x \in 1 .. 6 /\ x + n < 10 /\ x + n - 2 = b
    BY <2>1 DEF DataBits
  <2>3. QED
    BY <2>1, <2>2
<1>2. ASSUME NEW b \in c, b \in n - 1 .. n + 4 PROVE b \in Byte(Shl(Shr(t, 1), n - 1))
  <2> DEFINE x == b - n + 2
  <2>1. b \in 0 .. 7 /\ x \in 1 .. 6 /\ x + n < 10 /\ x + n - 2 = b /\ (x - 1) + (n - 1) = b /\ x >= 1
    BY <1>2 DEF Octet
  <2> HIDE DEF x
  <2>2. x \in t
    BY <2>1
  <2>3. x - 1 \in Shr(t, 1)
    BY <2>1, <2>2 DEF Shr
  <2>4. (x - 1) + (n - 1) \in Shl(Shr(t, 1), n - 1)
    BY <2>3 DEF Shl
  <2>5. QED
    BY <2>1, <2>4 DEF Byte
<1>3. c \subseteq 0 .. 7
  BY DEF Octet
<1>4. QED
  BY <1>1, <1>2, <1>3

\* Whatever is shifted, an octet comes out.
LEMMA OctetBits ==
  ASSUME NEW t, t \subseteq DataBits
  PROVE  /\ \A k \in Nat : Shr(t, k) \in Octet
         /\ \A d \in Octet, k \in Nat : d \cup Byte(Shl(Shr(t, 1), k)) \in Octet
         /\ {} \in Octet
<1>1. \A k \in Nat : Shr(t, k) \in Octet
  BY DEF Shr, Octet, DataBits
<1>2. \A d \in Octet, k \in Nat : d \cup Byte(Shl(Shr(t, 1), k)) \in Octet
  BY DEF Byte, Octet
<1>3. QED
  BY <1>1, <1>2 DEF Octet

-----------------------------------------------------------------------------
(* Any octet, whatever the far end does.                                    *)

\* An octet changes the entry at ibufend, and the next if it is free.
LEMMA ReceiveTyped ==
  ASSUME TypeOK, NEW t, t \subseteq DataBits, Receive(t)
  PROVE  /\ nextibit' \in 0 .. 9 /\ ibuf' \in [Indices -> Octet] /\ ibufend' \in Indices
         /\ ibufend' = ibufend \/ (ibufend' = Newend /\ Newend # ibufstart)
         /\ \A i \in Indices : i # ibufend /\ i # ibufend' => ibuf'[i] = ibuf[i]
<1>1. /\ nextibit \in 0 .. 9 /\ ibuf \in [Indices -> Octet] /\ ibufend \in Indices /\ ibufstart \in Indices
  BY DEF TypeOK
<1>2. Newend \in Indices /\ Newend # ibufend
  BY <1>1, IbufFacts DEF Newend
<1>3. Grown(t) \in Octet
  <2>1. CASE nextibit < 9 /\ nextibit # 0
    <3>1. nextibit - 1 \in Nat /\ ibuf[ibufend] \in Octet
      BY <1>1, <2>1
    <3>2. QED
      BY <2>1, <3>1, OctetBits DEF Grown
  <2>2. CASE nextibit = 9
    BY <1>1, <2>2 DEF Grown
  <2>3. CASE nextibit = 0
    <3>1. Grown(t) = ibuf[ibufend] \cup Byte(Shl(Shr(t, 1), 0 - 1))
      BY <2>3 DEF Grown
    <3>2. ibuf[ibufend] \in Octet
      BY <1>1
    <3>3. QED
      BY <3>1, <3>2 DEF Byte, Octet
  <2>4. QED
    BY <1>1, <2>1, <2>2, <2>3
<1>4. CASE RecvIdle(t)
  BY <1>1, <1>4 DEF RecvIdle
<1>5. ASSUME NEW char \in Octet, Put(char)
      PROVE  ibuf' \in [Indices -> Octet] /\ \A i \in Indices : i # ibufend => ibuf'[i] = ibuf[i]
  BY <1>1, <1>5 DEF Put
<1>6. CASE RecvStartLast(t)
  BY <1>1, <1>5, <1>6, OctetBits DEF RecvStartLast
<1>7. CASE RecvStart(t)
  <2>1. PICK s \in DataBits \ t : nextibit' = 7 - s /\ Put(Shr(t, s + 1)) /\ ibufend' = ibufend
    BY <1>7 DEF RecvStart
  <2>2. s \in 1 .. 6
    BY DEF DataBits
  <2>3. s + 1 \in Nat /\ 7 - s \in 0 .. 9
    BY <2>2
  <2>4. Shr(t, s + 1) \in Octet
    BY <2>3, OctetBits
  <2>5. QED
    BY <1>1, <1>5, <2>1, <2>3, <2>4
<1>8. CASE RecvMore(t)
  BY <1>1, <1>3, <1>5, <1>8 DEF RecvMore
<1>9. CASE RecvFull(t)
  BY <1>1, <1>3, <1>5, <1>9 DEF RecvFull
<1>10. ASSUME NEW a \in Indices, nextibit > 3, ScanNext(t, a, Grown(t))
       PROVE  /\ nextibit' \in 0 .. 9 /\ ibuf' \in [Indices -> Octet]
              /\ \A i \in Indices : i # ibufend /\ i # a => ibuf'[i] = ibuf[i]
  <2>1. PICK s \in StopBit + 1 .. 7 :
          /\ nextibit' = 7 - s
          /\ ibuf' = [ibuf EXCEPT ![ibufend] = Grown(t),
                                  ![a] = IF s < 6 THEN Shr(t, s + 1) ELSE IF a = ibufend THEN Grown(t) ELSE @]
    BY <1>10 DEF ScanNext
  <2>2. s \in 2 .. 7 /\ s + 1 \in Nat
    BY <1>1, <1>10 DEF StopBit
  <2>3. Shr(t, s + 1) \in Octet
    BY <2>2, OctetBits
  <2> DEFINE g == Grown(t)
             h == Shr(t, s + 1)
             b == [ibuf EXCEPT ![ibufend] = g]
             v == IF s < 6 THEN h ELSE IF a = ibufend THEN g ELSE b[a]
  <2>4. b \in [Indices -> Octet] /\ \A i \in Indices : i # ibufend => b[i] = ibuf[i]
    BY <1>1, <1>3
  <2>5. ibuf' = [b EXCEPT ![a] = v]
    BY <2>1
  <2>6. g \in Octet /\ h \in Octet /\ nextibit' \in 0 .. 9
    BY <1>3, <2>1, <2>2, <2>3
  <2> HIDE DEF g, h, b
  <2>7. v \in Octet
    BY <2>4, <2>6
  <2> HIDE DEF v
  <2>8. QED
    BY <2>4, <2>5, <2>6, <2>7
<1>11. CASE RecvStop(t)
  BY <1>2, <1>10, <1>11 DEF RecvStop
<1>12. CASE RecvNoStop(t)
  BY <1>1, <1>10, <1>12 DEF RecvNoStop
<1>13. QED
  BY <1>4, <1>6, <1>7, <1>8, <1>9, <1>11, <1>12 DEF Receive

\* The octet a step looks at.
LEMMA LineInReceives ==
  ASSUME TypeOK, LineIn
  PROVE  \E at \in StartPlaces : /\ Receive(LineBits(at)) /\ peer' = PeerAfter(at)
                                 /\ LineBits(at) \subseteq DataBits /\ at \in 1 .. 7
<1>1. PICK at \in StartPlaces : Receive(LineBits(at)) /\ peer' = PeerAfter(at)
  BY DEF LineIn
<1>2. Rest \in 0 .. 9
  BY DEF TypeOK, Rest
<1>3. at \in 1 .. 7
  BY <1>2 DEF StartPlaces
<1>4. QED
  BY <1>1, <1>3 DEF LineBits

\* A step on an octet keeps the types and all but two entries of the ring.
LEMMA LineInTyped ==
  ASSUME TypeOK, LineIn
  PROVE  /\ TypeOK'
         /\ ibufend' = ibufend \/ (ibufend' = Newend /\ Newend # ibufstart)
         /\ \A i \in Indices : i # ibufend /\ i # ibufend' => ibuf'[i] = ibuf[i]
<1>1. PICK at \in StartPlaces : /\ Receive(LineBits(at)) /\ peer' = PeerAfter(at)
                                /\ LineBits(at) \subseteq DataBits /\ at \in 1 .. 7
  BY LineInReceives
<1>2. /\ nextibit' \in 0 .. 9 /\ ibuf' \in [Indices -> Octet] /\ ibufend' \in Indices
      /\ ibufend' = ibufend \/ (ibufend' = Newend /\ Newend # ibufstart)
      /\ \A i \in Indices : i # ibufend /\ i # ibufend' => ibuf'[i] = ibuf[i]
  BY <1>1, ReceiveTyped
<1>3. UNCHANGED <<ibufstart, got, input>>
  BY DEF LineIn
<1>4. line' \in 1 .. 9 \ {ELine}
  BY DEF LineIn, NextLine, TypeOK, ELine
<1>5. synccount' \in 0 .. SyncFrames /\ cts' \in Bit7 /\ rts' \in Bit7 /\ sbit' \in Bit7
  BY RxAssumption DEF LineIn, FrameStatus, status, TypeOK, Bit7
<1>6. peer' \in [begun : 0 .. Len(input), bits : 0 .. 9, patient : Patience]
  <2>1. peer.begun \in 0 .. Len(input) /\ peer.bits \in 0 .. 9 /\ peer.patient \in Patience
    BY DEF TypeOK
  <2>2. Len(input) \in Nat
    BY RxAssumption DEF TypeOK
  <2>3. CASE at < 7
    <3>1. at \in Rest + 1 .. 6 /\ peer.begun < Len(input)
      BY <1>1, <2>3 DEF StartPlaces
    <3>2. peer.begun + 1 \in 0 .. Len(input) /\ 7 - at \in 0 .. 9
      BY <1>1, <2>1, <2>2, <3>1
    <3>3. peer' = [peer EXCEPT !.begun = peer.begun + 1, !.bits = 7 - at]
      BY <1>1, <2>3 DEF PeerAfter
    <3> DEFINE b == peer.begun + 1
               n == 7 - at
    <3> HIDE DEF b, n
    <3>4. b \in 0 .. Len(input) /\ n \in 0 .. 9 /\ peer' = [peer EXCEPT !.begun = b, !.bits = n]
      BY <3>2, <3>3 DEF b, n
    <3>5. QED
      BY <3>4 DEF TypeOK
  <2>4. CASE ~(at < 7)
    <3> DEFINE n == IF Rest <= 6 THEN 0 ELSE peer.bits + 6
    <3>1. n \in 0 .. 9
      BY <2>1 DEF Rest
    <3>2. peer' = [peer EXCEPT !.bits = n]
      BY <1>1, <2>4 DEF PeerAfter
    <3> HIDE DEF n
    <3>3. QED
      BY <3>1, <3>2 DEF TypeOK
  <2>5. QED
    BY <2>3, <2>4
<1>7. QED
  BY <1>2, <1>3, <1>4, <1>5, <1>6 DEF TypeOK

\* The write takes what it takes from the front of the ring.
LEMMA FlushTyped ==
  ASSUME TypeOK, Flush
  PROVE  \E r \in 0 .. Want :
           /\ ibufstart # ibufend
           /\ Want = IF ibufend > ibufstart THEN ibufend - ibufstart ELSE BufLen - ibufstart
           /\ got' = got \o [i \in 1 .. r |-> ibuf[ibufstart + i - 1]]
           /\ [i \in 1 .. r |-> ibuf[ibufstart + i - 1]] \in Seq(Octet)
           /\ ibufstart' = IF ibufstart + r = BufLen THEN 0 ELSE ibufstart + r
           /\ rts' = IF r < Want THEN {7} ELSE {}
           /\ UNCHANGED <<line, synccount, cts, sbit, nextibit, ibuf, ibufend, input, peer>>
           /\ TypeOK'
<1>1. PICK r \in 0 .. Want :
        /\ got' = got \o [i \in 1 .. r |-> ibuf[ibufstart + i - 1]]
        /\ ibufstart' = IF ibufstart + r = BufLen THEN 0 ELSE ibufstart + r
        /\ rts' = IF r < Want THEN {7} ELSE {}
  BY DEF Flush
<1>2. UNCHANGED <<line, synccount, cts, sbit, nextibit, ibuf, ibufend, input, peer>>
  BY DEF Flush
<1>3. ibufstart \in Indices /\ ibufend \in Indices /\ ibuf \in [Indices -> Octet] /\ got \in Seq(Octet)
  BY DEF TypeOK
<1>4. /\ ibufstart # ibufend
      /\ Want = IF ibufend > ibufstart THEN ibufend - ibufstart ELSE BufLen - ibufstart
  BY <1>3, RxAssumption DEF Flush, Want, Indices
<1>5. r \in 0 .. (IF ibufend > ibufstart THEN ibufend - ibufstart ELSE BufLen - ibufstart)
  BY <1>4
<1>6. ibufstart' \in Indices /\ \A j \in 0 .. r - 1 : ibufstart + j \in Indices
  BY <1>1, <1>3, <1>4, <1>5, IbufTaken
<1>7. [i \in 1 .. r |-> ibuf[ibufstart + i - 1]] \in Seq(Octet)
  <2>1. r \in Nat
    BY <1>3, <1>5, RxAssumption DEF Indices
  <2>2. ASSUME NEW i \in 1 .. r PROVE ibuf[ibufstart + i - 1] \in Octet
    <3>1. i - 1 \in 0 .. r - 1 /\ ibufstart + (i - 1) = ibufstart + i - 1
      BY <1>3, <2>1 DEF Indices
    <3>2. QED
      BY <1>3, <1>6, <3>1
  <2>3. QED
    BY <2>1, <2>2, IsASeq
<1>8. got' \in Seq(Octet)
  BY <1>1, <1>3, <1>7, ConcatProperties
<1>9. TypeOK'
  BY <1>1, <1>2, <1>6, <1>8 DEF TypeOK, Bit7
<1>10. QED
  BY <1>1, <1>2, <1>4, <1>7, <1>9

-----------------------------------------------------------------------------
(* A patient far end.  CharBit is that of the character under way up to its *)
(* stop bit, then fill, a start bit, and the bits of the next character.    *)

\* Delivered, entry by entry.
Delivered ==
  /\ Len(got) + Count = peer.begun - InFlight
  /\ \A j \in 1 .. Len(got) : got[j] = input[j]
  /\ \A j \in 0 .. Count - 1 : ibuf[Slot(BufLen, ibufstart, j)] = input[Len(got) + j + 1]

\* The character under way has an entry of the ring behind it.
Room == peer.bits # 0 => peer.begun > 0 /\ Count < BufLen - 1

Kept ==
  /\ nextibit = peer.bits
  /\ nextibit # 0 => ibuf[ibufend] = input[peer.begun] \cap 0 .. nextibit - 2

PatientInv == Kept /\ Room /\ Delivered

IInv == TypeOK /\ (peer.patient => PatientInv)

\* The facts of a patient far end's state that a step looks at.
LEMMA PatientFacts ==
  ASSUME TypeOK, PatientInv
  PROVE  /\ nextibit = peer.bits /\ peer.bits \in 0 .. 9
         /\ peer.begun \in 0 .. Len(input) /\ Len(input) \in Nat
         /\ ibufstart \in Indices /\ ibufend \in Indices /\ Newend \in Indices /\ Newend # ibufend
         /\ ibuf \in [Indices -> Octet] /\ got \in Seq(Octet) /\ Len(got) \in Nat
         /\ input \in Seq(Octet)
         /\ Count = Dist(BufLen, ibufstart, ibufend) /\ Count \in 0 .. BufLen - 1
         /\ peer.bits # 0 => /\ input[peer.begun] \in Octet /\ peer.begun > 0 /\ Newend # ibufstart
                             /\ ibuf[ibufend] = input[peer.begun] \cap 0 .. peer.bits - 2
         /\ \A k \in Nat : k < Len(input) => input[k + 1] \in Octet
<1>1. input \in Seq(Octet) /\ Len(input) \in Nat
  BY RxAssumption DEF TypeOK
<1>2. /\ peer.bits \in 0 .. 9 /\ peer.begun \in 0 .. Len(input)
      /\ ibufstart \in Indices /\ ibufend \in Indices /\ ibuf \in [Indices -> Octet] /\ got \in Seq(Octet)
  BY DEF TypeOK
<1>3. Count = Dist(BufLen, ibufstart, ibufend)
  BY DEF Count, Dist
<1>4. Count \in 0 .. BufLen - 1 /\ Newend \in Indices /\ Newend # ibufend
      /\ (Newend = ibufstart <=> Count = BufLen - 1)
  BY <1>2, <1>3, IbufFacts DEF Newend
<1>5. Len(got) \in Nat
  BY <1>2
<1>6. \A k \in Nat : k < Len(input) => input[k + 1] \in Octet
  BY <1>1
<1>7. peer.bits # 0 => input[peer.begun] \in Octet /\ peer.begun > 0 /\ Newend # ibufstart
  BY <1>1, <1>2, <1>4, RxAssumption DEF PatientInv, Room
<1>8. QED
  BY <1>1, <1>2, <1>3, <1>4, <1>5, <1>6, <1>7 DEF PatientInv, Kept

\* What the line has in bits up to the stop bit, and behind it.
LEMMA LineHas ==
  ASSUME TypeOK, NEW at \in StartPlaces
  PROVE  LET t == LineBits(at)
         IN  /\ at \in 1 .. 7 /\ (at < 7 => at > Rest)
             /\ t \subseteq DataBits /\ at \notin t
             /\ \A i \in 1 .. 6 : i <= Rest => (i \in t <=> i + peer.bits = 10 \/ i + peer.bits - 2 \in input[peer.begun])
             /\ \A i \in 1 .. 6 : i > Rest /\ i < at => i \in t
             /\ \A i \in 1 .. 6 : i > at => (i \in t <=> i - at - 1 \in input[peer.begun + 1])
<1>1. peer.bits \in 0 .. 9 /\ Rest = (IF peer.bits = 0 THEN 0 ELSE 10 - peer.bits)
  BY DEF TypeOK, Rest
<1> DEFINE t == LineBits(at)
<1>2. at \in 1 .. 7 /\ (at < 7 => at > Rest)
  BY <1>1 DEF StartPlaces
<1>3. t \subseteq DataBits
  BY DEF LineBits
<1>4. ASSUME NEW i \in 1 .. 6, i <= Rest
      PROVE  i \in t <=> i + peer.bits = 10 \/ i + peer.bits - 2 \in input[peer.begun]
  <2>1. ~(i > at)
    BY <1>1, <1>2, <1>4
  <2>2. i \in t <=> CharBit(input[peer.begun], peer.bits + i - 1)
    BY <1>1, <1>4, <2>1 DEF LineBits, DataBits
  <2>3. (peer.bits + i - 1) - 1 = i + peer.bits - 2 /\ peer.bits + i - 1 \in 1 .. 9
    BY <1>1, <1>4
  <2>4. peer.bits + i - 1 = 9 <=> i + peer.bits = 10
    BY <1>1
  <2>5. ASSUME peer.bits + i - 1 # 9 PROVE peer.bits + i - 1 \in 1 .. 8
    BY <2>3, <2>5
  <2>6. QED
    BY <2>2, <2>3, <2>4, <2>5 DEF CharBit
<1>5. ASSUME NEW i \in 1 .. 6, i > Rest, i < at PROVE i \in t
  BY <1>5 DEF LineBits, DataBits
<1>6. at \notin t
  BY <1>1, <1>2 DEF LineBits, DataBits
<1>7. ASSUME NEW i \in 1 .. 6, i > at
      PROVE  i \in t <=> i - at - 1 \in input[peer.begun + 1]
  <2>1. i > Rest /\ ~(i < at) /\ i - at \in 1 .. 5 /\ (i - at) - 1 = i - at - 1
    BY <1>1, <1>2, <1>7
  <2>2. i \in t <=> CharBit(input[peer.begun + 1], i - at)
    BY <1>1, <1>7, <2>1 DEF LineBits, DataBits
  <2>3. QED
    BY <2>1, <2>2 DEF CharBit
<1>8. QED
  BY <1>2, <1>3, <1>4, <1>5, <1>6, <1>7

-----------------------------------------------------------------------------
(* What each kind of octet makes of the ring.                               *)

\* The character under way goes on, or one begins: no character is finished.
Continues ==
  /\ ibufend' = ibufend
  /\ peer'.begun - InFlight' = peer.begun - InFlight

\* The character under way is finished and its entry is passed on.
Finishes ==
  /\ ibufend' = Newend /\ Newend # ibufstart
  /\ peer.bits # 0 /\ ibuf'[ibufend] = input[peer.begun]
  /\ peer'.begun - InFlight' = peer.begun

\* The decoder keeps what it heard of the character now under way.
KeptNext ==
  /\ nextibit' = peer'.bits
  /\ nextibit' # 0 => ibuf'[ibufend'] = input[peer'.begun] \cap 0 .. nextibit' - 2

\* The peer record after a step.
LEMMA PeerThen ==
  ASSUME TypeOK, NEW at \in StartPlaces, peer' = PeerAfter(at)
  PROVE  /\ peer'.patient = peer.patient
         /\ at < 7 => peer'.begun = peer.begun + 1 /\ peer'.bits = 7 - at
         /\ at = 7 => /\ peer'.begun = peer.begun
                      /\ peer'.bits = (IF Rest <= 6 THEN 0 ELSE peer.bits + 6)
  BY DEF PeerAfter, TypeOK

\* Six ones between two characters are fill.
LEMMA IdleOctet ==
  ASSUME TypeOK, PatientInv, NEW at \in StartPlaces, Receive(LineBits(at)), peer' = PeerAfter(at),
         peer.bits = 0, at = 7
  PROVE  Continues /\ KeptNext
<1> DEFINE t == LineBits(at)
<1>1. Rest = 0 /\ nextibit = 0
  BY PatientFacts DEF Rest
<1>2. t = DataBits
  <2>1. \A i \in 1 .. 6 : i \in t
    BY <1>1, LineHas
  <2>2. QED
    BY <2>1, LineHas DEF DataBits
<1> HIDE DEF t
<1>3. 6 \in DataBits /\ 6 \notin 1 .. 5
  BY DEF DataBits
<1>4. RecvIdle(t)
  BY <1>1, <1>2, <1>3 DEF Receive, RecvStartLast, RecvStart, RecvMore, RecvFull, RecvStop, RecvNoStop, t
<1>5. peer'.begun = peer.begun /\ peer'.bits = 0
  BY <1>1, PeerThen
<1>6. QED
  BY <1>1, <1>4, <1>5 DEF RecvIdle, Continues, KeptNext, InFlight

\* The first zero of the octet is where the far end began a character.
LEMMA StartOctet ==
  ASSUME TypeOK, PatientInv, NEW at \in StartPlaces, Receive(LineBits(at)), peer' = PeerAfter(at),
         peer.bits = 0, at < 7
  PROVE  Continues /\ KeptNext
<1> DEFINE t == LineBits(at)
           c == input[peer.begun + 1]
<1>1. Rest = 0 /\ nextibit = 0 /\ at \in 1 .. 6 /\ peer.begun \in Nat
  BY PatientFacts, LineHas DEF Rest
<1>2. c \in Octet
  <2>1. peer.begun < Len(input)
    BY <1>1 DEF StartPlaces
  <2>2. QED
    BY <1>1, <2>1, PatientFacts
<1>3. /\ t \subseteq 1 .. 6 /\ at \notin t
      /\ \A i \in 1 .. 6 : i < at => i \in t
      /\ \A i \in 1 .. 6 : i > at => (i \in t <=> i - at - 1 \in c)
  BY <1>1, LineHas DEF DataBits
<1>4. peer'.begun = peer.begun + 1 /\ peer'.bits = 7 - at
  BY <1>1, PeerThen
<1>5. peer'.begun - InFlight' = peer.begun - InFlight
  BY <1>1, <1>4 DEF InFlight
<1>6. ibufend \in Indices /\ ibuf \in [Indices -> Octet]
  BY PatientFacts
<1> HIDE DEF c, t
<1>7. CASE at = 6
  <2>1. t = 1 .. 5
    <3>1. \A i \in 1 .. 5 : i \in t
      BY <1>3, <1>7
    <3>2. \A i \in t : i \in 1 .. 6 /\ i # 6
      BY <1>3, <1>7
    <3>3. \A i \in 1 .. 6 : i # 6 => i \in 1 .. 5
      OBVIOUS
    <3>4. QED
      BY <3>1, <3>2, <3>3
  <2>2. RecvStartLast(t)
    BY <1>1, <2>1 DEF Receive, RecvIdle, RecvStart, RecvMore, RecvFull, RecvStop, RecvNoStop, DataBits, t
  <2>3. nextibit' = 1 /\ ibufend' = ibufend /\ ibuf'[ibufend] = {}
    BY <1>6, <2>2 DEF RecvStartLast, Put
  <2>4. QED
    BY <1>4, <1>5, <1>7, <2>3 DEF Continues, KeptNext
<1>8. CASE at \in 1 .. 5
  <2>1. t # DataBits /\ t # 1 .. 5
    <3>1. at \in DataBits /\ at \in 1 .. 5
      BY <1>8 DEF DataBits
    <3>2. QED
      BY <1>3, <3>1
  <2>2. RecvStart(t)
    BY <1>1, <2>1 DEF Receive, RecvIdle, RecvStartLast, RecvMore, RecvFull, RecvStop, RecvNoStop, t
  <2>3. PICK s \in DataBits \ t : 1 .. s - 1 \subseteq t /\ nextibit' = 7 - s /\ Put(Shr(t, s + 1))
    BY <2>2 DEF RecvStart
  <2>4. s = at
    <3>1. s \in 1 .. 6 /\ s \notin t
      BY <2>3 DEF DataBits
    <3>2. ~(s < at)
      BY <1>3, <3>1
    <3>3. ~(at < s)
      <4>1. SUFFICES ASSUME at < s PROVE at \in 1 .. s - 1
        BY <1>3, <2>3
      <4>2. QED
        BY <1>8, <3>1, <4>1
    <3>4. QED
      BY <1>8, <3>1, <3>2, <3>3
  <2>5. Shr(t, at + 1) = c \cap 0 .. 5 - at
    <3>1. \A i \in at + 1 .. 6 : i \in t <=> i - at - 1 \in c
      BY <1>3, <1>8
    <3>2. t \subseteq DataBits
      BY <1>3 DEF DataBits
    <3>3. QED
      BY <1>2, <1>8, <3>1, <3>2, FirstBits
  <2>6. ibufend' = ibufend /\ ibuf'[ibufend] = c \cap 0 .. 5 - at
    BY <1>6, <2>2, <2>3, <2>4, <2>5 DEF RecvStart, Put
  <2>7. nextibit' = 7 - at /\ nextibit' - 2 = 5 - at
    BY <1>8, <2>3, <2>4
  <2>8. QED
    BY <1>4, <1>5, <2>6, <2>7 DEF Continues, KeptNext, c
<1>9. QED
  BY <1>1, <1>7, <1>8

\* Six more bits of a character, its stop bit not yet among them.
LEMMA MoreOctet ==
  ASSUME TypeOK, PatientInv, NEW at \in StartPlaces, Receive(LineBits(at)), peer' = PeerAfter(at),
         peer.bits \in 1 .. 3
  PROVE  Continues /\ KeptNext
<1> DEFINE t == LineBits(at)
           c == input[peer.begun]
           n == peer.bits
<1>1. Rest = 10 - n /\ nextibit = n /\ at = 7
  <2>1. Rest = 10 - n /\ nextibit = n
    BY PatientFacts DEF Rest
  <2>2. at \in 1 .. 7 /\ (at < 7 => at > Rest)
    BY LineHas
  <2> HIDE DEF t
  <2>3. QED
    BY <2>1, <2>2
<1>2. c \in Octet /\ ibuf[ibufend] = c \cap 0 .. n - 2 /\ ibufend \in Indices /\ ibuf \in [Indices -> Octet]
  BY PatientFacts
<1>3. t \subseteq DataBits /\ \A i \in 1 .. 6 : i + n < 10 => (i \in t <=> i + n - 2 \in c)
  BY <1>1, LineHas
<1>4. peer'.begun = peer.begun /\ peer'.bits = n + 6
  BY <1>1, PeerThen
<1>5. n \in 1 .. 3
  OBVIOUS
<1>6. RecvMore(t)
  BY <1>1 DEF Receive, RecvIdle, RecvStartLast, RecvStart, RecvFull, RecvStop, RecvNoStop
<1> HIDE DEF c, t, n
<1>7. Grown(t) = c \cap 0 .. n + 4
  <2>1. n \in 1 .. 8 /\ nextibit < 9
    BY <1>1, <1>5
  <2>2. (c \cap 0 .. n - 2) \cup Byte(Shl(Shr(t, 1), n - 1)) = c \cap 0 .. n + 4
    BY <1>2, <1>3, <2>1, MoreBits
  <2>3. QED
    BY <1>1, <1>2, <2>1, <2>2 DEF Grown
<1>8. nextibit' = n + 6 /\ ibufend' = ibufend /\ ibuf'[ibufend] = c \cap 0 .. n + 4
  BY <1>1, <1>2, <1>6, <1>7 DEF RecvMore, Put
<1>9. (n + 6) - 2 = n + 4 /\ n + 6 # 0 /\ n # 0
  BY <1>5
<1>10. KeptNext
  BY <1>4, <1>8, <1>9 DEF KeptNext, c
<1>11. Continues
  BY <1>4, <1>8, <1>9 DEF Continues, InFlight, n
<1>12. QED
  BY <1>10, <1>11

\* The stop bit, and the first bits of the next character, if one begins.
LEMMA StopOctet ==
  ASSUME ~LateStart, TypeOK, PatientInv, NEW at \in StartPlaces, Receive(LineBits(at)), peer' = PeerAfter(at),
         peer.bits \in 4 .. 9
  PROVE  Finishes /\ KeptNext
<1> DEFINE t == LineBits(at)
           c == input[peer.begun]
           d == input[peer.begun + 1]
           n == peer.bits
<1>1. Rest = 10 - n /\ nextibit = n /\ at \in 1 .. 7 /\ (at < 7 => at > 10 - n) /\ n \in 4 .. 9 /\ at # 6
  BY PatientFacts, LineHas DEF Rest, StartPlaces
<1>2. /\ c \in Octet /\ ibuf[ibufend] = c \cap 0 .. n - 2 /\ ibufend \in Indices /\ ibuf \in [Indices -> Octet]
      /\ Newend \in Indices /\ Newend # ibufend /\ Newend # ibufstart /\ peer.begun \in Nat /\ peer.begun > 0
  BY PatientFacts
<1>3. /\ t \subseteq DataBits /\ at \notin t
      /\ \A i \in 1 .. 6 : i + n < 10 => (i \in t <=> i + n - 2 \in c)
      /\ 10 - n \in t
      /\ \A i \in 1 .. 6 : i > 10 - n /\ i < at => i \in t
      /\ \A i \in 1 .. 6 : i > at => (i \in t <=> i - at - 1 \in d)
  BY <1>1, LineHas
<1>4. RecvStop(t)
  BY <1>1, <1>2, <1>3 DEF Receive, RecvIdle, RecvStartLast, RecvStart, RecvMore, RecvFull, RecvNoStop, StopBit
<1>5. /\ at < 7 => peer'.begun = peer.begun + 1 /\ peer'.bits = 7 - at
      /\ at = 7 => peer'.begun = peer.begun /\ peer'.bits = 0
  BY <1>1, PeerThen
<1>6. at < 7 => d \in Octet
  <2>1. at < 7 => peer.begun < Len(input)
    BY <1>1 DEF StartPlaces
  <2>2. QED
    BY <1>2, <2>1, PatientFacts
<1> HIDE DEF c, d, t, n
<1>7. Grown(t) = c
  <2>1. CASE n = 9
    <3>1. c \cap 0 .. n - 2 = c
      <4>1. n - 2 = 7 /\ c \subseteq 0 .. 7
        BY <1>2, <2>1 DEF Octet
      <4>2. QED
        BY <4>1
    <3>2. QED
      BY <1>1, <1>2, <2>1, <3>1 DEF Grown
  <2>2. CASE n \in 4 .. 8
    <3>1. Grown(t) = c \cap 0 .. n + 4
      <4>1. n \in 1 .. 8 /\ nextibit < 9
        BY <1>1, <2>2
      <4>2. (c \cap 0 .. n - 2) \cup Byte(Shl(Shr(t, 1), n - 1)) = c \cap 0 .. n + 4
        BY <1>2, <1>3, <4>1, MoreBits
      <4>3. QED
        BY <1>1, <1>2, <4>1, <4>2 DEF Grown
    <3>2. c \cap 0 .. n + 4 = c
      <4>1. c \subseteq 0 .. 7
        BY <1>2 DEF Octet
      <4>2. \A x \in 0 .. 7 : x \in 0 .. n + 4
        BY <2>2
      <4>3. QED
        BY <4>1, <4>2
    <3>3. QED
      BY <3>1, <3>2
  <2>3. QED
    BY <1>1, <2>1, <2>2
<1>8. PICK s \in StopBit + 1 .. 7 :
        /\ StopBit + 1 .. s - 1 \subseteq t /\ s \notin t
        /\ nextibit' = 7 - s
        /\ ibuf' = [ibuf EXCEPT ![ibufend] = c,
                                ![Newend] = IF s < 6 THEN Shr(t, s + 1) ELSE IF Newend = ibufend THEN c ELSE @]
  BY <1>4, <1>7 DEF RecvStop, ScanNext
<1>9. s = at
  <2>1. s \in 11 - n .. 7 /\ s \in 2 .. 7
    BY <1>1 DEF StopBit
  <2>2. ~(s < at)
    BY <1>1, <1>3, <1>8, <2>1
  <2>3. ~(at < s)
    <3>1. SUFFICES ASSUME at < s PROVE at \in StopBit + 1 .. s - 1
      BY <1>3, <1>8
    <3>2. QED
      BY <1>1, <2>1, <3>1 DEF StopBit
  <2>4. QED
    BY <1>1, <2>1, <2>2, <2>3
<1>10. ibuf'[ibufend] = c /\ (at < 6 => ibuf'[Newend] = Shr(t, at + 1))
  <2> DEFINE b == [ibuf EXCEPT ![ibufend] = c]
             v == IF s < 6 THEN Shr(t, s + 1) ELSE IF Newend = ibufend THEN c ELSE b[Newend]
  <2>1. ibuf' = [b EXCEPT ![Newend] = v]
    BY <1>8
  <2>2. b \in [Indices -> Octet] /\ b[ibufend] = c
    BY <1>2
  <2> HIDE DEF b, v
  <2>3. ibuf'[ibufend] = c /\ ibuf'[Newend] = v
    BY <1>2, <2>1, <2>2
  <2>4. QED
    BY <1>9, <2>3 DEF v
<1>11. ibufend' = Newend
  BY <1>4 DEF RecvStop
<1>12. CASE at = 7
  <2>1. KeptNext
    BY <1>5, <1>8, <1>9, <1>12 DEF KeptNext
  <2>2. Finishes
    BY <1>1, <1>2, <1>5, <1>10, <1>11, <1>12 DEF Finishes, InFlight, c, n
  <2>3. QED
    BY <2>1, <2>2
<1>13. CASE at \in 2 .. 5
  <2>1. Shr(t, at + 1) = d \cap 0 .. 5 - at
    <3>1. \A i \in at + 1 .. 6 : i \in t <=> i - at - 1 \in d
      BY <1>3, <1>13
    <3>2. QED
      BY <1>3, <1>6, <1>13, <3>1, FirstBits
  <2>2. nextibit' = 7 - at /\ nextibit' - 2 = 5 - at /\ 7 - at # 0 /\ peer'.begun = peer.begun + 1 /\ peer'.bits = 7 - at
    BY <1>5, <1>8, <1>9, <1>13
  <2>3. KeptNext
    BY <1>10, <1>11, <1>13, <2>1, <2>2 DEF KeptNext, d
  <2>4. Finishes
    BY <1>1, <1>2, <1>10, <1>11, <2>2 DEF Finishes, InFlight, c, n
  <2>5. QED
    BY <2>3, <2>4
<1>14. QED
  BY <1>1, <1>12, <1>13

-----------------------------------------------------------------------------
(* The ring between two steps.                                              *)

\* Over an octet, the ring loses nothing and gains the character just finished.
LEMMA LineInDelivers ==
  ASSUME TypeOK, PatientInv, LineIn, Continues \/ Finishes
  PROVE  /\ Delivered'
         /\ Continues => Count' = Count
         /\ Finishes => Count' = Count + 1
<1>1. /\ ibufend' = ibufend \/ (ibufend' = Newend /\ Newend # ibufstart)
      /\ \A i \in Indices : i # ibufend /\ i # ibufend' => ibuf'[i] = ibuf[i]
      /\ TypeOK'
  BY LineInTyped
<1>2. ibufstart' = ibufstart /\ got' = got /\ input' = input
  BY DEF LineIn
<1>3. /\ ibufstart \in Indices /\ ibufend \in Indices /\ Newend \in Indices /\ Newend # ibufend
      /\ Count = Dist(BufLen, ibufstart, ibufend) /\ Count \in 0 .. BufLen - 1 /\ Len(got) \in Nat
  BY PatientFacts
<1>4. Count' = Dist(BufLen, ibufstart, ibufend')
  BY <1>2 DEF Count, Dist
<1>5. \A j \in 0 .. Count - 1 : /\ Slot(BufLen, ibufstart, j) \in Indices /\ Slot(BufLen, ibufstart, j) # ibufend
                                /\ (Newend # ibufstart => Slot(BufLen, ibufstart, j) # Newend)
  BY <1>3, IbufFacts DEF Newend
<1>6. /\ Len(got) + Count = peer.begun - InFlight
      /\ \A j \in 1 .. Len(got) : got[j] = input[j]
      /\ \A j \in 0 .. Count - 1 : ibuf[Slot(BufLen, ibufstart, j)] = input[Len(got) + j + 1]
  BY DEF PatientInv, Delivered
<1>7. \A j \in 0 .. Count - 1 : ibuf'[Slot(BufLen, ibufstart, j)] = input[Len(got) + j + 1]
  <2>1. SUFFICES ASSUME NEW j \in 0 .. Count - 1
                 PROVE  ibuf'[Slot(BufLen, ibufstart, j)] = ibuf[Slot(BufLen, ibufstart, j)]
    BY <1>6
  <2> DEFINE i == Slot(BufLen, ibufstart, j)
  <2>2. i \in Indices /\ i # ibufend /\ (Newend # ibufstart => i # Newend)
    BY <1>3, <1>5, RxAssumption
  <2> HIDE DEF i
  <2>3. ibuf'[i] = ibuf[i]
    BY <1>1, <2>2
  <2>4. QED
    BY <2>3 DEF i
<1>8. CASE Continues
  <2>1. Count' = Count
    BY <1>3, <1>4, <1>8 DEF Continues
  <2>2. peer'.begun - InFlight' = peer.begun - InFlight
    BY <1>8 DEF Continues
  <2>3. Delivered'
    BY <1>2, <1>6, <1>7, <2>1, <2>2 DEF Delivered
  <2>4. ~Finishes
    BY <1>3, <1>8 DEF Continues, Finishes
  <2>5. QED
    BY <2>1, <2>3, <2>4
<1>9. CASE Finishes
  <2>1. /\ ibufend' = Newend /\ Newend # ibufstart
        /\ ibuf'[ibufend] = input[peer.begun]
        /\ peer'.begun - InFlight' = peer.begun /\ InFlight = 1
    BY <1>9 DEF Finishes, InFlight
  <2>2. Count' = Count + 1
    BY <1>3, <1>4, <2>1, IbufFacts DEF Newend
  <2>3. Len(got) + Count + 1 = peer.begun
    <3>1. peer.begun \in Nat
      BY PatientFacts
    <3>2. QED
      BY <1>3, <1>6, <2>1, <3>1, RxAssumption
  <2>4. Slot(BufLen, ibufstart, Count) = ibufend
    BY <1>3, IbufFacts
  <2>5. \A j \in 0 .. Count : ibuf'[Slot(BufLen, ibufstart, j)] = input[Len(got) + j + 1]
    <3>1. SUFFICES ASSUME NEW j \in 0 .. Count
                   PROVE  ibuf'[Slot(BufLen, ibufstart, j)] = input[Len(got) + j + 1]
      OBVIOUS
    <3>2. CASE j = Count
      BY <2>1, <2>3, <2>4, <3>2
    <3>3. CASE j # Count
      <4>1. j \in 0 .. Count - 1
        BY <1>3, <3>3, RxAssumption
      <4>2. QED
        BY <1>7, <4>1
    <3>4. QED
      BY <3>2, <3>3
  <2>6. Count' - 1 = Count
    BY <1>3, <2>2, RxAssumption
  <2>7. Len(got) + Count' = peer'.begun - InFlight'
    BY <1>3, <2>1, <2>2, <2>3, RxAssumption
  <2>8. Delivered'
    BY <1>2, <1>6, <2>5, <2>6, <2>7 DEF Delivered
  <2>9. ~Continues
    BY <1>3, <1>9 DEF Continues, Finishes
  <2>10. QED
    BY <2>2, <2>8, <2>9
<1>10. QED
  BY <1>8, <1>9

\* The octet of a patient far end: by how much of the character was there.
LEMMA PatientLineIn ==
  ASSUME ~LateStart, TypeOK, peer.patient, PatientInv, LineIn
  PROVE  peer'.patient /\ PatientInv'
<1>1. PICK at \in StartPlaces : /\ Receive(LineBits(at)) /\ peer' = PeerAfter(at)
                                /\ LineBits(at) \subseteq DataBits /\ at \in 1 .. 7
  BY LineInReceives
<1>2. /\ peer.bits \in 0 .. 9 /\ peer.begun \in Nat /\ ibufend \in Indices /\ Count \in 0 .. BufLen - 1
      /\ peer.bits # 0 => peer.begun > 0
  BY PatientFacts
<1>3. KeptNext /\ (IF peer.bits \in 4 .. 9 THEN Finishes ELSE Continues)
  <2>1. CASE peer.bits = 0
    BY <1>1, <2>1, IdleOctet, StartOctet
  <2>2. CASE peer.bits \in 1 .. 3
    BY <1>1, <2>2, MoreOctet
  <2>3. CASE peer.bits \in 4 .. 9
    BY <1>1, <2>3, StopOctet
  <2>4. QED
    BY <1>2, <2>1, <2>2, <2>3
<1>4. Kept'
  BY <1>3 DEF Kept, KeptNext, LineIn
<1>5. Delivered' /\ (Continues => Count' = Count) /\ (Finishes => Count' = Count + 1)
  BY <1>3, LineInDelivers
<1>6. /\ peer'.patient = peer.patient
      /\ at < 7 => peer'.begun = peer.begun + 1 /\ peer'.bits = 7 - at
      /\ at = 7 => /\ peer'.begun = peer.begun
                   /\ peer'.bits = (IF Rest <= 6 THEN 0 ELSE peer.bits + 6)
  BY <1>1, PeerThen
<1>7. Room'
  <2>1. SUFFICES ASSUME peer'.bits # 0 PROVE peer'.begun > 0 /\ Count' < BufLen - 1
    BY DEF Room
  <2>2. CASE at < 7
    <3>1. Count + InFlight < BufLen - 1
      BY <1>1, <2>2 DEF StartPlaces
    <3>2. Count' = Count \/ (Count' = Count + 1 /\ InFlight = 1)
      BY <1>3, <1>5 DEF Finishes, InFlight
    <3>3. InFlight \in {0, 1}
      BY DEF InFlight
    <3>4. QED
      BY <1>2, <1>6, <2>2, <3>1, <3>2, <3>3, RxAssumption
  <2>3. CASE at = 7
    <3>1. peer.bits \in 1 .. 3 /\ peer'.begun = peer.begun
      BY <1>2, <1>6, <2>1, <2>3 DEF Rest
    <3>2. Count' = Count
      BY <1>3, <1>5, <3>1
    <3>3. QED
      BY <1>2, <3>1, <3>2 DEF PatientInv, Room
  <2>4. QED
    BY <1>1, <2>2, <2>3
<1>8. QED
  BY <1>4, <1>5, <1>6, <1>7 DEF PatientInv

\* The write moves characters from the ring to got, in order.
LEMMA PatientFlush ==
  ASSUME TypeOK, PatientInv, Flush
  PROVE  peer' = peer /\ PatientInv'
<1>1. PICK r \in 0 .. Want :
        /\ ibufstart # ibufend
        /\ Want = IF ibufend > ibufstart THEN ibufend - ibufstart ELSE BufLen - ibufstart
        /\ got' = got \o [i \in 1 .. r |-> ibuf[ibufstart + i - 1]]
        /\ [i \in 1 .. r |-> ibuf[ibufstart + i - 1]] \in Seq(Octet)
        /\ ibufstart' = IF ibufstart + r = BufLen THEN 0 ELSE ibufstart + r
        /\ UNCHANGED <<nextibit, ibuf, ibufend, input, peer>>
  BY FlushTyped
<1>2. /\ ibufstart \in Indices /\ ibufend \in Indices
      /\ Count = Dist(BufLen, ibufstart, ibufend) /\ Count \in 0 .. BufLen - 1
      /\ got \in Seq(Octet) /\ Len(got) \in Nat /\ peer.begun \in Nat
  BY PatientFacts
<1>3. r \in 0 .. (IF ibufend > ibufstart THEN ibufend - ibufstart ELSE BufLen - ibufstart)
  BY <1>1
<1>4. /\ ibufstart' \in Indices /\ Dist(BufLen, ibufstart', ibufend) = Count - r /\ r <= Count
      /\ \A j \in 0 .. r - 1 : Slot(BufLen, ibufstart, j) = ibufstart + j /\ ibufstart + j \in Indices
      /\ \A j \in 0 .. Count - r - 1 : Slot(BufLen, ibufstart', j) = Slot(BufLen, ibufstart, r + j)
  BY <1>1, <1>2, <1>3, IbufTaken
<1>5. Count' = Count - r
  BY <1>1, <1>4 DEF Count, Dist
<1>6. r \in Nat /\ BufLen \in Nat /\ ibufstart \in Nat
  BY <1>2, <1>3, RxAssumption DEF Indices
<1> DEFINE w == [i \in 1 .. r |-> ibuf[ibufstart + i - 1]]
<1>7. Len(w) = r
  BY <1>1, <1>6
<1>8. /\ Len(got') = Len(got) + r
      /\ \A j \in 1 .. Len(got) + r : got'[j] = IF j <= Len(got) THEN got[j] ELSE w[j - Len(got)]
  <2> HIDE DEF w
  <2>1. w \in Seq(Octet) /\ got' = got \o w
    BY <1>1 DEF w
  <2>2. QED
    BY <1>2, <1>7, <2>1, ConcatProperties
<1>9. /\ Len(got) + Count = peer.begun - InFlight
      /\ \A j \in 1 .. Len(got) : got[j] = input[j]
      /\ \A j \in 0 .. Count - 1 : ibuf[Slot(BufLen, ibufstart, j)] = input[Len(got) + j + 1]
  BY DEF PatientInv, Delivered
<1>10. ASSUME NEW j \in 1 .. Len(got')
       PROVE  got'[j] = input[j]
  <2>0. j \in 1 .. Len(got) + r /\ j \in Nat
    BY <1>2, <1>6, <1>8
  <2> HIDE DEF w
  <2>1. CASE j <= Len(got)
    <3>1. j \in 1 .. Len(got)
      BY <1>2, <2>0, <2>1
    <3>2. QED
      BY <1>2, <1>6, <1>8, <1>9, <2>0, <2>1, <3>1
  <2>2. CASE j > Len(got)
    <3> DEFINE k == j - Len(got)
    <3>1. k \in 1 .. r
      BY <1>2, <1>6, <2>0, <2>2
    <3>0. got'[j] = w[k]
      BY <1>2, <1>8, <2>0, <2>2
    <3>2. k - 1 \in 0 .. r - 1 /\ k - 1 \in 0 .. Count - 1 /\ ibufstart + k - 1 = ibufstart + (k - 1)
          /\ Len(got) + (k - 1) + 1 = j
      BY <1>2, <1>4, <1>6, <2>0, <3>1
    <3> HIDE DEF k
    <3>3. w[k] = ibuf[ibufstart + (k - 1)]
      BY <3>1, <3>2 DEF w
    <3>4. ibuf[Slot(BufLen, ibufstart, k - 1)] = input[j]
      BY <1>9, <3>2
    <3>5. QED
      BY <1>4, <3>0, <3>2, <3>3, <3>4
  <2>3. QED
    BY <1>2, <2>0, <2>1, <2>2
<1>11. ASSUME NEW j \in 0 .. Count' - 1
       PROVE  ibuf'[Slot(BufLen, ibufstart', j)] = input[Len(got') + j + 1]
  <2>1. j \in 0 .. Count - r - 1 /\ r + j \in 0 .. Count - 1 /\ Len(got) + (r + j) + 1 = Len(got') + j + 1
    BY <1>2, <1>4, <1>5, <1>6, <1>8
  <2>2. QED
    BY <1>1, <1>4, <1>9, <2>1
<1>12. Len(got') + Count' = peer'.begun - InFlight'
  <2>1. InFlight' = InFlight /\ peer' = peer
    BY <1>1 DEF InFlight
  <2>2. Len(got') + Count' = Len(got) + Count
    BY <1>2, <1>5, <1>6, <1>8
  <2>3. QED
    BY <1>9, <2>1, <2>2
<1>13. Delivered'
  <2>1. input' = input
    BY <1>1
  <2>2. QED
    BY <1>10, <1>11, <1>12, <2>1 DEF Delivered
<1>14. Room'
  BY <1>1, <1>2, <1>5, <1>6 DEF PatientInv, Room
<1>15. Kept'
  BY <1>1 DEF PatientInv, Kept
<1>16. QED
  BY <1>1, <1>13, <1>14, <1>15 DEF PatientInv

-----------------------------------------------------------------------------
\* Where the receiver begins.
LEMMA InitTyped ==
  ASSUME Init
  PROVE  TypeOK
<1>1. 0 \in Indices /\ {} \in Octet /\ << >> \in Seq(Octet)
  BY RxAssumption DEF Indices, Octet
<1>2. PICK p \in Patience : peer = [begun |-> 0, bits |-> 0, patient |-> p]
  BY DEF Init
<1>3. Len(input) \in Nat
  BY RxAssumption DEF Init
<1>4. peer \in [begun : 0 .. Len(input), bits : 0 .. 9, patient : Patience]
  BY <1>2, <1>3
<1>5. SyncFrames \in 0 .. SyncFrames
  BY RxAssumption
<1>6. ibuf \in [Indices -> Octet]
  BY <1>1 DEF Init
<1>7. QED
  BY <1>1, <1>4, <1>5, <1>6 DEF Init, TypeOK, Bit7, ELine

\* Every record, index and character the receiver handles is one of its type.
THEOREM TypeCorrect == Spec => []TypeOK
<1>1. Init => TypeOK
  BY InitTyped
<1>2. TypeOK /\ [Next]_vars => TypeOK'
  <2> SUFFICES ASSUME TypeOK, [Next]_vars PROVE TypeOK'
    OBVIOUS
  <2>1. CASE LineIn
    BY <2>1, LineInTyped
  <2>2. CASE Flush
    BY <2>2, FlushTyped
  <2>3. CASE UNCHANGED vars
    BY <2>3 DEF vars, status, TypeOK
  <2>4. QED
    BY <2>1, <2>2, <2>3 DEF Next
<1>3. QED
  BY <1>1, <1>2, PTL DEF Spec

\* An octet leaves every character that waits in the ring as it is and drops none,
\* also one the far end sends against flow control or out of step (v110_process_frame).
THEOREM FinishedCharactersStay == Spec => FinishedStay
<1> DEFINE Stay == LineIn => \A i \in Indices :
                     (i + BufLen - ibufstart) % BufLen < Count
                       => /\ ibuf'[i] = ibuf[i]
                          /\ (i + BufLen - ibufstart) % BufLen < Count'
<1>1. TypeOK /\ [Next]_vars => [Stay]_vars
  <2>1. SUFFICES ASSUME TypeOK, LineIn, NEW i \in Indices, (i + BufLen - ibufstart) % BufLen < Count
                 PROVE  ibuf'[i] = ibuf[i] /\ (i + BufLen - ibufstart) % BufLen < Count'
    OBVIOUS
  <2>2. ibufstart \in Indices /\ ibufend \in Indices
    BY <2>1 DEF TypeOK
  <2>3. Dist(BufLen, ibufstart, i) < Dist(BufLen, ibufstart, ibufend)
    BY <2>1 DEF Dist, Count
  <2>4. i # ibufend /\ (Newend # ibufstart => i # Newend)
    BY <2>2, <2>3, IbufInUse DEF Newend
  <2>5. /\ ibufend' = ibufend \/ (ibufend' = Newend /\ Newend # ibufstart)
        /\ \A k \in Indices : k # ibufend /\ k # ibufend' => ibuf'[k] = ibuf[k]
    BY <2>1, LineInTyped
  <2>6. ibuf'[i] = ibuf[i]
    BY <2>4, <2>5
  <2>7. Count' = Dist(BufLen, ibufstart, ibufend')
    BY <2>1 DEF Count, Dist, LineIn
  <2>8. Dist(BufLen, ibufstart, ibufend) \in Nat /\ Dist(BufLen, ibufstart, i) \in Nat
    BY <2>2, IbufFacts, RxAssumption
  <2>9. Newend # ibufstart => Dist(BufLen, ibufstart, Newend) = Dist(BufLen, ibufstart, ibufend) + 1
    BY <2>2, IbufFacts DEF Newend
  <2>10. Dist(BufLen, ibufstart, i) < Count'
    BY <2>3, <2>5, <2>7, <2>8, <2>9
  <2>11. QED
    BY <2>6, <2>10 DEF Dist
<1>2. QED
  BY <1>1, TypeCorrect, PTL DEF Spec, FinishedStay

\* Once synchronised, the far end is held off only while characters wait, so that
\* writing them lifts it (the flow control at the end of sbridge_run_v110's loop).
THEOREM HeldOffForAReason == Spec => []HoldsOffForAReason
<1>1. Init => HoldsOffForAReason
  BY RxAssumption DEF Init, HoldsOffForAReason
<1>2. TypeOK /\ HoldsOffForAReason /\ [Next]_vars => HoldsOffForAReason'
  <2> SUFFICES ASSUME TypeOK, HoldsOffForAReason, [Next]_vars, synccount' = 0, rts' = {7}
               PROVE  ibufstart' # ibufend'
    BY DEF HoldsOffForAReason
  <2>0. synccount \in Nat
    BY RxAssumption DEF TypeOK
  <2>1. CASE LineIn
    <3>1. synccount = 0 /\ rts = {7}
      BY <2>0, <2>1 DEF LineIn, FrameStatus, status
    <3>2. ibufstart # ibufend /\ ibufstart' = ibufstart
      BY <2>1, <3>1 DEF HoldsOffForAReason, LineIn
    <3>3. QED
      BY <2>1, <3>2, LineInTyped
  <2>2. CASE Flush
    <3>1. PICK r \in 0 .. Want :
            /\ ibufstart # ibufend
            /\ Want = IF ibufend > ibufstart THEN ibufend - ibufstart ELSE BufLen - ibufstart
            /\ ibufstart' = IF ibufstart + r = BufLen THEN 0 ELSE ibufstart + r
            /\ rts' = IF r < Want THEN {7} ELSE {}
            /\ ibufend' = ibufend
      BY <2>2, FlushTyped
    <3>2. r < Want
      BY <3>1
    <3>3. ibufstart \in Indices /\ ibufend \in Indices
      BY DEF TypeOK
    <3>4. r \in 0 .. (IF ibufend > ibufstart THEN ibufend - ibufstart ELSE BufLen - ibufstart)
      BY <3>1
    <3>5. QED
      BY <3>1, <3>2, <3>3, <3>4, IbufTaken
  <2>3. CASE UNCHANGED vars
    BY <2>3 DEF vars, status, HoldsOffForAReason
  <2>4. QED
    BY <2>1, <2>2, <2>3 DEF Next
<1>3. QED
  BY <1>1, <1>2, TypeCorrect, PTL DEF Spec

\* The inductive invariant of the receiver against a far end that never begins a
\* character in bit 6 behind a stop bit.  v110_getline does not: V110Tx's InStep.
THEOREM Invariant == ~LateStart => (Spec => []IInv)
<1> SUFFICES ASSUME ~LateStart PROVE Spec => []IInv
  OBVIOUS
<1>1. Init => IInv
  <2> SUFFICES ASSUME Init PROVE IInv
    OBVIOUS
  <2>1. TypeOK
    BY InitTyped
  <2>2. Count = 0
    <3>1. 0 \in Indices /\ ibufstart = 0 /\ ibufend = 0
      BY RxAssumption DEF Init, Indices
    <3>2. QED
      BY <3>1, IbufFacts DEF Count, Dist
  <2>3. peer.begun = 0 /\ peer.bits = 0 /\ nextibit = 0 /\ got = << >>
    BY DEF Init
  <2>4. Kept /\ Room
    BY <2>3 DEF Kept, Room
  <2>5. Delivered
    BY <2>2, <2>3 DEF Delivered, InFlight
  <2>6. QED
    BY <2>1, <2>4, <2>5 DEF IInv, PatientInv
<1>2. IInv /\ [Next]_vars => IInv'
  <2> SUFFICES ASSUME IInv, [Next]_vars PROVE IInv'
    OBVIOUS
  <2>1. TypeOK /\ (peer.patient => PatientInv)
    BY DEF IInv
  <2>2. CASE LineIn
    <3>1. TypeOK'
      BY <2>1, <2>2, LineInTyped
    <3>2. peer'.patient => peer.patient
      <4>1. PICK at \in StartPlaces : peer' = PeerAfter(at)
        BY <2>2 DEF LineIn
      <4>2. QED
        BY <2>1, <4>1, PeerThen
    <3>3. QED
      BY <2>1, <2>2, <3>1, <3>2, PatientLineIn DEF IInv
  <2>3. CASE Flush
    <3>1. TypeOK' /\ peer' = peer
      BY <2>1, <2>3, FlushTyped
    <3>2. QED
      BY <2>1, <2>3, <3>1, PatientFlush DEF IInv
  <2>4. CASE UNCHANGED vars
    <3>1. UNCHANGED <<line, synccount, cts, rts, sbit, nextibit, ibuf, ibufstart, ibufend, got, input, peer>>
      BY <2>4 DEF vars, status
    <3>2. QED
      BY <3>1 DEF IInv, TypeOK, PatientInv, Kept, Room, Delivered, Count, InFlight, Slot
  <2>5. QED
    BY <2>2, <2>3, <2>4 DEF Next
<1>3. QED
  BY <1>1, <1>2, PTL DEF Spec

\* The decoder follows a patient far end bit for bit: it never takes a data bit for a
\* start bit or a start bit for data, and what the frames before left in the ring's
\* next entry is not in the way of a new character.
THEOREM StaysInStep == ~LateStart => (Spec => []InStep)
<1>1. IInv => InStep
  BY DEF IInv, PatientInv, Kept, InStep
<1>2. QED
  BY <1>1, Invariant, PTL

\* Every character a patient far end finished is written or held, unaltered and in
\* order, for every length of the ring and every way the socket cuts the writes up.
THEOREM WhatIsReceivedIsSent == ~LateStart => (Spec => []ReceivedIsSent)
<1>1. IInv => ReceivedIsSent
  <2> SUFFICES ASSUME TypeOK, PatientInv
               PROVE  got \o Held = SubSeq(input, 1, peer.begun - InFlight)
    BY DEF IInv, ReceivedIsSent
  <2> DEFINE m == peer.begun - InFlight
             h == Held
  <2>1. /\ ibufstart \in Indices /\ ibufend \in Indices /\ ibuf \in [Indices -> Octet]
        /\ got \in Seq(Octet) /\ Len(got) \in Nat /\ input \in Seq(Octet) /\ Len(input) \in Nat
        /\ Count = Dist(BufLen, ibufstart, ibufend) /\ Count \in 0 .. BufLen - 1
        /\ peer.begun \in 0 .. Len(input)
    BY PatientFacts
  <2>2. /\ Len(got) + Count = m
        /\ \A j \in 1 .. Len(got) : got[j] = input[j]
        /\ \A j \in 0 .. Count - 1 : ibuf[Slot(BufLen, ibufstart, j)] = input[Len(got) + j + 1]
    BY DEF PatientInv, Delivered
  <2>3. Count \in Nat /\ BufLen \in Nat /\ ibufstart \in Nat
    BY <2>1, RxAssumption DEF Indices
  <2>4. m \in 0 .. Len(input)
    BY <2>1, <2>2, <2>3 DEF InFlight
  <2>5. \A i \in 1 .. Count : /\ ibuf[(ibufstart + i - 1) % BufLen] = input[Len(got) + i]
                              /\ ibuf[(ibufstart + i - 1) % BufLen] \in Octet
    <3>1. SUFFICES ASSUME NEW i \in 1 .. Count
                   PROVE  /\ ibuf[(ibufstart + i - 1) % BufLen] = input[Len(got) + i]
                          /\ ibuf[(ibufstart + i - 1) % BufLen] \in Octet
      OBVIOUS
    <3>2. i - 1 \in 0 .. Count - 1 /\ ibufstart + (i - 1) = ibufstart + i - 1 /\ Len(got) + (i - 1) + 1 = Len(got) + i
      BY <2>1, <2>3
    <3>3. Slot(BufLen, ibufstart, i - 1) \in Indices
      BY <2>1, <3>2, IbufFacts
    <3>4. (ibufstart + i - 1) % BufLen = Slot(BufLen, ibufstart, i - 1)
      BY <3>2 DEF Slot
    <3>5. QED
      BY <2>1, <2>2, <3>2, <3>3, <3>4
  <2>6. h \in Seq(Octet) /\ Len(h) = Count /\ \A i \in 1 .. Count : h[i] = input[Len(got) + i]
    <3> DEFINE e(i) == ibuf[(ibufstart + i - 1) % BufLen]
               q == [i \in 1 .. Count |-> e(i)]
    <3>1. \A i \in 1 .. Count : e(i) \in Octet /\ e(i) = input[Len(got) + i]
      BY <2>5
    <3>2. h = q
      BY DEF Held
    <3> HIDE DEF e
    <3>3. q \in Seq(Octet)
      BY <2>3, <3>1, IsASeq
    <3>4. Len(q) = Count /\ \A i \in 1 .. Count : q[i] = e(i)
      BY <2>3
    <3> HIDE DEF q, h
    <3>5. QED
      BY <3>1, <3>2, <3>3, <3>4
  <2> HIDE DEF h, m
  <2> DEFINE q == got \o h
  <2>7. /\ q \in Seq(Octet) /\ Len(q) = m
        /\ \A j \in 1 .. m : q[j] = input[j]
    <3>1. /\ q \in Seq(Octet) /\ Len(q) = Len(got) + Count
          /\ \A j \in 1 .. Len(got) + Count : q[j] = IF j <= Len(got) THEN got[j] ELSE h[j - Len(got)]
      <4>1. got \in Seq(Octet) /\ h \in Seq(Octet) /\ Len(h) = Count
        BY <2>1, <2>6
      <4>2. QED
        BY <4>1, ConcatProperties
    <3> HIDE DEF q
    <3>2. ASSUME NEW j \in 1 .. m PROVE q[j] = input[j]
      <4>0. j \in 1 .. Len(got) + Count /\ j \in Nat
        BY <2>1, <2>2, <2>3
      <4>1. CASE j <= Len(got)
        BY <2>1, <2>2, <3>1, <4>0, <4>1
      <4>2. CASE j > Len(got)
        <5>1. j - Len(got) \in 1 .. Count /\ Len(got) + (j - Len(got)) = j
          BY <2>1, <2>3, <4>0, <4>2
        <5>2. QED
          BY <2>1, <2>6, <3>1, <4>0, <4>2, <5>1
      <4>3. QED
        BY <2>1, <2>3, <4>0, <4>1, <4>2
    <3>3. QED
      BY <2>2, <3>1, <3>2
  <2>8. /\ SubSeq(input, 1, m) \in Seq(Octet) /\ Len(SubSeq(input, 1, m)) = m
        /\ \A j \in 1 .. m : SubSeq(input, 1, m)[j] = input[j]
    <3>1. m \in 1 - 1 .. Len(input) /\ 1 \in 1 .. Len(input) + 1
      BY <2>1, <2>4
    <3>2. /\ SubSeq(input, 1, m) \in Seq(Octet) /\ Len(SubSeq(input, 1, m)) = IF 1 <= m THEN m - 1 + 1 ELSE 0
          /\ \A j \in 1 .. m - 1 + 1 : SubSeq(input, 1, m)[j] = input[1 + j - 1]
      BY <2>1, <3>1, SubSeqProperties
    <3>3. m - 1 + 1 = m /\ \A j \in 1 .. m : 1 + j - 1 = j
      BY <2>4
    <3>4. QED
      BY <2>1, <2>4, <3>2, <3>3
  <2>9. got \o h = SubSeq(input, 1, m)
    BY <2>7, <2>8, SeqEqual
  <2>10. QED
    BY <2>9 DEF h, m
<1>2. QED
  BY <1>1, Invariant, PTL
=============================================================================
