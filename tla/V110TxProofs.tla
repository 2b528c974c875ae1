---------------------------- MODULE V110TxProofs ----------------------------
(***************************************************************************)
(* The far end stays in step with v110_getline and hears every character   *)
(* that is read, for every ring length, threshold and input.  First what   *)
(* the far end makes of one bit, then of an octet laid out as v110_getline *)
(* does, then the two ends of the ring, then one lemma per action.         *)
(***************************************************************************)
EXTENDS V110Tx, SequenceTheorems, TLAPS

-----------------------------------------------------------------------------
(* Rings of N entries, as obuf is: those in use go from index s to e, e not *)
(* included, and one is always left free.                                   *)

\* How many entries lie between s and e.
Dist(N, s, e) == (e + N - s) % N

\* The entry j places behind s.
Slot(N, s, j) == (s + j) % N

\* An index past the end starts over.
LEMMA ModIs ==
  ASSUME NEW N \in Nat, N > 1, NEW x \in 0 .. 2 * N - 1
  PROVE  x % N = IF x < N THEN x ELSE x - N
<1>1. CASE x < N
  BY <1>1
<1>2. CASE x >= N
  <2>1. x - N \in 0 .. N - 1
    BY <1>2
  <2>2. x = N * 1 + (x - N)
    OBVIOUS
  <2>3. QED
    BY <1>2, <2>1, <2>2
<1>3. QED
  BY <1>1, <1>2

\* How far e is behind s, which may lie further on in the array.
LEMMA DistIs ==
  ASSUME NEW N \in Nat, N > 1, NEW s \in 0 .. N - 1, NEW e \in 0 .. N - 1
  PROVE  Dist(N, s, e) = IF e >= s THEN e - s ELSE e + N - s
<1> DEFINE x == e + N - s
<1>1. x \in 0 .. 2 * N - 1
  OBVIOUS
<1> HIDE DEF x
<1>2. x % N = IF x < N THEN x ELSE x - N
  BY <1>1, ModIs
<1>3. QED
  BY <1>2 DEF Dist, x

\* Where the entry j places behind s is in the array.
LEMMA SlotIs ==
  ASSUME NEW N \in Nat, N > 1, NEW s \in 0 .. N - 1, NEW j \in 0 .. N - 1
  PROVE  Slot(N, s, j) = IF s + j < N THEN s + j ELSE s + j - N
<1> DEFINE x == s + j
<1>1. x \in 0 .. 2 * N - 1
  OBVIOUS
<1> HIDE DEF x
<1>2. x % N = IF x < N THEN x ELSE x - N
  BY <1>1, ModIs
<1>3. QED
  BY <1>2 DEF Slot, x

\* The index after e.
LEMMA NextIs ==
  ASSUME NEW N \in Nat, N > 1, NEW e \in 0 .. N - 1
  PROVE  (e + 1) % N = IF e = N - 1 THEN 0 ELSE e + 1
<1>1. e + 1 \in 0 .. 2 * N - 1
  OBVIOUS
<1>2. QED
  BY <1>1, ModIs

-----------------------------------------------------------------------------
\* The entries in use are those from s, and neither e nor, while one is left
\* free, the one behind e is among them.
LEMMA RingFacts ==
  ASSUME NEW N \in Nat, N > 1, NEW s \in 0 .. N - 1, NEW e \in 0 .. N - 1
  PROVE  LET c == Dist(N, s, e)
             n == (e + 1) % N
         IN  /\ c \in 0 .. N - 1 /\ (c = 0 <=> s = e) /\ Slot(N, s, c) = e
             /\ n \in 0 .. N - 1 /\ n # e
             /\ n = s <=> c = N - 1
             /\ n # s => Dist(N, s, n) = c + 1
             /\ \A j \in 0 .. c - 1 : /\ Slot(N, s, j) \in 0 .. N - 1 /\ Slot(N, s, j) # e
                                      /\ n # s => Slot(N, s, j) # n
<1> DEFINE c == Dist(N, s, e)
           n == (e + 1) % N
<1>1. c = IF e >= s THEN e - s ELSE e + N - s
  BY DistIs
<1>2. n = IF e = N - 1 THEN 0 ELSE e + 1
  BY NextIs
<1>3. n \in 0 .. N - 1
  BY <1>2
<1> HIDE DEF c, n
<1>4. Dist(N, s, n) = IF n >= s THEN n - s ELSE n + N - s
  BY <1>3, DistIs
<1>5. c \in 0 .. N - 1 /\ (c = 0 <=> s = e)
  BY <1>1
<1>6. Slot(N, s, c) = e
  <2>1. Slot(N, s, c) = IF s + c < N THEN s + c ELSE s + c - N
    BY <1>5, SlotIs
  <2>2. QED
    BY <1>1, <2>1
<1>7. n # e /\ (n = s <=> c = N - 1) /\ (n # s => Dist(N, s, n) = c + 1)
  BY <1>1, <1>2, <1>4
<1>8. ASSUME NEW j \in 0 .. c - 1
      PROVE  /\ Slot(N, s, j) \in 0 .. N - 1 /\ Slot(N, s, j) # e
             /\ n # s => Slot(N, s, j) # n
  <2>1. j \in 0 .. N - 1
    BY <1>5
  <2>2. Slot(N, s, j) = IF s + j < N THEN s + j ELSE s + j - N
    BY <2>1, SlotIs
  <2>3. QED
    BY <1>1, <1>2, <2>1, <2>2
<1>9. QED
  BY <1>3, <1>5, <1>6, <1>7, <1>8 DEF c, n

\* r entries are taken off the front, at most up to the end of the array.
LEMMA RingTaken ==
  ASSUME NEW N \in Nat, N > 1, NEW s \in 0 .. N - 1, NEW e \in 0 .. N - 1, s # e,
         NEW r \in 0 .. (IF e > s THEN e - s ELSE N - s)
  PROVE  LET t == IF s + r = N THEN 0 ELSE s + r
         IN  /\ t \in 0 .. N - 1 /\ Dist(N, t, e) = Dist(N, s, e) - r /\ r <= Dist(N, s, e)
             /\ \A j \in 0 .. r - 1 : Slot(N, s, j) = s + j /\ s + j \in 0 .. N - 1
             /\ \A j \in 0 .. Dist(N, s, e) - r - 1 : Slot(N, t, j) = Slot(N, s, r + j)
             /\ r < (IF e > s THEN e - s ELSE N - s) => t # e
<1> DEFINE t == IF s + r = N THEN 0 ELSE s + r
<1>1. t \in 0 .. N - 1
  OBVIOUS
<1>2. Dist(N, s, e) = IF e >= s THEN e - s ELSE e + N - s
  BY DistIs
<1>3. Dist(N, t, e) = IF e >= t THEN e - t ELSE e + N - t
  BY <1>1, DistIs
<1>4. Dist(N, t, e) = Dist(N, s, e) - r /\ r <= Dist(N, s, e)
  BY <1>2, <1>3
<1>5. Dist(N, s, e) \in 0 .. N - 1
  BY <1>2
<1>6. ASSUME NEW j \in 0 .. r - 1
      PROVE  Slot(N, s, j) = s + j /\ s + j \in 0 .. N - 1
  <2>1. j \in 0 .. N - 1 /\ s + j < N
    OBVIOUS
  <2>2. QED
    BY <2>1, SlotIs
<1>7. ASSUME NEW j \in 0 .. Dist(N, s, e) - r - 1
      PROVE  Slot(N, t, j) = Slot(N, s, r + j)
  <2>1. j \in 0 .. N - 1 /\ r + j \in 0 .. N - 1
    BY <1>5
  <2>2. Slot(N, t, j) = IF t + j < N THEN t + j ELSE t + j - N
    BY <1>1, <2>1, SlotIs
  <2>3. Slot(N, s, r + j) = IF s + (r + j) < N THEN s + (r + j) ELSE s + (r + j) - N
    BY <2>1, SlotIs
  <2>4. QED
    BY <2>1, <2>2, <2>3
<1>8. r < (IF e > s THEN e - s ELSE N - s) => t # e
  OBVIOUS
<1>9. QED
  BY <1>1, <1>4, <1>6, <1>7, <1>8

\* r entries are added at the back, at most up to the end of the array, and one
\* is left free.
LEMMA RingFilled ==
  ASSUME NEW N \in Nat, N > 1, NEW s \in 0 .. N - 1, NEW e \in 0 .. N - 1,
         NEW r \in 0 .. (IF e >= s THEN N - e - (IF s = 0 THEN 1 ELSE 0) ELSE s - e - 1)
  PROVE  LET f == IF e + r = N THEN 0 ELSE e + r
         IN  /\ f \in 0 .. N - 1 /\ Dist(N, s, f) = Dist(N, s, e) + r
             /\ \A j \in 0 .. Dist(N, s, e) - 1 : Slot(N, s, j) \notin e .. e + r - 1
             /\ \A j \in 0 .. r - 1 : Slot(N, s, Dist(N, s, e) + j) = e + j /\ e + j \in 0 .. N - 1
<1> DEFINE f == IF e + r = N THEN 0 ELSE e + r
           c == Dist(N, s, e)
<1>1. f \in 0 .. N - 1
  OBVIOUS
<1>2. c = IF e >= s THEN e - s ELSE e + N - s
  BY DistIs
<1>3. Dist(N, s, f) = IF f >= s THEN f - s ELSE f + N - s
  BY <1>1, DistIs
<1> HIDE DEF c
<1>4. Dist(N, s, f) = c + r
  BY <1>2, <1>3
<1>5. c \in 0 .. N - 1 /\ c + r \in 0 .. N - 1
  BY <1>2
<1>6. ASSUME NEW j \in 0 .. c - 1
      PROVE  Slot(N, s, j) \notin e .. e + r - 1
  <2>1. j \in 0 .. N - 1
    BY <1>5
  <2>2. Slot(N, s, j) = IF s + j < N THEN s + j ELSE s + j - N
    BY <2>1, SlotIs
  <2>3. QED
    BY <1>2, <2>1, <2>2
<1>7. ASSUME NEW j \in 0 .. r - 1
      PROVE  Slot(N, s, c + j) = e + j /\ e + j \in 0 .. N - 1
  <2>1. c + j \in 0 .. N - 1
    BY <1>5
  <2>2. Slot(N, s, c + j) = IF s + (c + j) < N THEN s + (c + j) ELSE s + (c + j) - N
    BY <2>1, SlotIs
  <2>3. QED
    BY <1>2, <2>1, <2>2
<1>8. QED
  BY <1>1, <1>4, <1>6, <1>7 DEF c

\* The characters of the ring, by place.
Waiting == Dist(BufLen, obufstart, obufend)

\* NothingLost, entry by entry: what was heard, then what waits in the ring.
Delivered ==
  /\ Len(far.heard) + Waiting = taken
  /\ \A j \in 1 .. Len(far.heard) : far.heard[j] = input[j]
  /\ \A j \in 0 .. Waiting - 1 : obuf[Slot(BufLen, obufstart, j)] = input[Len(far.heard) + j + 1]

\* The inductive invariant.  Delivered needs InStep: that a character ends with
\* all its bits heard is what v110_getline's pop of obufstart relies on.
IInv == TypeOK /\ InStep /\ Delivered

Far == [bits : 0 .. 10, data : Octet, heard : Seq(Octet)]

\* The far end has heard h, then n bits of char, start bit included.
At(f, char, n, h) ==
  /\ f \in Far /\ f.bits = n /\ f.heard = h
  /\ n # 0 => f.data = char \cap 0 .. n - 2

-----------------------------------------------------------------------------
(* One bit of the line.                                                     *)

\* A decoder is one of the type, and made of its fields.
LEMMA FarIn ==
  ASSUME NEW n \in 0 .. 10, NEW d \in Octet, NEW h \in Seq(Octet)
  PROVE  Decoder(n, d, h) \in Far
  BY DEF Far, Decoder

LEMMA FarFields ==
  ASSUME NEW n, NEW d, NEW h
  PROVE  /\ Decoder(n, d, h).bits = n
         /\ Decoder(n, d, h).data = d
         /\ Decoder(n, d, h).heard = h
  BY DEF Decoder

\* A zero between two characters is a start bit.
LEMMA StartBit ==
  ASSUME NEW h, NEW f, NEW old, NEW char, At(f, old, 0, h), NEW o, NEW i, i \notin o
  PROVE  At(Hear(f, o, i), char, 1, h)
<1>1. f.bits = 0 /\ f.heard \in Seq(Octet) /\ f.heard = h
  BY DEF At, Far
<1>2. Hear(f, o, i) = Decoder(1, {}, f.heard)
  BY <1>1 DEF Hear
<1>3. {} \in Octet /\ {} = char \cap 0 .. 1 - 2 /\ 1 \in 0 .. 10
  BY DEF Octet
<1>4. QED
  BY <1>1, <1>2, <1>3, FarIn, FarFields DEF At

\* A one between two characters is fill.
LEMMA IdleBit ==
  ASSUME NEW h, NEW f, NEW old, NEW char, At(f, old, 0, h), NEW o, NEW i, i \in o
  PROVE  At(Hear(f, o, i), char, 0, h)
<1>1. f.bits = 0
  BY DEF At
<1>2. Hear(f, o, i) = f
  BY <1>1 DEF Hear
<1>3. QED
  BY <1>2 DEF At

\* A one behind eight data bits: the character is heard.
LEMMA StopBit ==
  ASSUME NEW h, NEW f, NEW old \in Octet, NEW char, At(f, old, 9, h), NEW o, NEW i, i \in o
  PROVE  At(Hear(f, o, i), char, 0, Append(h, old))
<1>1. f.bits = 9 /\ f.heard \in Seq(Octet) /\ f.data \in Octet /\ f.heard = h
  BY DEF At, Far
<1>7. f.data = old
  <2>1. old \subseteq 0 .. 7 /\ 9 - 2 = 7
    BY DEF Octet
  <2>2. f.data = old \cap 0 .. 7
    BY <2>1 DEF At
  <2>3. QED
    BY <2>1, <2>2
<1>2. Hear(f, o, i) = Decoder(0, f.data, Append(f.heard, f.data))
  BY <1>1 DEF Hear
<1>3. Append(f.heard, f.data) \in Seq(Octet) /\ 0 \in 0 .. 10
  BY <1>1
<1>4. Hear(f, o, i) \in Far
  BY <1>1, <1>2, <1>3, FarIn
<1>5. Hear(f, o, i).bits = 0 /\ Hear(f, o, i).heard = Append(h, old)
  <2> DEFINE a == Append(f.heard, f.data)
  <2>1. a = Append(h, old)
    BY <1>1, <1>7
  <2>2. Hear(f, o, i) = Decoder(0, f.data, a)
    BY <1>2
  <2> HIDE DEF a
  <2>3. QED
    BY <2>1, <2>2 DEF Decoder
<1>6. QED
  BY <1>4, <1>5 DEF At

\* The next bit of a character.
LEMMA DataBit ==
  ASSUME NEW h, NEW f, NEW char \in Octet, NEW n \in 1 .. 8, At(f, char, n, h),
         NEW o, NEW i, i \in o <=> n - 1 \in char
  PROVE  At(Hear(f, o, i), char, n + 1, h)
<1>1. /\ f.bits = n /\ f.data = char \cap 0 .. n - 2
      /\ f.heard \in Seq(Octet) /\ f.heard = h
  BY DEF At, Far
<1>2. PICK d : d = IF i \in o THEN f.data \cup {n - 1} ELSE f.data
  OBVIOUS
<1>3. Hear(f, o, i) = Decoder(n + 1, d, f.heard)
  BY <1>1, <1>2 DEF Hear
<1>4. d = char \cap 0 .. n - 1 /\ d \in Octet
  BY <1>1, <1>2 DEF Octet
<1>5. n + 1 \in 0 .. 10 /\ (n + 1) - 2 = n - 1 /\ n + 1 # 0
  OBVIOUS
<1>6. QED
  BY <1>1, <1>3, <1>4, <1>5, FarIn, FarFields DEF At

-----------------------------------------------------------------------------
(* An octet of the line, as each action lays it out.                        *)

\* An octet, bit by bit.
LEMMA SixBits ==
  ASSUME NEW f, NEW o
  PROVE  \E f1, f2, f3, f4, f5, f6 :
           /\ f1 = Hear(f, o, 1) /\ f2 = Hear(f1, o, 2) /\ f3 = Hear(f2, o, 3)
           /\ f4 = Hear(f3, o, 4) /\ f5 = Hear(f4, o, 5) /\ f6 = Hear(f5, o, 6)
           /\ Listen(f, o) = {f6}
  BY DEF Listen, Hear3

\* An octet of fill.
LEMMA OctetIdle ==
  ASSUME NEW h, NEW f, NEW old, NEW char, At(f, old, 0, h), NEW o, 1 .. 6 \subseteq o
  PROVE  \A g \in Listen(f, o) : At(g, char, 0, h)
<1>1. PICK f1, f2, f3, f4, f5, f6 :
        /\ f1 = Hear(f, o, 1) /\ f2 = Hear(f1, o, 2) /\ f3 = Hear(f2, o, 3)
        /\ f4 = Hear(f3, o, 4) /\ f5 = Hear(f4, o, 5) /\ f6 = Hear(f5, o, 6)
        /\ Listen(f, o) = {f6}
  BY SixBits
<1>2. At(f1, char, 0, h)
  BY <1>1, IdleBit
<1>3. At(f2, char, 0, h)
  BY <1>1, <1>2, IdleBit
<1>4. At(f3, char, 0, h)
  BY <1>1, <1>3, IdleBit
<1>5. At(f4, char, 0, h)
  BY <1>1, <1>4, IdleBit
<1>6. At(f5, char, 0, h)
  BY <1>1, <1>5, IdleBit
<1>7. QED
  BY <1>1, <1>6, IdleBit

\* A start bit and five data bits.
LEMMA OctetFirst ==
  ASSUME NEW h, NEW f, NEW old, NEW char \in Octet, At(f, old, 0, h), NEW o,
         1 \notin o, \A i \in 2 .. 6 : i \in o <=> i - 2 \in char
  PROVE  \A g \in Listen(f, o) : At(g, char, 6, h)
<1>1. PICK f1, f2, f3, f4, f5, f6 :
        /\ f1 = Hear(f, o, 1) /\ f2 = Hear(f1, o, 2) /\ f3 = Hear(f2, o, 3)
        /\ f4 = Hear(f3, o, 4) /\ f5 = Hear(f4, o, 5) /\ f6 = Hear(f5, o, 6)
        /\ Listen(f, o) = {f6}
  BY SixBits
<1>2. At(f1, char, 1, h)
  BY <1>1, StartBit
<1>3. At(f2, char, 2, h)
  BY <1>1, <1>2, DataBit
<1>4. At(f3, char, 3, h)
  BY <1>1, <1>3, DataBit
<1>5. At(f4, char, 4, h)
  BY <1>1, <1>4, DataBit
<1>6. At(f5, char, 5, h)
  BY <1>1, <1>5, DataBit
<1>7. QED
  BY <1>1, <1>6, DataBit

\* Six data bits.
LEMMA OctetMore ==
  ASSUME NEW h, NEW f, NEW char \in Octet, NEW o, At(f, char, 2, h),
         \A i \in 1 .. 6 : i \in o <=> i \in char
  PROVE  \A g \in Listen(f, o) : At(g, char, 8, h)
<1>1. PICK f1, f2, f3, f4, f5, f6 :
        /\ f1 = Hear(f, o, 1) /\ f2 = Hear(f1, o, 2) /\ f3 = Hear(f2, o, 3)
        /\ f4 = Hear(f3, o, 4) /\ f5 = Hear(f4, o, 5) /\ f6 = Hear(f5, o, 6)
        /\ Listen(f, o) = {f6}
  BY SixBits
<1>2. At(f1, char, 3, h)
  BY <1>1, DataBit
<1>3. At(f2, char, 4, h)
  BY <1>1, <1>2, DataBit
<1>4. At(f3, char, 5, h)
  BY <1>1, <1>3, DataBit
<1>5. At(f4, char, 6, h)
  BY <1>1, <1>4, DataBit
<1>6. At(f5, char, 7, h)
  BY <1>1, <1>5, DataBit
<1>7. QED
  BY <1>1, <1>6, DataBit

\* The last data bits and the stop bit of a character, by how many bits were
\* sent before: then fill.
LEMMA OctetLast4 ==
  ASSUME NEW h, NEW f, NEW char \in Octet, NEW o, NEW next, At(f, char, 4, h),
         \A i \in 1 .. 5 : i \in o <=> i + 2 \in char, 6 \in o
  PROVE  \A g \in Listen(f, o) : At(g, next, 0, Append(h, char))
<1>1. PICK f1, f2, f3, f4, f5, f6 :
        /\ f1 = Hear(f, o, 1) /\ f2 = Hear(f1, o, 2) /\ f3 = Hear(f2, o, 3)
        /\ f4 = Hear(f3, o, 4) /\ f5 = Hear(f4, o, 5) /\ f6 = Hear(f5, o, 6)
        /\ Listen(f, o) = {f6}
  BY SixBits
<1>2. At(f1, char, 5, h)
  BY <1>1, DataBit
<1>3. At(f2, char, 6, h)
  BY <1>1, <1>2, DataBit
<1>4. At(f3, char, 7, h)
  BY <1>1, <1>3, DataBit
<1>5. At(f4, char, 8, h)
  BY <1>1, <1>4, DataBit
<1>6. At(f5, char, 9, h)
  BY <1>1, <1>5, DataBit
<1>7. QED
  BY <1>1, <1>6, StopBit

LEMMA OctetLast6 ==
  ASSUME NEW h, NEW f, NEW char \in Octet, NEW o, NEW next, At(f, char, 6, h),
         \A i \in 1 .. 3 : i \in o <=> i + 4 \in char, 4 .. 6 \subseteq o
  PROVE  \A g \in Listen(f, o) : At(g, next, 0, Append(h, char))
<1>1. PICK f1, f2, f3, f4, f5, f6 :
        /\ f1 = Hear(f, o, 1) /\ f2 = Hear(f1, o, 2) /\ f3 = Hear(f2, o, 3)
        /\ f4 = Hear(f3, o, 4) /\ f5 = Hear(f4, o, 5) /\ f6 = Hear(f5, o, 6)
        /\ Listen(f, o) = {f6}
  BY SixBits
<1>2. At(f1, char, 7, h)
  BY <1>1, DataBit
<1>3. At(f2, char, 8, h)
  BY <1>1, <1>2, DataBit
<1>4. At(f3, char, 9, h)
  BY <1>1, <1>3, DataBit
<1>5. At(f4, next, 0, Append(h, char))
  BY <1>1, <1>4, StopBit
<1>6. At(f5, next, 0, Append(h, char))
  BY <1>1, <1>5, IdleBit
<1>7. QED
  BY <1>1, <1>6, IdleBit

LEMMA OctetLast8 ==
  ASSUME NEW h, NEW f, NEW char \in Octet, NEW o, NEW next, At(f, char, 8, h),
         1 \in o <=> 7 \in char, 2 .. 6 \subseteq o
  PROVE  \A g \in Listen(f, o) : At(g, next, 0, Append(h, char))
<1>1. PICK f1, f2, f3, f4, f5, f6 :
        /\ f1 = Hear(f, o, 1) /\ f2 = Hear(f1, o, 2) /\ f3 = Hear(f2, o, 3)
        /\ f4 = Hear(f3, o, 4) /\ f5 = Hear(f4, o, 5) /\ f6 = Hear(f5, o, 6)
        /\ Listen(f, o) = {f6}
  BY SixBits
<1>2. At(f1, char, 9, h)
  BY <1>1, DataBit
<1>3. At(f2, next, 0, Append(h, char))
  BY <1>1, <1>2, StopBit
<1>4. At(f3, next, 0, Append(h, char))
  BY <1>1, <1>3, IdleBit
<1>5. At(f4, next, 0, Append(h, char))
  BY <1>1, <1>4, IdleBit
<1>6. At(f5, next, 0, Append(h, char))
  BY <1>1, <1>5, IdleBit
<1>7. QED
  BY <1>1, <1>6, IdleBit

\* The same, then the start bit and the first data bits of the next character.
LEMMA OctetNext6 ==
  ASSUME NEW h, NEW f, NEW char \in Octet, NEW o, NEW next \in Octet,
         At(f, char, 6, h), \A i \in 1 .. 3 : i \in o <=> i + 4 \in char,
         4 \in o, 5 \notin o, 6 \in o <=> 0 \in next
  PROVE  \A g \in Listen(f, o) : At(g, next, 2, Append(h, char))
<1>1. PICK f1, f2, f3, f4, f5, f6 :
        /\ f1 = Hear(f, o, 1) /\ f2 = Hear(f1, o, 2) /\ f3 = Hear(f2, o, 3)
        /\ f4 = Hear(f3, o, 4) /\ f5 = Hear(f4, o, 5) /\ f6 = Hear(f5, o, 6)
        /\ Listen(f, o) = {f6}
  BY SixBits
<1>2. At(f1, char, 7, h)
  BY <1>1, DataBit
<1>3. At(f2, char, 8, h)
  BY <1>1, <1>2, DataBit
<1>4. At(f3, char, 9, h)
  BY <1>1, <1>3, DataBit
<1>5. At(f4, next, 0, Append(h, char))
  BY <1>1, <1>4, StopBit
<1>6. At(f5, next, 1, Append(h, char))
  BY <1>1, <1>5, StartBit
<1>7. QED
  BY <1>1, <1>6, DataBit

LEMMA OctetNext8 ==
  ASSUME NEW h, NEW f, NEW char \in Octet, NEW o, NEW next \in Octet,
         At(f, char, 8, h), 1 \in o <=> 7 \in char, 2 \in o, 3 \notin o,
         \A i \in 4 .. 6 : i \in o <=> i - 4 \in next
  PROVE  \A g \in Listen(f, o) : At(g, next, 4, Append(h, char))
<1>1. PICK f1, f2, f3, f4, f5, f6 :
        /\ f1 = Hear(f, o, 1) /\ f2 = Hear(f1, o, 2) /\ f3 = Hear(f2, o, 3)
        /\ f4 = Hear(f3, o, 4) /\ f5 = Hear(f4, o, 5) /\ f6 = Hear(f5, o, 6)
        /\ Listen(f, o) = {f6}
  BY SixBits
<1>2. At(f1, char, 9, h)
  BY <1>1, DataBit
<1>3. At(f2, next, 0, Append(h, char))
  BY <1>1, <1>2, StopBit
<1>4. At(f3, next, 1, Append(h, char))
  BY <1>1, <1>3, StartBit
<1>5. At(f4, next, 2, Append(h, char))
  BY <1>1, <1>4, DataBit
<1>6. At(f5, next, 3, Append(h, char))
  BY <1>1, <1>5, DataBit
<1>7. QED
  BY <1>1, <1>6, DataBit

-----------------------------------------------------------------------------
(* The bits v110_getline puts into the octet.                               *)

\* What Blank, the masks and the shifts leave of the six bits.
LEMMA BlankBits == 1 .. 6 \subseteq Blank
  BY DEF Blank

LEMMA FinishBits ==
  ASSUME NEW n \in {2, 4, 6, 8}, nextobit = n, obuf[obufstart] \in Octet
  PROVE  \A i \in 1 .. 6 :
           i \in Finish <=> (i + n - 2 \in obuf[obufstart] \/ i >= 10 - n)
  BY DEF Finish, Byte, Shr, Helper1, Octet

LEMMA StartingBits ==
  ASSUME NEW char \in Octet, NEW place \in {2, 4, 6}
  PROVE  \A i \in 1 .. 6 :
           i \in Starting(char, place) <=> (i <= place - 2 \/ i - place \in char)
  BY DEF Starting, Byte, Shl, Helper2, Octet

LEMMA BlankOctet ==
  ASSUME TypeOK
  PROVE  Blank \in Octet
  BY DEF Blank, TypeOK, Bit7, Octet

-----------------------------------------------------------------------------
(* The actions.                                                             *)

\* The far end before a step, and the entries the step looks at.
LEMMA Before ==
  ASSUME IInv
  PROVE  /\ nextobit \in {0, 2, 4, 6, 8}
         /\ At(far, obuf[obufstart], nextobit, far.heard)
         /\ obufstart \in 0 .. BufLen - 1 /\ Popped \in 0 .. BufLen - 1
         /\ obuf[obufstart] \in Octet /\ obuf[Popped] \in Octet
         /\ Blank \in Octet
<1>1. obufstart \in 0 .. BufLen - 1 /\ Popped \in 0 .. BufLen - 1
  BY TxAssumption DEF IInv, TypeOK, Popped
<1>2. obuf[obufstart] \in Octet /\ obuf[Popped] \in Octet
  BY <1>1 DEF IInv, TypeOK
<1>3. nextobit \in {0, 2, 4, 6, 8} /\ At(far, obuf[obufstart], nextobit, far.heard)
  BY DEF IInv, TypeOK, InStep, At, Far
<1>4. QED
  BY <1>1, <1>2, <1>3, BlankOctet DEF IInv

\* What is left to show of an action that sends a data octet.
LEMMA SendDataInv ==
  ASSUME IInv, NEW o \in Octet, SendData(o),
         NEW n \in {0, 2, 4, 6, 8}, nextobit' = n, NEW char, NEW h,
         \A g \in Listen(far, o) : At(g, char, n, h),
         obufstart' \in 0 .. BufLen - 1,
         n # 0 => obufstart' # obufend /\ char = obuf[obufstart'],
         far'.heard = h => Delivered'
  PROVE  IInv'
<1>1. far' \in Listen(far, o) /\ UNCHANGED <<obuf, obufend, taken, cts, rts, sbit, input>>
  BY DEF SendData, ring, status
<1>2. octet' \in Octet /\ nextoline' \in 1 .. 10
  BY DEF SendData, Send, IInv, TypeOK
<1>3. far' \in Far /\ far'.bits = n /\ (n # 0 => far'.data = char \cap 0 .. n - 2) /\ far'.heard = h
  BY <1>1 DEF At
<1>4. TypeOK'
  BY <1>1, <1>2, <1>3 DEF IInv, TypeOK, Far
<1>5. InStep'
  BY <1>1, <1>3 DEF InStep
<1>6. QED
  BY <1>3, <1>4, <1>5 DEF IInv

\* Such an action within a character, or between two.
LEMMA SendDataKeeps ==
  ASSUME IInv, NEW o \in Octet, SendData(o),
         NEW n \in {0, 2, 4, 6, 8}, nextobit' = n, NEW char,
         \A g \in Listen(far, o) : At(g, char, n, far.heard),
         obufstart' = obufstart,
         n # 0 => obufstart # obufend /\ char = obuf[obufstart]
  PROVE  IInv'
<1>1. UNCHANGED <<obuf, obufend, taken, input>>
  BY DEF SendData, ring
<1>2. far'.heard = far.heard => Delivered'
  BY <1>1 DEF IInv, Delivered, Waiting
<1>3. obufstart' \in 0 .. BufLen - 1
  BY Before
<1>4. QED
  BY <1>1, <1>2, <1>3, SendDataInv

\* Such an action with a character's last bit: the character heard is the one
\* that leaves the ring.
LEMMA SendDataEnds ==
  ASSUME IInv, NEW o \in Octet, SendData(o), nextobit # 0,
         NEW n \in {0, 2, 4, 6, 8}, nextobit' = n, NEW char,
         \A g \in Listen(far, o) : At(g, char, n, Append(far.heard, obuf[obufstart])),
         obufstart' = Popped,
         n # 0 => Popped # obufend /\ char = obuf[Popped]
  PROVE  IInv'
<1>1. UNCHANGED <<obuf, obufend, taken, input>>
  BY DEF SendData, ring
<1>2. /\ BufLen \in Nat /\ BufLen > 1 /\ obufstart \in 0 .. BufLen - 1 /\ obufend \in 0 .. BufLen - 1
      /\ obufstart # obufend /\ far.heard \in Seq(Octet) /\ Len(far.heard) \in Nat
      /\ obuf[obufstart] \in Octet /\ taken \in Nat
  BY TxAssumption, Before DEF IInv, TypeOK, InStep
<1> DEFINE h == far.heard
           g == Append(h, obuf[obufstart])
<1>3. Delivered
  BY DEF IInv
<1>4. Len(g) = Len(h) + 1 /\ (\A j \in 1 .. Len(h) : g[j] = h[j]) /\ g[Len(h) + 1] = obuf[obufstart]
  BY <1>2
<1>5. /\ Waiting' = Waiting - 1 /\ 1 <= Waiting /\ Waiting \in Nat
      /\ Slot(BufLen, obufstart, 0) = obufstart
      /\ \A j \in 0 .. Waiting - 2 : Slot(BufLen, Popped, j) = Slot(BufLen, obufstart, 1 + j)
  <2>1. 1 \in 0 .. (IF obufend > obufstart THEN obufend - obufstart ELSE BufLen - obufstart)
    BY <1>2
  <2>2. /\ Dist(BufLen, Popped, obufend) = Waiting - 1 /\ 1 <= Waiting
        /\ \A j \in 0 .. 1 - 1 : Slot(BufLen, obufstart, j) = obufstart + j
        /\ \A j \in 0 .. Waiting - 1 - 1 : Slot(BufLen, Popped, j) = Slot(BufLen, obufstart, 1 + j)
    BY <1>2, <2>1, RingTaken DEF Popped, Waiting
  <2>3. Waiting \in 0 .. BufLen - 1
    BY <1>2, RingFacts DEF Waiting
  <2>4. Waiting - 1 - 1 = Waiting - 2 /\ 0 \in 0 .. 1 - 1 /\ obufstart + 0 = obufstart
    BY <1>2, <2>3
  <2>5. QED
    BY <1>1, <1>2, <2>2, <2>3, <2>4 DEF Waiting
<1>6. obuf[obufstart] = input[Len(h) + 1]
  <2>1. 0 \in 0 .. Waiting - 1 /\ Len(h) + 0 + 1 = Len(h) + 1
    BY <1>2, <1>5
  <2>2. QED
    BY <1>3, <1>5, <2>1 DEF Delivered
<1> HIDE DEF g
<1>7. ASSUME far'.heard = g PROVE Delivered'
  <2>1. Len(g) + Waiting' = taken'
    <3>1. Len(h) + Waiting = taken /\ taken' = taken
      BY <1>1, <1>3 DEF Delivered
    <3>2. Len(g) = Len(h) + 1 /\ Waiting' = Waiting - 1 /\ Len(h) \in Nat /\ Waiting \in Nat
      BY <1>2, <1>4, <1>5
    <3> HIDE DEF h
    <3>3. QED
      BY <3>1, <3>2
  <2>2. ASSUME NEW j \in 1 .. Len(g) PROVE g[j] = input[j]
    <3>1. j \in 1 .. Len(h) \/ j = Len(h) + 1
      BY <1>2, <1>4
    <3>2. QED
      BY <1>3, <1>4, <1>6, <3>1 DEF Delivered
  <2>3. ASSUME NEW j \in 0 .. Waiting' - 1
        PROVE  obuf[Slot(BufLen, Popped, j)] = input[Len(g) + j + 1]
    <3>1. j \in 0 .. Waiting - 2 /\ 1 + j \in 0 .. Waiting - 1 /\ Len(h) + (1 + j) + 1 = Len(g) + j + 1
      <4>1. Waiting' - 1 = Waiting - 2 /\ Waiting \in Nat /\ Len(g) = Len(h) + 1 /\ Len(h) \in Nat
        BY <1>2, <1>4, <1>5
      <4>2. j \in 0 .. Waiting - 2
        BY <4>1
      <4> HIDE DEF h
      <4>3. QED
        BY <4>1, <4>2
    <3>2. QED
      BY <1>3, <1>5, <3>1 DEF Delivered
  <2>4. QED
    BY <1>1, <1>7, <2>1, <2>2, <2>3 DEF Delivered
<1>8. obufstart' \in 0 .. BufLen - 1
  BY Before
<1>9. QED
  BY <1>1, <1>7, <1>8, SendDataInv DEF g

\* One action each: SendDataKeeps or SendDataEnds with the octet it sends.
LEMMA SendIdleStep ==
  ASSUME IInv, SendIdle
  PROVE  IInv'
<1>1. \A g \in Listen(far, Blank) : At(g, {}, 0, far.heard)
  BY Before, BlankBits, OctetIdle DEF SendIdle
<1>2. QED
  BY <1>1, Before, SendDataKeeps DEF SendIdle

LEMMA SendFirstStep ==
  ASSUME IInv, SendFirst
  PROVE  IInv'
<1> DEFINE char == obuf[obufstart]
           o == Blank \cap Starting(char, 2)
<1>1. SendData(o) /\ nextobit = 0 /\ nextobit' = 6 /\ obufstart' = obufstart
      /\ obufstart # obufend
  BY DEF SendFirst, MayStart
<1>2. 1 \notin o /\ \A i \in 2 .. 6 : i \in o <=> i - 2 \in char
  BY Before, BlankBits, StartingBits DEF Octet
<1>3. o \in Octet
  BY Before DEF Octet
<1> HIDE DEF o
<1>4. \A g \in Listen(far, o) : At(g, char, 6, far.heard)
  BY <1>1, <1>2, Before, OctetFirst
<1>5. QED
  BY <1>1, <1>3, <1>4, Before, SendDataKeeps

LEMMA SendMoreStep ==
  ASSUME IInv, SendMore
  PROVE  IInv'
<1> DEFINE char == obuf[obufstart]
           o == Blank \cap Finish
<1>1. SendData(o) /\ nextobit = 2 /\ nextobit' = 8 /\ obufstart' = obufstart
      /\ obufstart # obufend
  BY Before DEF SendMore, IInv, InStep
<1>2. \A i \in 1 .. 6 : i \in o <=> i \in char
  BY <1>1, Before, BlankBits, FinishBits
<1>3. o \in Octet
  BY Before DEF Octet
<1> HIDE DEF o
<1>4. \A g \in Listen(far, o) : At(g, char, 8, far.heard)
  BY <1>1, <1>2, Before, OctetMore
<1>5. QED
  BY <1>1, <1>3, <1>4, Before, SendDataKeeps

LEMMA SendLastStep ==
  ASSUME IInv, SendLast
  PROVE  IInv'
<1> DEFINE char == obuf[obufstart]
           o == Blank \cap Finish
<1>1. SendData(o) /\ nextobit \in {4, 6, 8} /\ nextobit' = 0 /\ obufstart' = Popped
  BY Before DEF SendLast
<1>2. \A i \in 1 .. 6 : i \in o <=> (i + nextobit - 2 \in char \/ i >= 10 - nextobit)
  BY <1>1, Before, BlankBits, FinishBits
<1>3. o \in Octet
  BY Before DEF Octet
<1> HIDE DEF o
<1>4. \A g \in Listen(far, o) : At(g, {}, 0, Append(far.heard, char))
  <2>1. CASE nextobit = 4
    <3>1. (\A i \in 1 .. 5 : i \in o <=> i + 2 \in char) /\ 6 \in o
      BY <1>2, <2>1
    <3>2. QED
      BY <2>1, <3>1, Before, OctetLast4
  <2>2. CASE nextobit = 6
    <3>1. (\A i \in 1 .. 3 : i \in o <=> i + 4 \in char) /\ 4 .. 6 \subseteq o
      BY <1>2, <2>2
    <3>2. QED
      BY <2>2, <3>1, Before, OctetLast6
  <2>3. CASE nextobit = 8
    <3>1. (1 \in o <=> 7 \in char) /\ 2 .. 6 \subseteq o
      BY <1>2, <2>3
    <3>2. QED
      BY <2>3, <3>1, Before, OctetLast8
  <2>4. QED
    BY <1>1, <2>1, <2>2, <2>3
<1>5. QED
  BY <1>1, <1>3, <1>4, Before, SendDataEnds

LEMMA SendLastAndFirstStep ==
  ASSUME IInv, SendLastAndFirst
  PROVE  IInv'
<1> DEFINE char == obuf[obufstart]
           next == obuf[Popped]
           o == Blank \cap Finish \cap Starting(next, 12 - nextobit)
<1>1. SendData(o) /\ nextobit \in {6, 8} /\ nextobit' = nextobit - 4 /\ obufstart' = Popped
      /\ Popped # obufend
  BY Before DEF SendLastAndFirst, MayStart
<1>2. \A i \in 1 .. 6 :
        i \in o <=> /\ i + nextobit - 2 \in char \/ i >= 10 - nextobit
                    /\ i <= 10 - nextobit \/ i - (12 - nextobit) \in next
  BY <1>1, Before, BlankBits, FinishBits, StartingBits
<1>3. o \in Octet
  BY Before DEF Octet
<1> HIDE DEF o
<1>4. \A g \in Listen(far, o) : At(g, next, nextobit - 4, Append(far.heard, char))
  <2>1. CASE nextobit = 6
    <3>1. /\ \A i \in 1 .. 3 : i \in o <=> i + 4 \in char
          /\ 4 \in o /\ 5 \notin o /\ (6 \in o <=> 0 \in next)
      BY <1>2, <2>1, Before DEF Octet
    <3>2. QED
      BY <2>1, <3>1, Before, OctetNext6
  <2>2. CASE nextobit = 8
    <3>1. /\ 1 \in o <=> 7 \in char
          /\ 2 \in o /\ 3 \notin o
          /\ \A i \in 4 .. 6 : i \in o <=> i - 4 \in next
      BY <1>2, <2>2, Before DEF Octet
    <3>2. QED
      BY <2>2, <3>1, Before, OctetNext8
  <2>3. QED
    BY <1>1, <2>1, <2>2
<1>5. QED
  BY <1>1, <1>3, <1>4, Before, SendDataEnds

\* Header and E-bits carry no data.
LEMMA SendOtherStep ==
  ASSUME IInv, SendHeader \/ SendEBits
  PROVE  IInv'
<1>1. octet' \in Octet /\ nextoline' \in 1 .. 10
  BY DEF SendHeader, SendEBits, Send, IInv, TypeOK, Octet
<1>2. UNCHANGED <<nextobit, obuf, obufstart, obufend, cts, rts, sbit, taken, input, far>>
  BY DEF SendHeader, SendEBits, ring, status
<1>3. QED
  BY <1>1, <1>2 DEF IInv, TypeOK, InStep, Delivered, Waiting

\* read() is never asked for the entry at obufstart while a character is there.
LEMMA ReplenishStep ==
  ASSUME IInv, Replenish
  PROVE  IInv'
<1>1. PICK r \in 1 .. Want :
        /\ taken + r <= Len(input)
        /\ obuf' = [i \in 0 .. BufLen - 1 |->
                      IF i \in obufend .. obufend + r - 1
                      THEN input[taken + 1 + i - obufend] ELSE obuf[i]]
        /\ obufend' = IF obufend + r = BufLen THEN 0 ELSE obufend + r
        /\ taken' = taken + r
        /\ UNCHANGED <<nextoline, nextobit, obufstart, status, octet, input, far>>
  BY DEF Replenish
<1>2. /\ obufstart \in 0 .. BufLen - 1 /\ obufend \in 0 .. BufLen - 1
      /\ taken \in Nat /\ input \in Seq(Octet)
  BY TxAssumption DEF IInv, TypeOK
<1>3. /\ obufend + r <= BufLen
      /\ obufend < obufstart => obufend + r < obufstart
      /\ obufstart = 0 => obufend + r < BufLen
  BY <1>2, TxAssumption DEF Want
<1>4. r \in Nat /\ obufend' \in 0 .. BufLen - 1 /\ taken' \in 0 .. Len(input)
  <2>1. Want \in Int
    BY <1>2, TxAssumption DEF Want
  <2>2. r \in Nat
    BY <2>1
  <2>3. obufend' \in 0 .. BufLen - 1
    BY <1>1, <1>2, <1>3, <2>2, TxAssumption
  <2>4. QED
    BY <1>1, <1>2, <2>2, <2>3
<1>5. obuf' \in [0 .. BufLen - 1 -> Octet]
  <2>1. ASSUME NEW i \in obufend .. obufend + r - 1
        PROVE  input[taken + 1 + i - obufend] \in Octet
    <3>1. taken + 1 + i - obufend \in 1 .. Len(input)
      BY <1>1, <1>2
    <3>2. QED
      BY <3>1, <1>2
  <2>2. \A i \in 0 .. BufLen - 1 : obuf[i] \in Octet
    BY DEF IInv, TypeOK
  <2>3. QED
    BY <1>1, <2>1, <2>2
<1>6. TypeOK'
  BY <1>1, <1>4, <1>5 DEF IInv, TypeOK, status
<1>7. obufstart # obufend => obufstart # obufend' /\ obuf'[obufstart] = obuf[obufstart]
  BY <1>1, <1>2, <1>3
<1>8. Delivered'
  <2>1. /\ BufLen \in Nat /\ BufLen > 1 /\ far.heard \in Seq(Octet) /\ Len(far.heard) \in Nat
        /\ Len(far.heard) + Waiting = taken
        /\ \A j \in 1 .. Len(far.heard) : far.heard[j] = input[j]
        /\ \A j \in 0 .. Waiting - 1 : obuf[Slot(BufLen, obufstart, j)] = input[Len(far.heard) + j + 1]
    BY TxAssumption DEF IInv, TypeOK, Delivered
  <2>2. r \in 0 .. (IF obufend >= obufstart THEN BufLen - obufend - (IF obufstart = 0 THEN 1 ELSE 0)
                                            ELSE obufstart - obufend - 1)
    BY <1>2, <1>3, <2>1
  <2>3. /\ Dist(BufLen, obufstart, obufend') = Waiting + r
        /\ \A j \in 0 .. Waiting - 1 : Slot(BufLen, obufstart, j) \notin obufend .. obufend + r - 1
        /\ \A j \in 0 .. r - 1 : /\ Slot(BufLen, obufstart, Waiting + j) = obufend + j
                                 /\ obufend + j \in 0 .. BufLen - 1
    <3>1. obufend' = IF obufend + r = BufLen THEN 0 ELSE obufend + r
      BY <1>1
    <3>2. BufLen \in Nat /\ BufLen > 1 /\ obufstart \in 0 .. BufLen - 1 /\ obufend \in 0 .. BufLen - 1
      BY <1>2, <2>1
    <3>3. LET f == IF obufend + r = BufLen THEN 0 ELSE obufend + r
              c == Dist(BufLen, obufstart, obufend)
          IN  /\ Dist(BufLen, obufstart, f) = c + r
              /\ \A j \in 0 .. c - 1 : Slot(BufLen, obufstart, j) \notin obufend .. obufend + r - 1
              /\ \A j \in 0 .. r - 1 : /\ Slot(BufLen, obufstart, c + j) = obufend + j
                                       /\ obufend + j \in 0 .. BufLen - 1
      BY <2>2, <3>2, RingFilled
    <3>4. QED
      BY <3>1, <3>3 DEF Waiting
  <2>4. /\ Waiting \in 0 .. BufLen - 1
        /\ \A j \in 0 .. Waiting - 1 : Slot(BufLen, obufstart, j) \in 0 .. BufLen - 1
    BY <1>2, <2>1, RingFacts DEF Waiting
  <2>5. Waiting' = Waiting + r /\ far' = far /\ input' = input /\ obufstart' = obufstart /\ taken' = taken + r
    BY <1>1, <2>3 DEF Waiting
  <2>6. r \in Nat /\ Waiting \in Nat /\ obufend \in Nat
    BY <1>2, <1>4, <2>4, <2>1
  <2>7. ASSUME NEW j \in 0 .. Waiting + r - 1
        PROVE  obuf'[Slot(BufLen, obufstart, j)] = input[Len(far.heard) + j + 1]
    <3>1. CASE j < Waiting
      <4> DEFINE i == Slot(BufLen, obufstart, j)
      <4>1. j \in 0 .. Waiting - 1
        BY <2>6, <3>1
      <4>2. i \in 0 .. BufLen - 1 /\ i \notin obufend .. obufend + r - 1
        BY <2>3, <2>4, <4>1
      <4>3. obuf[i] = input[Len(far.heard) + j + 1]
        BY <2>1, <4>1
      <4> HIDE DEF i
      <4>4. obuf'[i] = obuf[i]
        BY <1>1, <4>2
      <4>5. QED
        BY <4>3, <4>4 DEF i
    <3>2. CASE j >= Waiting
      <4> DEFINE k == j - Waiting
      <4>1. k \in 0 .. r - 1 /\ Waiting + k = j
        BY <2>6, <3>2
      <4>2. taken + 1 + (obufend + k) - obufend = Len(far.heard) + j + 1
        <5>1. Len(far.heard) + Waiting = taken /\ Len(far.heard) \in Nat
          BY <2>1
        <5> DEFINE n == Len(far.heard)
        <5> HIDE DEF n, k
        <5>2. n + Waiting = taken /\ n \in Nat /\ k \in Nat
          BY <4>1, <5>1 DEF n
        <5>3. taken + 1 + (obufend + k) - obufend = n + j + 1
          BY <2>6, <4>1, <5>2
        <5>4. QED
          BY <5>3 DEF n
      <4> HIDE DEF k
      <4>3. Slot(BufLen, obufstart, j) = obufend + k /\ obufend + k \in 0 .. BufLen - 1
        BY <2>3, <4>1
      <4>4. obufend + k \in obufend .. obufend + r - 1
        BY <2>6, <4>1
      <4>5. obuf'[obufend + k] = input[taken + 1 + (obufend + k) - obufend]
        BY <1>1, <4>3, <4>4
      <4>6. QED
        BY <4>2, <4>3, <4>5
    <3>3. QED
      BY <2>6, <3>1, <3>2
  <2>8. Len(far.heard) + (Waiting + r) = taken + r
    <3>1. Len(far.heard) + Waiting = taken /\ Len(far.heard) \in Nat
      BY <2>1
    <3> DEFINE n == Len(far.heard)
    <3>2. n + Waiting = taken /\ n \in Nat /\ taken \in Nat
      BY <1>2, <3>1
    <3> HIDE DEF n
    <3>3. n + (Waiting + r) = taken + r
      BY <2>6, <3>2
    <3>4. QED
      BY <3>3 DEF n
  <2>9. Len(far'.heard) + Waiting' = taken'
    BY <2>5, <2>8
  <2>10. \A j \in 1 .. Len(far'.heard) : far'.heard[j] = input'[j]
    BY <2>1, <2>5
  <2>11. \A j \in 0 .. Waiting' - 1 : obuf'[Slot(BufLen, obufstart', j)] = input'[Len(far'.heard) + j + 1]
    <3>1. Waiting' - 1 = Waiting + r - 1
      BY <2>5, <2>6
    <3>2. QED
      BY <2>5, <2>7, <3>1, Zenon
  <2>12. QED
    BY <2>9, <2>10, <2>11 DEF Delivered
<1>9. QED
  BY <1>1, <1>6, <1>7, <1>8 DEF IInv, InStep, status

\* The inductive invariant of V110Tx.
THEOREM V110TxIInv == Spec => []IInv
<1>1. Init => IInv
  <2> SUFFICES ASSUME Init PROVE IInv
    OBVIOUS
  <2>1. far \in Far /\ far.bits = 0
    <3>1. {} \in Octet /\ << >> \in Seq(Octet) /\ 0 \in 0 .. 10
      BY DEF Octet
    <3>2. Decoder(0, {}, << >>) \in Far
      BY <3>1 DEF Far, Decoder
    <3>3. Decoder(0, {}, << >>).bits = 0
      BY FarFields
    <3>4. QED
      BY <3>2, <3>3 DEF Init
  <2>2. 0 \in 0 .. BufLen - 1 /\ HeaderLine \in 1 .. 10
    BY TxAssumption DEF HeaderLine
  <2>3. obuf \in [0 .. BufLen - 1 -> Octet] /\ octet \in Octet
    BY DEF Init, Octet
  <2>4. taken \in 0 .. Len(input)
    BY TxAssumption DEF Init
  <2>5. TypeOK
    BY <2>1, <2>2, <2>3, <2>4 DEF Init, TypeOK, Far, Bit7
  <2>6. InStep
    BY <2>1 DEF Init, InStep
  <2>7. Delivered
    <3>1. far.heard = << >> /\ taken = 0 /\ obufstart = 0 /\ obufend = 0
      BY FarFields DEF Init
    <3>2. Dist(BufLen, 0, 0) = 0
      BY <2>2, TxAssumption, RingFacts
    <3>3. QED
      BY <3>1, <3>2 DEF Delivered, Waiting
  <2>8. QED
    BY <2>5, <2>6, <2>7 DEF IInv
<1>2. IInv /\ [Next]_vars => IInv'
  <2> SUFFICES ASSUME IInv, [Next]_vars PROVE IInv'
    OBVIOUS
  <2>1. CASE Getline
    BY <2>1, SendOtherStep, SendIdleStep, SendFirstStep, SendMoreStep, SendLastStep,
       SendLastAndFirstStep DEF Getline
  <2>2. CASE Replenish
    BY <2>2, ReplenishStep
  <2>3. CASE SetStatus
    BY <2>3 DEF SetStatus, ring, IInv, TypeOK, InStep, Delivered, Waiting, Bit7
  <2>4. CASE UNCHANGED vars
    BY <2>4 DEF vars, ring, status, IInv, TypeOK, InStep, Delivered, Waiting
  <2>5. QED
    BY <2>1, <2>2, <2>3, <2>4 DEF Next
<1>3. QED
  BY <1>1, <1>2, PTL DEF Spec

\* TypeOK of v110_getline and the socket side of its ring.
THEOREM V110TxTypeOK == Spec => []TypeOK
  BY V110TxIInv, PTL DEF IInv

\* Framing on the line: whatever the ring's length, the reads' sizes, the octets
\* asked for between them and the flow control, the far end is in step, and the
\* character it is hearing is the one at obufstart.
THEOREM V110TxInStep == Spec => []InStep
  BY V110TxIInv, PTL DEF IInv

\* Nothing is lost, doubled or reordered between read() and the line: for every
\* length of the ring and every threshold, the room the loop of sbridge_run_v110
\* computes and v110_getline's pops leave each character its entry until it is heard.
THEOREM V110TxNothingLost == Spec => []NothingLost
<1>1. IInv => NothingLost
  <2> SUFFICES ASSUME IInv PROVE far.heard \o Held = SubSeq(input, 1, taken)
    BY DEF NothingLost
  <2> DEFINE h == far.heard
             q == h \o Held
             t == SubSeq(input, 1, taken)
  <2>1. /\ BufLen \in Nat /\ BufLen > 1 /\ obufstart \in 0 .. BufLen - 1 /\ obufend \in 0 .. BufLen - 1
        /\ obuf \in [0 .. BufLen - 1 -> Octet] /\ h \in Seq(Octet) /\ Len(h) \in Nat
        /\ input \in Seq(Octet) /\ Len(input) \in Nat /\ taken \in 0 .. Len(input)
    BY TxAssumption DEF IInv, TypeOK
  <2>2. /\ Len(h) + Waiting = taken
        /\ \A j \in 1 .. Len(h) : h[j] = input[j]
        /\ \A j \in 0 .. Waiting - 1 : obuf[Slot(BufLen, obufstart, j)] = input[Len(h) + j + 1]
    BY DEF IInv, Delivered
  <2>3. /\ Waiting \in 0 .. BufLen - 1 /\ Waiting \in Nat
        /\ Waiting = IF obufend >= obufstart THEN obufend - obufstart ELSE obufend + BufLen - obufstart
        /\ \A j \in 0 .. Waiting - 1 : Slot(BufLen, obufstart, j) \in 0 .. BufLen - 1
    <3>1. BufLen \in Nat /\ BufLen > 1 /\ obufstart \in 0 .. BufLen - 1 /\ obufend \in 0 .. BufLen - 1
      BY <2>1
    <3>2. /\ Waiting \in 0 .. BufLen - 1
          /\ \A j \in 0 .. Waiting - 1 : Slot(BufLen, obufstart, j) \in 0 .. BufLen - 1
      BY <3>1, RingFacts DEF Waiting
    <3>3. Waiting = IF obufend >= obufstart THEN obufend - obufstart ELSE obufend + BufLen - obufstart
      BY <3>1, DistIs DEF Waiting
    <3>4. QED
      BY <3>1, <3>2, <3>3
  <2> DEFINE e(i) == obuf[(obufstart + i - 1) % BufLen]
             w == [i \in 1 .. Waiting |-> e(i)]
  <2>4. Held = w
    BY <2>3 DEF Held
  <2>5. \A i \in 1 .. Waiting : e(i) \in Octet /\ e(i) = input[Len(h) + i]
    <3>1. SUFFICES ASSUME NEW i \in 1 .. Waiting PROVE e(i) \in Octet /\ e(i) = input[Len(h) + i]
      OBVIOUS
    <3>2. /\ i - 1 \in 0 .. Waiting - 1 /\ obufstart + (i - 1) = obufstart + i - 1
          /\ Len(h) + (i - 1) + 1 = Len(h) + i
      BY <2>1, <2>3
    <3>3. (obufstart + i - 1) % BufLen = Slot(BufLen, obufstart, i - 1)
      BY <3>2 DEF Slot
    <3>4. Slot(BufLen, obufstart, i - 1) \in 0 .. BufLen - 1
      BY <2>3, <3>2
    <3>5. QED
      BY <2>1, <2>2, <3>2, <3>3, <3>4
  <2> HIDE DEF e
  <2>6. w \in Seq(Octet)
    BY <2>3, <2>5, IsASeq
  <2>7. Len(w) = Waiting /\ \A i \in 1 .. Waiting : w[i] = input[Len(h) + i]
    BY <2>3, <2>5
  <2> HIDE DEF h, w
  <2>8. /\ q \in Seq(Octet) /\ Len(q) = taken
        /\ \A j \in 1 .. taken : q[j] = input[j]
    <3>1. /\ q \in Seq(Octet) /\ Len(q) = Len(h) + Waiting
          /\ \A j \in 1 .. Len(h) + Waiting : q[j] = IF j <= Len(h) THEN h[j] ELSE w[j - Len(h)]
      <4>1. h \in Seq(Octet) /\ w \in Seq(Octet) /\ Len(w) = Waiting /\ q = h \o w
        BY <2>1, <2>4, <2>6, <2>7
      <4> HIDE DEF q
      <4>2. QED
        BY <4>1, ConcatProperties
    <3> HIDE DEF q
    <3>2. ASSUME NEW j \in 1 .. taken PROVE q[j] = input[j]
      <4>1. j \in 1 .. Len(h) + Waiting /\ j \in Nat
        BY <2>1, <2>2, <2>3
      <4>2. CASE j <= Len(h)
        BY <2>1, <2>2, <3>1, <4>1, <4>2
      <4>3. CASE j > Len(h)
        <5>1. j - Len(h) \in 1 .. Waiting /\ Len(h) + (j - Len(h)) = j
          BY <2>1, <2>3, <4>1, <4>3
        <5>2. QED
          BY <2>1, <2>7, <3>1, <4>1, <4>3, <5>1
      <4>4. QED
        BY <2>1, <4>1, <4>2, <4>3
    <3>3. QED
      BY <2>2, <3>1, <3>2
  <2>9. /\ t \in Seq(Octet) /\ Len(t) = taken
        /\ \A j \in 1 .. taken : t[j] = input[j]
    <3>1. \A j \in 1 .. taken : input[j] \in Octet
      BY <2>1
    <3>2. /\ taken \in Nat /\ taken \in Int /\ 1 \in Int /\ taken - 1 + 1 = taken
          /\ \A j \in 1 .. taken : 1 + j - 1 = j
      BY <2>1
    <3>3. /\ t \in Seq(Octet) /\ Len(t) = IF 1 <= taken THEN taken - 1 + 1 ELSE 0
          /\ \A j \in 1 .. taken - 1 + 1 : t[j] = input[1 + j - 1]
      BY <3>1, <3>2, SubSeqProperties
    <3> HIDE DEF t
    <3>4. QED
      BY <3>2, <3>3
  <2> HIDE DEF q, t
  <2>10. q = t
    BY <2>8, <2>9, SeqEqual
  <2>11. QED
    BY <2>10 DEF q, t, h
<1>2. QED
  BY <1>1, V110TxIInv, PTL
=============================================================================
