----------------------------- MODULE Asn1Proofs -----------------------------
(***************************************************************************)
(* Every primitive that libpri encodes, it decodes: for every tag, every   *)
(* int32_t, string, object identifier and structure, wherever it stands in *)
(* a message (Surrounds), and whatever stands before and behind it.  When  *)
(* the message ends too early the decoder returns Null; it never takes the *)
(* octets that follow for those that are missing.                          *)
(*                                                                         *)
(* The last part is about octets that nobody has encoded: whatever they    *)
(* are, a decoder that takes them moves on, stays before the end it was    *)
(* given, looks at nothing behind it, and what it stores fits.             *)
(*                                                                         *)
(* The decoders are loops.  Loop says that a loop runs, Upwards carries a  *)
(* fact from one round to the next, and with them UnsignedReads,           *)
(* SignedReads, OidReadsIs and Flattened say what each of the loops does.  *)
(* On them rest what a length, an integer and an object identifier read    *)
(* as; ElementRead puts tag, length and contents together.                 *)
(***************************************************************************)
EXTENDS Asn1Primitive, TLAPS, SequenceTheorems, WellFoundedInduction

Octet == 0 .. 255

\* The octets s stand in o from position pos on.
Stands(s, o, pos) ==
    pos + Len(s) - 1 <= Len(o) /\ \A i \in 1 .. Len(s) : o[pos + i - 1] = s[i]

\* An octet is a number of 8 bits.
LEMMA OctetIs ==
  /\ \A x \in Octet : x \in Int /\ x >= 0 /\ x <= 255
  /\ \A x \in Int : x >= 0 /\ x <= 255 => x \in Octet
BY DEF Octet

-----------------------------------------------------------------------------
(* The loops of the decoders.                                               *)

\* A nonempty set of naturals has a least member.
LEMMA Least ==
  ASSUME NEW T \in SUBSET Nat, T # {}
  PROVE  \E k \in T : \A j \in T : k <= j
<1>1. PICK k \in T : \A j \in T : <<j, k>> \notin OpToRel(<, Nat)
  BY WFMin, NatLessThanWellFounded, Zenon
<1>2. \A j \in T : ~(j < k)
  BY <1>1 DEF OpToRel
<1>3. QED
  BY <1>2

\* A set that has 0, and n with n - 1, has every number.
LEMMA Upwards ==
  ASSUME NEW N \in Nat, NEW P, 0 \in P, \A n \in 1 .. N : n - 1 \in P => n \in P
  PROVE  \A n \in 0 .. N : n \in P
<1> DEFINE T == {n \in 0 .. N : n \notin P}
<1>1. SUFFICES ASSUME T # {} PROVE FALSE
  OBVIOUS
<1>2. T \in SUBSET Nat
  OBVIOUS
<1>3. PICK k \in T : \A j \in T : k <= j
  <2> HIDE DEF T
  <2> QED
    BY <1>1, <1>2, Least
<1>4. k - 1 \notin T
  BY <1>3
<1>5. k \in 1 .. N /\ k - 1 \in 0 .. N
  OBVIOUS
<1>6. k - 1 \in P
  BY <1>4, <1>5
<1>7. QED
  BY <1>5, <1>6

\* A loop of N steps, each of which gives a state of S from the one before, runs.
Runs(S, first, N, step) ==
    \E g \in [0 .. N -> S] : g[0] = first /\ \A n \in 1 .. N : g[n] = step[<<g[n - 1], n>>]

\* Any loop does.
LEMMA Loop ==
  ASSUME NEW S, NEW first \in S, NEW N \in Nat, NEW step \in [S \X (1 .. N) -> S]
  PROVE  Runs(S, first, N, step)
<1> DEFINE Done(m, g) == /\ g \in [0 .. m -> S] /\ g[0] = first
                         /\ \A n \in 1 .. m : g[n] = step[<<g[n - 1], n>>]
           P == {m \in 0 .. N : \E g : Done(m, g)}
<1>1. 0 \in P
  <2>1. Done(0, [n \in 0 .. 0 |-> first])
    OBVIOUS
  <2>2. QED
    <3> HIDE DEF Done
    <3> QED
      BY <2>1
<1>2. ASSUME NEW m \in 1 .. N, m - 1 \in P
      PROVE  m \in P
  <2>1. PICK g : Done(m - 1, g)
    BY <1>2
  <2> DEFINE h == [n \in 0 .. m |-> IF n = m THEN step[<<g[m - 1], m>>] ELSE g[n]]
  <2>2. step[<<g[m - 1], m>>] \in S
    <3>1. g[m - 1] \in S
      BY <2>1
    <3>2. QED
      BY <3>1
  <2>3. h \in [0 .. m -> S]
    <3>1. \A n \in 0 .. m : n # m => g[n] \in S
      BY <2>1
    <3>2. QED
      BY <2>2, <3>1
  <2>4. h[0] = first
    BY <2>1
  <2>5. ASSUME NEW n \in 1 .. m PROVE h[n] = step[<<h[n - 1], n>>]
    <3>1. n - 1 \in 0 .. m /\ n - 1 # m /\ h[n - 1] = g[n - 1] /\ n \in 0 .. m
      OBVIOUS
    <3>2. CASE n = m
      BY <3>1, <3>2
    <3>3. CASE n # m
      <4>1. n \in 1 .. m - 1 /\ h[n] = g[n]
        BY <3>3
      <4>2. QED
        BY <2>1, <3>1, <4>1
    <3>4. QED
      BY <3>2, <3>3
  <2>6. Done(m, h)
    BY <2>3, <2>4, <2>5
  <2>7. QED
    <3> HIDE DEF Done
    <3> QED
      BY <2>6
<1>3. N \in P
  <2> HIDE DEF P
  <2>1. \A n \in 0 .. N : n \in P
    BY <1>1, <1>2, Upwards
  <2>2. QED
    BY <2>1
<1>4. QED
  BY <1>3 DEF Runs

\* An unsigned number is read octet by octet.
LEMMA UnsignedReads ==
  ASSUME NEW s \in Seq(Octet)
  PROVE  \E g \in [0 .. Len(s) -> Nat] :
            /\ g[0] = 0
            /\ \A n \in 1 .. Len(s) : g[n] = (g[n - 1] * 256) + (s[n] % 256)
            /\ Unsigned(s, 256) = g[Len(s)]
<1> DEFINE N == Len(s)
           step == [p \in Nat \X (1 .. N) |-> (p[1] * 256) + (s[p[2]] % 256)]
           Is(f) == f = [n \in 0 .. N |-> IF n = 0 THEN 0 ELSE (f[n - 1] * 256) + (s[n] % 256)]
<1>1. N \in Nat /\ \A n \in 1 .. N : s[n] \in Nat
  <2>1. \A n \in 1 .. Len(s) : s[n] \in Octet
    OBVIOUS
  <2>2. QED
    BY <2>1, OctetIs
<1>2. step \in [Nat \X (1 .. N) -> Nat]
  <2>1. \A x \in Nat, n \in 1 .. N : (x * 256) + (s[n] % 256) \in Nat
    <3> HIDE DEF N
    <3>1. \A x \in Nat : x * 256 \in Nat
      OBVIOUS
    <3>2. \A n \in 1 .. N : s[n] % 256 \in Nat
      BY <1>1
    <3>3. QED
      BY <3>1, <3>2
  <2>2. QED
    BY <2>1
<1>3. \A x \in Nat, n \in 1 .. N : step[<<x, n>>] = (x * 256) + (s[n] % 256)
  OBVIOUS
<1> HIDE DEF N, step
<1>4. PICK g \in [0 .. N -> Nat] : g[0] = 0 /\ \A n \in 1 .. N : g[n] = step[<<g[n - 1], n>>]
  <2>1. Runs(Nat, 0, N, step)
    BY <1>1, <1>2, Loop
  <2>2. QED
    BY <2>1 DEF Runs
<1>5. \A n \in 1 .. N : g[n - 1] \in Nat
  BY <1>1, <1>4
<1>6. \A n \in 1 .. N : g[n] = (g[n - 1] * 256) + (s[n] % 256)
  <2> SUFFICES ASSUME NEW n \in 1 .. N
               PROVE  g[n] = (g[n - 1] * 256) + (s[n] % 256)
    OBVIOUS
  <2> DEFINE x == g[n - 1]
  <2>1. x \in Nat
    BY <1>5
  <2> HIDE DEF x
  <2>2. step[<<x, n>>] = (x * 256) + (s[n] % 256)
    BY <1>3, <2>1
  <2>3. QED
    BY <1>4, <2>2 DEF x
<1> DEFINE r == CHOOSE f : Is(f)
<1>7. Is(r)
  <2>1. \A n \in 0 .. N : g[n] = IF n = 0 THEN 0 ELSE (g[n - 1] * 256) + (s[n] % 256)
    BY <1>1, <1>4, <1>6
  <2>2. Is(g)
    BY <2>1
  <2>3. QED
    BY <2>2
<1>8. Unsigned(s, 256) = r[N]
  BY DEF Unsigned, N
<1>9. r[0] = 0 /\ \A n \in 1 .. N : r[n] = (r[n - 1] * 256) + (s[n] % 256)
  <2> HIDE DEF r
  <2> QED
    BY <1>1, <1>7
<1> HIDE DEF r, Is
<1>10. r[N] = g[N]
  <2> DEFINE P == {n \in 0 .. N : r[n] = g[n]}
  <2>1. 0 \in P
    BY <1>1, <1>4, <1>9
  <2>2. \A n \in 1 .. N : n - 1 \in P => n \in P
    BY <1>1, <1>6, <1>9
  <2>3. N \in P
    <3> HIDE DEF P
    <3>1. \A n \in 0 .. N : n \in P
      BY <1>1, <2>1, <2>2, Upwards
    <3>2. QED
      BY <1>1, <3>1
  <2>4. QED
    BY <2>3
<1>11. QED
  BY <1>4, <1>6, <1>8, <1>10 DEF N

\* A signed number of up to four octets is read octet by octet.
LEMMA SignedReads ==
  ASSUME NEW s \in Seq(Octet), Len(s) \in 1 .. 4
  PROVE  \E g \in [0 .. Len(s) -> Int] :
            /\ g[0] = IF s[1] > 127 THEN -1 ELSE 0
            /\ \A n \in 1 .. Len(s) : g[n] = (g[n - 1] * 256) + s[n]
            /\ Signed(s) = g[Len(s)]
<1> DEFINE kept == SubSeq(s, Max({1, Len(s) - 3}), Len(s))
<1>1. kept = s
  <2>1. Max({1, Len(s) - 3}) = 1
    <3> DEFINE m == Max({1, Len(s) - 3})
    <3>1. \E x \in {1, Len(s) - 3} : \A y \in {1, Len(s) - 3} : x >= y
      OBVIOUS
    <3>2. m \in {1, Len(s) - 3} /\ m >= 1 /\ m >= Len(s) - 3
      BY <3>1 DEF Max
    <3> HIDE DEF m
    <3>3. m = 1
      <4>1. \A L \in 1 .. 4, x \in Int : (x = 1 \/ x = L - 3) /\ x >= 1 => x = 1
        OBVIOUS
      <4>2. m \in Int /\ (m = 1 \/ m = Len(s) - 3)
        BY <3>2
      <4>3. QED
        BY <3>2, <4>1, <4>2
    <3>4. QED
      BY <3>3 DEF m
  <2>2. SubSeq(s, 1, Len(s)) = s
    OBVIOUS
  <2>3. QED
    BY <2>1, <2>2
<1> DEFINE N == Len(kept)
           first == IF kept[1] > 127 THEN -1 ELSE 0
           step == [p \in Int \X (1 .. N) |-> (p[1] * 256) + kept[p[2]]]
           Is(f) == f = [n \in 0 .. N |-> IF n = 0 THEN first ELSE (f[n - 1] * 256) + kept[n]]
           r == CHOOSE f : Is(f)
<1>2. Signed(s) = r[N]
  BY DEF Signed
<1>3. N \in 1 .. 4 /\ N \in Nat /\ \A n \in 1 .. N : kept[n] \in Int
  <2>1. \A n \in 1 .. Len(s) : s[n] \in Octet
    OBVIOUS
  <2> HIDE DEF kept
  <2>2. QED
    BY <1>1, <2>1, OctetIs
<1>4. first \in Int
  OBVIOUS
<1> HIDE DEF N, kept, first
<1>5. step \in [Int \X (1 .. N) -> Int]
  <2>1. \A x \in Int, n \in 1 .. N : (x * 256) + kept[n] \in Int
    BY <1>3
  <2>2. QED
    BY <2>1
<1>6. \A x \in Int, n \in 1 .. N : step[<<x, n>>] = (x * 256) + kept[n]
  OBVIOUS
<1> HIDE DEF step
<1>7. PICK g \in [0 .. N -> Int] : g[0] = first /\ \A n \in 1 .. N : g[n] = step[<<g[n - 1], n>>]
  <2>1. Runs(Int, first, N, step)
    BY <1>3, <1>4, <1>5, Loop
  <2>2. QED
    BY <2>1 DEF Runs
<1>8. \A n \in 1 .. N : g[n - 1] \in Int
  BY <1>3, <1>7
<1>9. \A n \in 1 .. N : g[n] = (g[n - 1] * 256) + kept[n]
  BY <1>6, <1>7, <1>8
<1>10. Is(r)
  <2>1. \A n \in 0 .. N : g[n] = IF n = 0 THEN first ELSE (g[n - 1] * 256) + kept[n]
    BY <1>3, <1>7, <1>9
  <2>2. Is(g)
    BY <2>1
  <2>3. QED
    BY <2>2
<1>11. r[0] = first /\ \A n \in 1 .. N : r[n] = (r[n - 1] * 256) + kept[n]
  <2> HIDE DEF r
  <2> QED
    BY <1>3, <1>10
<1> HIDE DEF r, Is
<1>12. r[N] = g[N]
  <2> DEFINE P == {n \in 0 .. N : r[n] = g[n]}
  <2>1. 0 \in P
    BY <1>3, <1>7, <1>11
  <2>2. \A n \in 1 .. N : n - 1 \in P => n \in P
    BY <1>3, <1>9, <1>11
  <2>3. N \in P
    <3> HIDE DEF P
    <3>1. \A n \in 0 .. N : n \in P
      BY <1>3, <2>1, <2>2, Upwards
    <3>2. QED
      BY <1>3, <3>1
  <2>4. QED
    BY <2>3
<1>13. QED
  BY <1>1, <1>2, <1>7, <1>9, <1>12 DEF N, first

\* The numbers that up to four octets stand for.
LEMMA SignedIs ==
  ASSUME NEW s \in Seq(Octet), Len(s) \in 1 .. 4
  PROVE  LET h == IF s[1] > 127 THEN s[1] - 256 ELSE s[1]
         IN  /\ Len(s) = 1 => Signed(s) = h
             /\ Len(s) = 2 => Signed(s) = (h * 256) + s[2]
             /\ Len(s) = 3 => Signed(s) = (((h * 256) + s[2]) * 256) + s[3]
             /\ Len(s) = 4 => Signed(s) = (((((h * 256) + s[2]) * 256) + s[3]) * 256) + s[4]
<1> DEFINE h == IF s[1] > 127 THEN s[1] - 256 ELSE s[1]
<1>1. \A n \in 1 .. Len(s) : s[n] \in Int /\ s[n] >= 0 /\ s[n] <= 255
  <2>1. \A n \in 1 .. Len(s) : s[n] \in Octet
    OBVIOUS
  <2>2. QED
    BY <2>1, OctetIs
<1>2. PICK g \in [0 .. Len(s) -> Int] :
         /\ g[0] = IF s[1] > 127 THEN -1 ELSE 0
         /\ \A n \in 1 .. Len(s) : g[n] = (g[n - 1] * 256) + s[n]
         /\ Signed(s) = g[Len(s)]
  BY SignedReads
<1>3. g[1] = h
  <2>1. 1 \in 1 .. Len(s)
    OBVIOUS
  <2>2. g[1] = (g[0] * 256) + s[1]
    BY <1>2, <2>1
  <2>3. QED
    BY <1>1, <1>2, <2>1, <2>2
<1>4. h \in Int
  BY <1>1
<1> HIDE DEF h
<1>5. CASE Len(s) = 1
  BY <1>2, <1>3, <1>5 DEF h
<1>6. CASE Len(s) = 2
  <2>1. g[2] = (g[1] * 256) + s[2]
    BY <1>2, <1>6
  <2>2. QED
    BY <1>2, <1>3, <1>6, <2>1 DEF h
<1>7. CASE Len(s) = 3
  <2>1. g[2] = (g[1] * 256) + s[2] /\ g[3] = (g[2] * 256) + s[3]
    BY <1>2, <1>7
  <2>2. s[2] \in Int /\ s[3] \in Int
    BY <1>1, <1>7
  <2>3. g[3] = (((h * 256) + s[2]) * 256) + s[3]
    BY <1>3, <1>4, <2>1, <2>2
  <2>4. QED
    BY <1>2, <1>7, <2>3 DEF h
<1>8. CASE Len(s) = 4
  <2>1. /\ g[2] = (g[1] * 256) + s[2] /\ g[3] = (g[2] * 256) + s[3]
        /\ g[4] = (g[3] * 256) + s[4]
    BY <1>2, <1>8
  <2>2. s[2] \in Int /\ s[3] \in Int /\ s[4] \in Int
    BY <1>1, <1>8
  <2>3. g[4] = (((((h * 256) + s[2]) * 256) + s[3]) * 256) + s[4]
    BY <1>3, <1>4, <2>1, <2>2
  <2>4. QED
    BY <1>2, <1>8, <2>3 DEF h
<1>9. QED
  BY <1>5, <1>6, <1>7, <1>8 DEF h

\* The numbers that one and two octets stand for.
LEMMA UnsignedIs ==
  ASSUME NEW s \in Seq(Octet)
  PROVE  /\ Len(s) = 1 => Unsigned(s, 256) = s[1]
         /\ Len(s) = 2 => Unsigned(s, 256) = (s[1] * 256) + s[2]
<1>1. \A n \in 1 .. Len(s) : s[n] \in Int /\ s[n] >= 0 /\ s[n] <= 255
  <2>1. \A n \in 1 .. Len(s) : s[n] \in Octet
    OBVIOUS
  <2>2. QED
    BY <2>1, OctetIs
<1>3. PICK g \in [0 .. Len(s) -> Nat] :
         /\ g[0] = 0
         /\ \A n \in 1 .. Len(s) : g[n] = (g[n - 1] * 256) + (s[n] % 256)
         /\ Unsigned(s, 256) = g[Len(s)]
  BY UnsignedReads
<1>4. \A n \in 1 .. Len(s) : s[n] % 256 = s[n]
  <2>1. \A x \in Int : x >= 0 /\ x <= 255 => x % 256 = x
    OBVIOUS
  <2>2. QED
    BY <1>1, <2>1
<1>5. ASSUME Len(s) = 1 PROVE Unsigned(s, 256) = s[1]
  <2>1. g[1] = (g[0] * 256) + s[1]
    BY <1>3, <1>4, <1>5
  <2>2. s[1] \in Int
    BY <1>1, <1>5
  <2>3. QED
    BY <1>3, <1>5, <2>1, <2>2
<1>6. ASSUME Len(s) = 2 PROVE Unsigned(s, 256) = (s[1] * 256) + s[2]
  <2>1. g[1] = (g[0] * 256) + s[1] /\ g[2] = (g[1] * 256) + s[2]
    BY <1>3, <1>4, <1>6
  <2>2. s[1] \in Int /\ s[2] \in Int
    BY <1>1, <1>6
  <2>3. QED
    BY <1>3, <1>6, <2>1, <2>2
<1>7. QED
  BY <1>5, <1>6

-----------------------------------------------------------------------------
(* Where octets stand.                                                      *)

\* What stands in o stands there part by part.
LEMMA StandsBoth ==
  ASSUME NEW s \in Seq(Octet), NEW t \in Seq(Octet), NEW o \in Seq(Octet),
         NEW pos \in Nat \ {0}, Stands(s \o t, o, pos)
  PROVE  Stands(s, o, pos) /\ Stands(t, o, pos + Len(s))
<1> DEFINE st == s \o t
<1>1. /\ Len(st) = Len(s) + Len(t) /\ Len(s) \in Nat /\ Len(t) \in Nat /\ Len(o) \in Nat
      /\ \A i \in 1 .. Len(s) + Len(t) : st[i] = IF i <= Len(s) THEN s[i] ELSE t[i - Len(s)]
  BY ConcatProperties
<1>2. /\ pos + Len(st) - 1 <= Len(o)
      /\ \A i \in 1 .. Len(st) : o[pos + i - 1] = st[i]
  BY DEF Stands
<1> HIDE DEF st
<1>3. ASSUME NEW i \in 1 .. Len(s) PROVE o[pos + i - 1] = s[i]
  BY <1>1, <1>2
<1>4. ASSUME NEW i \in 1 .. Len(t) PROVE o[pos + Len(s) + i - 1] = t[i]
  <2> DEFINE j == Len(s) + i
  <2>1. j \in 1 .. Len(st) /\ ~(j <= Len(s)) /\ j - Len(s) = i /\ pos + j - 1 = pos + Len(s) + i - 1
    BY <1>1
  <2> HIDE DEF j
  <2>2. o[pos + j - 1] = st[j] /\ st[j] = t[j - Len(s)]
    BY <1>1, <1>2, <2>1
  <2>3. QED
    BY <2>1, <2>2
<1>5. pos + Len(s) - 1 <= Len(o) /\ pos + Len(s) + Len(t) - 1 <= Len(o)
  BY <1>1, <1>2
<1>6. QED
  BY <1>3, <1>4, <1>5 DEF Stands

\* What stands in o is what is cut out of it there.
LEMMA StandsIs ==
  ASSUME NEW s \in Seq(Octet), NEW o \in Seq(Octet), NEW pos \in Nat \ {0}, Stands(s, o, pos)
  PROVE  SubSeq(o, pos, pos + Len(s) - 1) = s
<1>1. Len(s) \in Nat /\ Len(o) \in Nat /\ \A i \in 1 .. Len(o) : o[i] \in Octet
  OBVIOUS
<1>2. pos + Len(s) - 1 <= Len(o) /\ \A i \in 1 .. Len(s) : o[pos + i - 1] = s[i]
  BY DEF Stands
<1> DEFINE m == pos + Len(s) - 1
           t == SubSeq(o, pos, m)
<1>3. m \in Int /\ m - pos + 1 = Len(s) /\ (pos <= m <=> Len(s) # 0)
  BY <1>1
<1>4. \A i \in pos .. m : o[i] \in Octet
  BY <1>1, <1>2
<1> HIDE DEF m
<1>5. /\ t \in Seq(Octet) /\ Len(t) = IF pos <= m THEN m - pos + 1 ELSE 0
      /\ \A i \in 1 .. m - pos + 1 : t[i] = o[pos + i - 1]
  BY <1>3, <1>4, SubSeqProperties
<1> HIDE DEF t
<1>6. Len(t) = Len(s)
  BY <1>1, <1>3, <1>5
<1>7. \A i \in 1 .. Len(t) : t[i] = s[i]
  BY <1>2, <1>3, <1>5, <1>6
<1>8. t = s
  BY <1>5, <1>6, <1>7, SeqEqual
<1>9. QED
  BY <1>8 DEF t, m

-----------------------------------------------------------------------------
(* Tags and lengths.                                                        *)

\* The tags of one octet; libpri encodes no others.
Tag == {tag \in Octet : tag % 32 # ASN1_TYPE_MASK}

\* A tag of one octet is read as it was sent.
LEMMA TagRead ==
  ASSUME NEW tag \in Tag, NEW o \in Seq(Octet), NEW pos \in Nat \ {0}, NEW end \in Nat,
         Stands(<<tag>>, o, pos)
  PROVE  asn1_dec_tag(o, pos, end) = IF end <= pos THEN Null ELSE <<pos + 1, tag>>
<1>1. o[pos] = tag
  BY DEF Stands
<1>2. tag % 32 # ASN1_TYPE_MASK
  BY DEF Tag
<1>3. QED
  BY <1>1, <1>2 DEF asn1_dec_tag

\* A component has less than 65536 octets.
Length == {n \in Nat : n < 65536}

\* A length takes one, two or three octets.
LEMMA LengthOctets ==
  ASSUME NEW length \in Length
  PROVE  /\ asn1_enc_length(length) \in Seq(Octet)
         /\ Len(asn1_enc_length(length)) =
               IF length < 128 THEN 1 ELSE IF length < 256 THEN 2 ELSE 3
<1>1. length \in Int /\ length >= 0 /\ length < 65536
  BY DEF Length
<1>2. CASE length < 128
  <2>1. length \in Octet
    BY <1>1, <1>2, OctetIs
  <2>2. QED
    BY <1>2, <2>1 DEF asn1_enc_length
<1>3. CASE length >= 128 /\ length < 256
  <2>1. length \in Octet /\ 129 \in Octet
    BY <1>1, <1>3, OctetIs
  <2>2. asn1_enc_length(length) = <<129, length>>
    BY <1>1, <1>3 DEF asn1_enc_length
  <2>3. QED
    BY <1>1, <1>3, <2>1, <2>2
<1>4. CASE length >= 256
  <2>1. length \div 256 \in Octet /\ length % 256 \in Octet /\ 130 \in Octet
    <3>1. /\ length \div 256 \in Int /\ length \div 256 >= 0 /\ length \div 256 <= 255
          /\ length % 256 \in Int /\ length % 256 >= 0 /\ length % 256 <= 255
      BY <1>1
    <3>2. QED
      BY <3>1, OctetIs
  <2>2. asn1_enc_length(length) = <<130, length \div 256, length % 256>>
    BY <1>1, <1>4 DEF asn1_enc_length
  <2>3. QED
    BY <1>1, <1>4, <2>1, <2>2
<1>5. QED
  BY <1>1, <1>2, <1>3, <1>4

\* The length of a component is read, and the component is known to be there.
LEMMA LengthRead ==
  ASSUME NEW length \in Length, NEW o \in Seq(Octet), NEW pos \in Nat \ {0}, NEW end \in Nat,
         end <= Len(o) + 1, Stands(asn1_enc_length(length), o, pos)
  PROVE  asn1_dec_length(o, pos, end) =
            IF end < pos + Len(asn1_enc_length(length)) + length THEN Null
            ELSE <<pos + Len(asn1_enc_length(length)), length>>
<1> DEFINE e == asn1_enc_length(length)
<1>1. length \in Int /\ length >= 0 /\ length < 65536
  BY DEF Length
<1>2. e \in Seq(Octet) /\ Len(e) = IF length < 128 THEN 1 ELSE IF length < 256 THEN 2 ELSE 3
  BY LengthOctets
<1>3. pos + Len(e) - 1 <= Len(o) /\ Len(o) \in Nat /\ \A i \in 1 .. Len(e) : o[pos + i - 1] = e[i]
  BY DEF Stands
<1>4. pos - 1 + 1 = pos /\ pos + 1 - 1 = pos /\ pos + 2 - 1 = pos + 1 /\ pos + 3 - 1 = pos + 2
  OBVIOUS
<1>5. CASE length < 128
  <2>1. e[1] = length /\ Len(e) = 1
    BY <1>1, <1>5 DEF asn1_enc_length
  <2> HIDE DEF e
  <2>2. o[pos] = length
    BY <1>3, <1>4, <2>1
  <2>3. asn1_dec_length(o, pos, end) = IF end <= pos THEN Null ELSE Definite(pos + 1, length, end)
    BY <1>1, <1>5, <2>2 DEF asn1_dec_length
  <2>4. QED
    BY <1>1, <2>1, <2>3 DEF Definite, e
<1>6. CASE length >= 128 /\ length < 256
  <2>1. e[1] = 129 /\ e[2] = length /\ Len(e) = 2
    BY <1>1, <1>6 DEF asn1_enc_length
  <2> HIDE DEF e
  <2>2. o[pos] = 129 /\ o[pos + 1] = length
    BY <1>3, <1>4, <2>1
  <2> DEFINE n == SubSeq(o, pos + 1, pos + 1)
  <2>3. n \in Seq(Octet) /\ Len(n) = 1 /\ n[1] = length
    <3>1. pos + 1 \in 1 .. Len(o)
      BY <1>3, <2>1
    <3>2. o[pos + 1] \in Octet
      BY <3>1
    <3>3. \A i \in pos + 1 .. pos + 1 : o[i] \in Octet
      BY <3>2
    <3>4. /\ n \in Seq(Octet) /\ Len(n) = IF pos + 1 <= pos + 1 THEN pos + 1 - (pos + 1) + 1 ELSE 0
          /\ \A i \in 1 .. pos + 1 - (pos + 1) + 1 : n[i] = o[pos + 1 + i - 1]
      <4> HIDE DEF n
      <4>1. pos + 1 \in Int
        OBVIOUS
      <4>2. QED
        BY <3>3, <4>1, SubSeqProperties DEF n
    <3>5. QED
      BY <2>2, <3>4
  <2> HIDE DEF n
  <2>4. Unsigned(n, 256) = length
    BY <2>3, UnsignedIs
  <2>5. asn1_dec_length(o, pos, end) =
           IF end <= pos \/ end < pos + 2 THEN Null ELSE Definite(pos + 2, length, end)
    BY <2>2, <2>4 DEF asn1_dec_length, LongLength, n
  <2>6. QED
    BY <1>1, <2>1, <2>5 DEF Definite, e
<1>7. CASE length >= 256
  <2>1. e[1] = 130 /\ e[2] = length \div 256 /\ e[3] = length % 256 /\ Len(e) = 3
    BY <1>1, <1>7 DEF asn1_enc_length
  <2> HIDE DEF e
  <2>2. o[pos] = 130 /\ o[pos + 1] = length \div 256 /\ o[pos + 2] = length % 256
    BY <1>3, <1>4, <2>1
  <2> DEFINE n == SubSeq(o, pos + 1, pos + 2)
  <2>3. n \in Seq(Octet) /\ Len(n) = 2 /\ n[1] = length \div 256 /\ n[2] = length % 256
    <3>1. pos + 1 \in 1 .. Len(o) /\ pos + 2 \in 1 .. Len(o)
      BY <1>3, <2>1
    <3>2. o[pos + 1] \in Octet /\ o[pos + 2] \in Octet
      BY <3>1
    <3>3. \A i \in pos + 1 .. pos + 2 : o[i] \in Octet
      BY <3>2
    <3>4. /\ n \in Seq(Octet) /\ Len(n) = IF pos + 1 <= pos + 2 THEN pos + 2 - (pos + 1) + 1 ELSE 0
          /\ \A i \in 1 .. pos + 2 - (pos + 1) + 1 : n[i] = o[pos + 1 + i - 1]
      <4> HIDE DEF n
      <4>1. pos + 1 \in Int /\ pos + 2 \in Int
        OBVIOUS
      <4>2. QED
        BY <3>3, <4>1, SubSeqProperties DEF n
    <3>5. n[1] = o[pos + 1 + 1 - 1] /\ n[2] = o[pos + 1 + 2 - 1]
      BY <3>4
    <3>6. QED
      BY <2>2, <3>4, <3>5
  <2> HIDE DEF n
  <2>4. Unsigned(n, 256) = length
    BY <1>1, <2>3, UnsignedIs
  <2>5. asn1_dec_length(o, pos, end) =
           IF end <= pos \/ end < pos + 3 THEN Null ELSE Definite(pos + 3, length, end)
    BY <2>2, <2>4 DEF asn1_dec_length, LongLength, n
  <2>6. QED
    BY <1>1, <2>1, <2>5 DEF Definite, e
<1>8. QED
  BY <1>1, <1>5, <1>6, <1>7

-----------------------------------------------------------------------------
(* Components: a tag, the length and the octets that follow.                *)
Element(tag, body) == <<tag>> \o asn1_enc_length(Len(body)) \o body
Body == {s \in Seq(Octet) : Len(s) \in Length}
Header(body) == 1 + Len(asn1_enc_length(Len(body)))

\* How long a component is.
LEMMA ElementOctets ==
  ASSUME NEW tag \in Octet, NEW body \in Body
  PROVE  /\ Element(tag, body) \in Seq(Octet)
         /\ Len(Element(tag, body)) = Header(body) + Len(body)
<1>1. body \in Seq(Octet) /\ Len(body) \in Length
  BY DEF Body
<1> DEFINE e == asn1_enc_length(Len(body))
<1>2. e \in Seq(Octet) /\ Len(e) \in Nat
  BY <1>1, LengthOctets
<1> HIDE DEF e
<1>3. <<tag>> \in Seq(Octet) /\ Len(<<tag>>) = 1
  OBVIOUS
<1> DEFINE te == <<tag>> \o e
<1>4. te \in Seq(Octet) /\ Len(te) = 1 + Len(e)
  BY <1>2, <1>3, ConcatProperties
<1> HIDE DEF te
<1>5. te \o body \in Seq(Octet) /\ Len(te \o body) = Len(te) + Len(body)
  BY <1>1, <1>4, ConcatProperties
<1>6. QED
  BY <1>4, <1>5 DEF Element, Header, te, e

\* Where the parts of a component stand.
LEMMA ElementStands ==
  ASSUME NEW tag \in Octet, NEW body \in Body, NEW o \in Seq(Octet), NEW pos \in Nat \ {0},
         Stands(Element(tag, body), o, pos)
  PROVE  /\ Stands(<<tag>>, o, pos)
         /\ Stands(asn1_enc_length(Len(body)), o, pos + 1)
         /\ Stands(body, o, pos + Header(body))
<1>1. body \in Seq(Octet) /\ Len(body) \in Length
  BY DEF Body
<1> DEFINE e == asn1_enc_length(Len(body))
<1>2. e \in Seq(Octet) /\ Len(e) \in Nat
  BY <1>1, LengthOctets
<1> HIDE DEF e
<1>3. <<tag>> \in Seq(Octet) /\ Len(<<tag>>) = 1
  OBVIOUS
<1> DEFINE te == <<tag>> \o e
<1>4. te \in Seq(Octet) /\ Len(te) = 1 + Len(e)
  BY <1>2, <1>3, ConcatProperties
<1> HIDE DEF te
<1>5. Stands(te \o body, o, pos)
  BY DEF Element, te, e
<1>6. Stands(te, o, pos) /\ Stands(body, o, pos + Len(te))
  BY <1>1, <1>4, <1>5, StandsBoth
<1>7. Stands(<<tag>> \o e, o, pos)
  BY <1>6 DEF te
<1>8. Stands(<<tag>>, o, pos) /\ Stands(e, o, pos + Len(<<tag>>))
  BY <1>2, <1>3, <1>7, StandsBoth
<1>9. QED
  BY <1>3, <1>4, <1>6, <1>8 DEF Header, e

\* The contents of a component are read whole, and only when they are all there.
LEMMA ContentsRead ==
  ASSUME NEW tag \in Octet, NEW body \in Body, NEW o \in Seq(Octet), NEW pos \in Nat \ {0},
         NEW end \in Nat, end <= Len(o) + 1, Stands(Element(tag, body), o, pos), NEW sizes
  PROVE  Contents(o, pos + 1, end, sizes) =
            IF end < pos + Len(Element(tag, body)) \/ Len(body) \notin sizes THEN Null
            ELSE <<pos + Len(Element(tag, body)), body>>
<1> DEFINE e == asn1_enc_length(Len(body))
           p == pos + 1 + Len(e)
<1>1. body \in Seq(Octet) /\ Len(body) \in Length /\ Len(body) \in Nat
  BY DEF Body
<1>2. e \in Seq(Octet) /\ Len(e) \in Nat
  BY <1>1, LengthOctets
<1>3. /\ Stands(e, o, pos + 1) /\ Stands(body, o, pos + Header(body))
      /\ Header(body) = 1 + Len(e) /\ Len(Element(tag, body)) = 1 + Len(e) + Len(body)
  BY ElementStands, ElementOctets DEF Header
<1>4. pos + 1 \in Nat \ {0}
  OBVIOUS
<1>5. asn1_dec_length(o, pos + 1, end) = IF end < p + Len(body) THEN Null ELSE <<p, Len(body)>>
  BY <1>1, <1>3, <1>4, LengthRead
<1> HIDE DEF e
<1>6. p \in Nat \ {0} /\ p = pos + Header(body) /\ p + Len(body) = pos + Len(Element(tag, body))
  BY <1>1, <1>2, <1>3
<1> HIDE DEF p
<1>7. SubSeq(o, p, p + Len(body) - 1) = body
  BY <1>1, <1>3, <1>6, StandsIs
<1>8. Contents(o, pos + 1, end, sizes) =
         IF end < p + Len(body) THEN Null
         ELSE IF Len(body) \in sizes THEN <<p + Len(body), SubSeq(o, p, p + Len(body) - 1)>> ELSE Null
  <2> DEFINE d == asn1_dec_length(o, pos + 1, end)
  <2>1. Contents(o, pos + 1, end, sizes) =
           IF d = Null THEN Null
           ELSE IF d[2] \in sizes THEN <<d[1] + d[2], SubSeq(o, d[1], d[1] + d[2] - 1)>> ELSE Null
    BY DEF Contents, Then
  <2> HIDE DEF d
  <2>2. d = IF end < p + Len(body) THEN Null ELSE <<p, Len(body)>>
    BY <1>5 DEF d
  <2>3. CASE end < p + Len(body)
    BY <2>1, <2>2, <2>3
  <2>4. CASE ~(end < p + Len(body))
    <3>1. d # Null /\ d[1] = p /\ d[2] = Len(body)
      BY <2>2, <2>4 DEF Null
    <3>2. QED
      BY <2>1, <2>4, <3>1
  <2>5. QED
    BY <2>3, <2>4
<1>9. QED
  BY <1>6, <1>7, <1>8

-----------------------------------------------------------------------------
(* Integers.                                                                *)

\* What an int32_t can be.
Int32 == {n \in Int : -2147483648 <= n /\ n <= 2147483647}

IntegerOctets(value) ==
    [i \in 1 .. More9(value) + 1 |-> (value \div 256 ^ (More9(value) + 1 - i)) % 256]

\* The largest number of so many octets, and one.
Reach(count) == IF count = 0 THEN 128 ELSE IF count = 1 THEN 32768
                ELSE IF count = 2 THEN 8388608 ELSE 2147483648

\* The numbers of 8, 16, 24 and 32 bits.
LEMMA Powers ==
  ASSUME NEW k \in 0 .. 3
  PROVE  /\ 128 * 256 ^ k = Reach(k) /\ Reach(k) \in Int
         /\ 256 ^ k \in Int /\ 256 ^ k > 0
<1>1. 256 ^ 0 = 1 /\ 256 ^ 1 = 256 /\ 256 ^ 2 = 65536 /\ 256 ^ 3 = 16777216
  BY SMT
<1>2. k = 0 \/ k = 1 \/ k = 2 \/ k = 3
  OBVIOUS
<1>3. CASE k = 0
  BY <1>1, <1>3, SMT DEF Reach
<1>4. CASE k = 1
  BY <1>1, <1>4, SMT DEF Reach
<1>5. CASE k = 2
  BY <1>1, <1>5, SMT DEF Reach
<1>6. CASE k = 3
  BY <1>1, <1>6, SMT DEF Reach
<1>7. QED
  BY <1>2, <1>3, <1>4, <1>5, <1>6, SMT

\* What asn1_enc_int counts is the least number of octets the value fits in.
LEMMA More9Is ==
  ASSUME NEW value \in Int32
  PROVE  /\ More9(value) \in 0 .. 3
         /\ -Reach(More9(value)) <= value /\ value < Reach(More9(value))
         /\ \A k \in 0 .. More9(value) - 1 : value < -Reach(k) \/ value >= Reach(k)
<1> DEFINE In(k) == value \in -(128 * 256 ^ k) .. 128 * 256 ^ k - 1
           Fits(n) == /\ \A k \in 0 .. 3 : k < n => value \notin -(128 * 256 ^ k) .. 128 * 256 ^ k - 1
                      /\ n < 3 => value \in -(128 * 256 ^ n) .. 128 * 256 ^ n - 1
<1>1. value \in Int /\ -2147483648 <= value /\ value <= 2147483647
  BY SMT DEF Int32
<1>2. \A k \in 0 .. 3 : 128 * 256 ^ k = Reach(k) /\ Reach(k) \in Int
  BY Powers, Zenon
<1>3. \A k \in 0 .. 3 : Reach(k) \in Int
  BY <1>2
<1>4. \A k \in 0 .. 3 : In(k) <=> -Reach(k) <= value /\ value < Reach(k)
  <2>1. \A r \in Int : value \in -r .. r - 1 <=> -r <= value /\ value < r
    BY <1>1
  <2>2. QED
    BY <1>2, <2>1, Zenon
<1>5. ASSUME NEW n \in 0 .. 3
      PROVE  Fits(n) <=> /\ \A k \in 0 .. 3 : k < n => value < -Reach(k) \/ value >= Reach(k)
                         /\ n < 3 => -Reach(n) <= value /\ value < Reach(n)
  <2>0. Fits(n) <=> (\A k \in 0 .. 3 : k < n => ~In(k)) /\ (n < 3 => In(n))
    BY Zenon
  <2> HIDE DEF In, Fits
  <2>1. \A k \in 0 .. 3 : ~In(k) <=> value < -Reach(k) \/ value >= Reach(k)
    BY <1>1, <1>3, <1>4
  <2>2. QED
    BY <1>4, <2>0, <2>1, Zenon
<1>6. More9(value) = CHOOSE n \in 0 .. 3 : Fits(n)
  BY DEF More9
<1> HIDE DEF Fits
<1>7. \E n \in 0 .. 3 : Fits(n)
  <2>1. CASE -Reach(0) <= value /\ value < Reach(0)
    <3>1. Fits(0)
      BY <1>5, <2>1
    <3>2. QED
      BY <3>1
  <2>2. CASE ~(-Reach(0) <= value /\ value < Reach(0)) /\ -Reach(1) <= value /\ value < Reach(1)
    <3>1. \A k \in 0 .. 3 : k < 1 => k = 0
      OBVIOUS
    <3>2. Fits(1)
      BY <1>1, <1>3, <1>5, <2>2, <3>1
    <3>3. QED
      BY <3>2
  <2>3. CASE /\ ~(-Reach(0) <= value /\ value < Reach(0))
             /\ ~(-Reach(1) <= value /\ value < Reach(1))
             /\ -Reach(2) <= value /\ value < Reach(2)
    <3>1. \A k \in 0 .. 3 : k < 2 => k = 0 \/ k = 1
      OBVIOUS
    <3>2. Fits(2)
      BY <1>1, <1>3, <1>5, <2>3, <3>1
    <3>3. QED
      BY <3>2
  <2>4. CASE /\ ~(-Reach(0) <= value /\ value < Reach(0))
             /\ ~(-Reach(1) <= value /\ value < Reach(1))
             /\ ~(-Reach(2) <= value /\ value < Reach(2))
    <3>1. \A k \in 0 .. 3 : k < 3 => k = 0 \/ k = 1 \/ k = 2
      OBVIOUS
    <3>2. Fits(3)
      BY <1>1, <1>3, <1>5, <2>4, <3>1
    <3>3. QED
      BY <3>2
  <2>5. QED
    BY <2>1, <2>2, <2>3, <2>4
<1> DEFINE c == CHOOSE n \in 0 .. 3 : Fits(n)
<1>8. c \in 0 .. 3 /\ Fits(c)
  BY <1>7
<1> HIDE DEF c
<1>9. c < 3 \/ c = 3
  BY <1>8
<1>10. -Reach(c) <= value /\ value < Reach(c)
  <2>1. CASE c < 3
    BY <1>5, <1>8, <2>1
  <2>2. CASE c = 3
    BY <1>1, <2>2, SMT DEF Reach
  <2>3. QED
    BY <1>9, <2>1, <2>2
<1>11. \A k \in 0 .. c - 1 : value < -Reach(k) \/ value >= Reach(k)
  <2>1. \A k \in 0 .. c - 1 : k \in 0 .. 3 /\ k < c
    BY <1>8
  <2>2. QED
    BY <1>5, <1>8, <2>1
<1>12. QED
  BY <1>6, <1>8, <1>10, <1>11 DEF c

\* The octets are those of the number in two's complement.
LEMMA IntegerOctetsRead ==
  ASSUME NEW value \in Int32
  PROVE  /\ IntegerOctets(value) \in Seq(Octet)
         /\ Len(IntegerOctets(value)) = More9(value) + 1
         /\ Signed(IntegerOctets(value)) = value
<1> DEFINE c == More9(value)
           s == IntegerOctets(value)
<1>1. value \in Int /\ c \in 0 .. 3 /\ -Reach(c) <= value /\ value < Reach(c)
  BY More9Is, SMT DEF Int32
<1> HIDE DEF c
<1>2. s = [i \in 1 .. c + 1 |-> (value \div 256 ^ (c + 1 - i)) % 256]
  BY DEF IntegerOctets, c
<1> HIDE DEF s
<1>3. ASSUME NEW k \in 0 .. 3 PROVE 256 ^ k \in Int /\ 256 ^ k > 0
  BY Powers
<1>4. \A i \in 1 .. c + 1 : (value \div 256 ^ (c + 1 - i)) % 256 \in Octet
  <2> SUFFICES ASSUME NEW i \in 1 .. c + 1
               PROVE  (value \div 256 ^ (c + 1 - i)) % 256 \in Octet
    OBVIOUS
  <2> DEFINE w == 256 ^ (c + 1 - i)
  <2>1. w \in Int /\ w > 0
    <3> DEFINE k == c + 1 - i
    <3>1. k \in 0 .. 3
      BY <1>1
    <3> HIDE DEF k
    <3>2. 256 ^ k \in Int /\ 256 ^ k > 0
      BY <1>3, <3>1
    <3>3. QED
      BY <3>2 DEF k
  <2> HIDE DEF w
  <2>2. value \div w \in Int
    BY <1>1, <2>1, SMT
  <2>3. \A x \in Int : x % 256 \in Int /\ x % 256 >= 0 /\ x % 256 <= 255
    OBVIOUS
  <2>4. (value \div w) % 256 \in Octet
    BY <2>2, <2>3, OctetIs
  <2>5. QED
    BY <2>4 DEF w
<1>5. s \in Seq(Octet) /\ Len(s) = c + 1
  <2>1. c + 1 \in Nat
    BY <1>1
  <2>2. QED
    BY <1>2, <1>4, <2>1
<1>6. \A i \in 1 .. c + 1 : s[i] = (value \div 256 ^ (c + 1 - i)) % 256
  BY <1>2
<1>7. 256 ^ 0 = 1 /\ 256 ^ 1 = 256 /\ 256 ^ 2 = 65536 /\ 256 ^ 3 = 16777216
  BY SMT
<1> DEFINE h == IF s[1] > 127 THEN s[1] - 256 ELSE s[1]
<1>8. /\ Len(s) = 1 => Signed(s) = h
      /\ Len(s) = 2 => Signed(s) = (h * 256) + s[2]
      /\ Len(s) = 3 => Signed(s) = (((h * 256) + s[2]) * 256) + s[3]
      /\ Len(s) = 4 => Signed(s) = (((((h * 256) + s[2]) * 256) + s[3]) * 256) + s[4]
  <2>1. Len(s) \in 1 .. 4
    BY <1>1, <1>5
  <2>2. QED
    BY <1>5, <2>1, SignedIs
<1>9. value \div 1 = value
  BY <1>1
<1>10. CASE c = 0
  <2>1. s[1] = value % 256
    <3>1. s[1] = (value \div 256 ^ 0) % 256
      BY <1>6, <1>10
    <3>2. QED
      BY <1>7, <1>9, <3>1, SMT
  <2>2. -128 <= value /\ value < 128
    BY <1>1, <1>10, SMT DEF Reach
  <2>3. h = value
    BY <1>1, <2>1, <2>2, SMT
  <2>4. QED
    BY <1>5, <1>8, <1>10, <2>3, SMT DEF c, s
<1>11. CASE c = 1
  <2>1. s[1] = (value \div 256) % 256 /\ s[2] = value % 256
    <3>1. s[1] = (value \div 256 ^ 1) % 256 /\ s[2] = (value \div 256 ^ 0) % 256
      BY <1>6, <1>11
    <3>2. QED
      BY <1>7, <1>9, <3>1, SMT
  <2>2. -32768 <= value /\ value < 32768
    BY <1>1, <1>11, SMT DEF Reach
  <2>3. (h * 256) + s[2] = value
    BY <1>1, <2>1, <2>2, SMT
  <2>4. QED
    BY <1>5, <1>8, <1>11, <2>3, SMT DEF c, s
<1>12. CASE c = 2
  <2>1. s[1] = (value \div 65536) % 256 /\ s[2] = (value \div 256) % 256 /\ s[3] = value % 256
    <3>1. /\ s[1] = (value \div 256 ^ 2) % 256 /\ s[2] = (value \div 256 ^ 1) % 256
          /\ s[3] = (value \div 256 ^ 0) % 256
      BY <1>6, <1>12
    <3>2. QED
      BY <1>7, <1>9, <3>1, SMT
  <2>2. -8388608 <= value /\ value < 8388608
    BY <1>1, <1>12, SMT DEF Reach
  <2>3. (((h * 256) + s[2]) * 256) + s[3] = value
    BY <1>1, <2>1, <2>2, SMT
  <2>4. QED
    BY <1>5, <1>8, <1>12, <2>3, SMT DEF c, s
<1>13. CASE c = 3
  <2>1. /\ s[1] = (value \div 16777216) % 256 /\ s[2] = (value \div 65536) % 256
        /\ s[3] = (value \div 256) % 256 /\ s[4] = value % 256
    <3>1. /\ s[1] = (value \div 256 ^ 3) % 256 /\ s[2] = (value \div 256 ^ 2) % 256
          /\ s[3] = (value \div 256 ^ 1) % 256 /\ s[4] = (value \div 256 ^ 0) % 256
      BY <1>6, <1>13
    <3>2. QED
      BY <1>7, <1>9, <3>1, SMT
  <2>2. -2147483648 <= value /\ value < 2147483648
    BY <1>1, <1>13, SMT DEF Reach
  <2>3. (((((h * 256) + s[2]) * 256) + s[3]) * 256) + s[4] = value
    BY <1>1, <2>1, <2>2, SMT
  <2>4. QED
    BY <1>5, <1>8, <1>13, <2>3, SMT DEF c, s
<1>14. QED
  BY <1>1, <1>10, <1>11, <1>12, <1>13, SMT

-----------------------------------------------------------------------------
(* What each encoder sends, its decoder reads: the same value, and the      *)
(* position after it; and nothing when the last octets are missing.         *)

\* A primitive as the decoders of structures read it: its tag, then its value.
ReadInteger(o, pos, end) ==
    Then(asn1_dec_tag(o, pos, end), LAMBDA p, t :
        Giving(asn1_dec_int(o, p, end), LAMBDA v : <<t, v>>))
ReadBoolean(o, pos, end) ==
    Then(asn1_dec_tag(o, pos, end), LAMBDA p, t :
        Giving(asn1_dec_boolean(o, p, end), LAMBDA v : <<t, v>>))
ReadNull(o, pos, end) ==
    Then(asn1_dec_tag(o, pos, end), LAMBDA p, t :
        Giving(asn1_dec_null(o, p, end), LAMBDA v : <<t, v>>))
ReadOid(o, pos, end) ==
    Then(asn1_dec_tag(o, pos, end), LAMBDA p, t :
        Giving(asn1_dec_oid(o, p, end), LAMBDA v : <<t, v>>))
ReadString(o, pos, end, size, cuts) ==
    Then(asn1_dec_tag(o, pos, end), LAMBDA p, t :
        Then(asn1_dec_length(o, p, end), LAMBDA q, length :
            Fitting(o, q, q + length, size, cuts)))

\* Components of less than 128 octets have a length of one octet.
LEMMA ShortElement ==
  ASSUME NEW tag \in Octet, NEW body \in Seq(Octet), Len(body) < 128
  PROVE  body \in Body /\ Element(tag, body) = <<tag, Len(body)>> \o body
<1>1. Len(body) \in Nat /\ Len(body) \in Length
  BY DEF Length
<1>2. asn1_enc_length(Len(body)) = <<Len(body)>>
  BY DEF asn1_enc_length
<1>3. ASSUME NEW n \in Octet PROVE <<tag>> \o <<n>> = <<tag, n>>
  <2> DEFINE s == <<tag>> \o <<n>>
             u == <<tag, n>>
  <2>1. <<tag>> \in Seq(Octet) /\ <<n>> \in Seq(Octet) /\ Len(<<tag>>) = 1 /\ Len(<<n>>) = 1
    OBVIOUS
  <2>2. /\ s \in Seq(Octet) /\ Len(s) = 2
        /\ \A i \in 1 .. 2 : s[i] = IF i <= 1 THEN <<tag>>[i] ELSE <<n>>[i - 1]
    BY <2>1, ConcatProperties
  <2>3. u \in Seq(Octet) /\ Len(u) = 2 /\ u[1] = tag /\ u[2] = n
    OBVIOUS
  <2>4. s[1] = tag /\ s[2] = n
    BY <2>2
  <2> HIDE DEF s, u
  <2>5. \A i \in 1 .. Len(s) : s[i] = u[i]
    BY <2>2, <2>3, <2>4
  <2>6. s = u
    BY <2>2, <2>3, <2>5, SeqEqual
  <2>7. QED
    BY <2>6 DEF s, u
<1>4. Len(body) \in Octet
  BY <1>1, OctetIs
<1>5. QED
  BY <1>1, <1>2, <1>3, <1>4 DEF Body, Element

\* The surroundings: what came before, what follows, and where the component around
\* this one ends are arbitrary.
Surrounds(o, pos, end, octets) ==
    /\ o \in Seq(Octet) /\ pos \in Nat \ {0} /\ end \in Nat /\ end <= Len(o) + 1
    /\ Stands(octets, o, pos)

\* A tag and a component as the decoders of structures read them.
LEMMA ElementRead ==
  ASSUME NEW tag \in Tag, NEW body \in Body, NEW o, NEW pos, NEW end, NEW sizes,
         Surrounds(o, pos, end, Element(tag, body))
  PROVE  LET after == pos + Len(Element(tag, body))
         IN  /\ asn1_dec_tag(o, pos, end) = IF end <= pos THEN Null ELSE <<pos + 1, tag>>
             /\ Contents(o, pos + 1, end, sizes) =
                   IF end < after \/ Len(body) \notin sizes THEN Null ELSE <<after, body>>
             /\ after \in Nat /\ after > pos + Len(body)
<1>1. /\ o \in Seq(Octet) /\ pos \in Nat \ {0} /\ end \in Nat /\ end <= Len(o) + 1
      /\ Stands(Element(tag, body), o, pos) /\ tag \in Octet
  BY DEF Surrounds, Tag
<1>2. Stands(<<tag>>, o, pos)
  BY <1>1, ElementStands
<1>3. asn1_dec_tag(o, pos, end) = IF end <= pos THEN Null ELSE <<pos + 1, tag>>
  BY <1>1, <1>2, TagRead
<1>4. Contents(o, pos + 1, end, sizes) =
         IF end < pos + Len(Element(tag, body)) \/ Len(body) \notin sizes THEN Null
         ELSE <<pos + Len(Element(tag, body)), body>>
  BY <1>1, ContentsRead
<1>5. Len(Element(tag, body)) = 1 + Len(asn1_enc_length(Len(body))) + Len(body)
  BY <1>1, ElementOctets DEF Header
<1>6. Len(body) \in Nat /\ Len(asn1_enc_length(Len(body))) \in Nat
  BY LengthOctets DEF Body
<1>7. QED
  BY <1>1, <1>3, <1>4, <1>5, <1>6

\* A tag is read, then a primitive: Null when either is.
LEMMA TagThenValue ==
  ASSUME NEW tag, NEW value, NEW pos \in Nat, NEW end \in Nat, NEW after \in Nat, pos < after,
         NEW t, t = IF end <= pos THEN Null ELSE <<pos + 1, tag>>,
         NEW d, d = IF end < after THEN Null ELSE <<after, value>>
  PROVE  /\ (t = Null) <=> end <= pos
         /\ t # Null => t[1] = pos + 1 /\ t[2] = tag
         /\ (IF t = Null THEN Null ELSE IF d = Null THEN Null ELSE <<d[1], <<t[2], d[2]>> >>)
            = IF end < after THEN Null ELSE <<after, <<tag, value>> >>
<1>1. \A x, y : <<x, y>> # Null
  BY DEF Null
<1>2. CASE end <= pos
  BY <1>2
<1>3. CASE ~(end <= pos) /\ end < after
  BY <1>1, <1>3
<1>4. CASE ~(end <= pos) /\ ~(end < after)
  <2>1. t = <<pos + 1, tag>> /\ d = <<after, value>>
    BY <1>4
  <2>2. t # Null /\ d # Null
    BY <1>1, <2>1
  <2>3. QED
    BY <1>4, <2>1, <2>2
<1>5. QED
  BY <1>2, <1>3, <1>4

(* asn1_enc_int and asn1_dec_int agree on every int32_t, at every boundary of *)
(* what fits in one, two or three octets and for both signs; an integer whose *)
(* last octets are missing is refused.                                        *)
THEOREM IntegersSurvive ==
  ASSUME NEW tag \in Tag, NEW value \in Int32, NEW o, NEW pos, NEW end,
         Surrounds(o, pos, end, asn1_enc_int(tag, value))
  PROVE  LET after == pos + Len(asn1_enc_int(tag, value))
         IN  ReadInteger(o, pos, end) =
             IF end < after THEN Null ELSE <<after, <<tag, value>> >>
<1> DEFINE body == IntegerOctets(value)
           after == pos + Len(asn1_enc_int(tag, value))
           read == asn1_dec_tag(o, pos, end)
           d == asn1_dec_int(o, pos + 1, end)
<1>1. More9(value) \in 0 .. 3
  BY More9Is
<1>2. body \in Seq(Octet) /\ Len(body) = More9(value) + 1 /\ Signed(body) = value
  BY IntegerOctetsRead
<1>3. asn1_enc_int(tag, value) = <<tag, More9(value) + 1>> \o body
  BY DEF asn1_enc_int, IntegerOctets
<1> HIDE DEF body
<1>4. tag \in Octet /\ Len(body) \in Nat /\ Len(body) < 128 /\ Len(body) >= 1
  BY <1>1, <1>2 DEF Tag
<1>5. body \in Body /\ asn1_enc_int(tag, value) = Element(tag, body)
  BY <1>2, <1>3, <1>4, ShortElement
<1>6. Surrounds(o, pos, end, Element(tag, body))
  BY <1>5
<1>7. /\ read = IF end <= pos THEN Null ELSE <<pos + 1, tag>>
      /\ Contents(o, pos + 1, end, 1 .. Len(o)) =
            IF end < after \/ Len(body) \notin 1 .. Len(o) THEN Null ELSE <<after, body>>
      /\ after \in Nat /\ after > pos + Len(body)
  BY <1>5, <1>6, ElementRead
<1>8. end \in Nat /\ end <= Len(o) + 1 /\ Len(o) \in Nat /\ pos \in Nat
  BY DEF Surrounds
<1>9. end >= after => Len(body) \in 1 .. Len(o)
  BY <1>4, <1>7, <1>8
<1>10. d = IF end < after THEN Null ELSE <<after, value>>
  <2> HIDE DEF after
  <2>1. CASE end < after
    BY <1>7, <2>1 DEF asn1_dec_int, Giving
  <2>2. CASE ~(end < after)
    <3>1. Contents(o, pos + 1, end, 1 .. Len(o)) = <<after, body>>
      BY <1>7, <1>8, <1>9, <2>2
    <3>2. QED
      BY <1>2, <2>2, <3>1 DEF asn1_dec_int, Giving, Null
  <2>3. QED
    BY <2>1, <2>2
<1>11. pos < after
  BY <1>4, <1>7, <1>8
<1> HIDE DEF after, read, d
<1>12. /\ read # Null => read[1] = pos + 1 /\ read[2] = tag
       /\ (IF read = Null THEN Null ELSE IF d = Null THEN Null ELSE <<d[1], <<read[2], d[2]>> >>)
          = IF end < after THEN Null ELSE <<after, <<tag, value>> >>
  BY <1>7, <1>8, <1>10, <1>11, TagThenValue
<1>13. ReadInteger(o, pos, end) = IF end < after THEN Null ELSE <<after, <<tag, value>> >>
  BY <1>12 DEF ReadInteger, Then, Giving, d, read
<1>14. QED
  BY <1>13 DEF after

(* asn1_enc_boolean and asn1_dec_boolean: any value but 0 is true.          *)
THEOREM BooleansSurvive ==
  ASSUME NEW tag \in Tag, NEW value \in Int, NEW o, NEW pos, NEW end,
         Surrounds(o, pos, end, asn1_enc_boolean(tag, value))
  PROVE  ReadBoolean(o, pos, end) =
            IF end < pos + 3 THEN Null ELSE <<pos + 3, <<tag, IF value # 0 THEN 1 ELSE 0>> >>
<1> DEFINE truth == IF value # 0 THEN 1 ELSE 0
           body == <<truth>>
           after == pos + 3
           read == asn1_dec_tag(o, pos, end)
           d == asn1_dec_boolean(o, pos + 1, end)
<1>1. truth \in Octet /\ (truth = 0 \/ truth = 1)
  BY OctetIs
<1>2. asn1_enc_boolean(tag, value) = <<tag, 1, truth>>
  BY DEF asn1_enc_boolean
<1> HIDE DEF truth
<1>3. tag \in Octet /\ 1 \in Octet
  BY OctetIs DEF Tag
<1>4. body \in Seq(Octet) /\ Len(body) = 1 /\ body[1] = truth
  BY <1>1
<1> HIDE DEF body
<1>5. asn1_enc_boolean(tag, value) = <<tag, Len(body)>> \o body
  <2> DEFINE s == <<tag, 1>> \o body
             u == <<tag, 1, truth>>
  <2>1. <<tag, 1>> \in Seq(Octet) /\ Len(<<tag, 1>>) = 2
    BY <1>3
  <2>2. /\ s \in Seq(Octet) /\ Len(s) = 3
        /\ \A i \in 1 .. 3 : s[i] = IF i <= 2 THEN <<tag, 1>>[i] ELSE body[i - 2]
    <3> DEFINE a == <<tag, 1>>
    <3> HIDE DEF a
    <3>1. a \in Seq(Octet) /\ Len(a) = 2
      BY <2>1 DEF a
    <3>2. /\ a \o body \in Seq(Octet) /\ Len(a \o body) = Len(a) + Len(body)
          /\ \A i \in 1 .. Len(a) + Len(body) :
                (a \o body)[i] = IF i <= Len(a) THEN a[i] ELSE body[i - Len(a)]
      BY <1>4, <3>1, ConcatProperties
    <3>3. QED
      BY <1>4, <3>1, <3>2 DEF a
  <2>3. u \in Seq(Octet) /\ Len(u) = 3 /\ u[1] = tag /\ u[2] = 1 /\ u[3] = truth
    BY <1>1, <1>3
  <2>4. s[1] = tag /\ s[2] = 1 /\ s[3] = truth
    BY <1>4, <2>2
  <2> HIDE DEF s, u
  <2>5. \A i \in 1 .. Len(s) : s[i] = u[i]
    BY <2>2, <2>3, <2>4
  <2>6. s = u
    BY <2>2, <2>3, <2>5, SeqEqual
  <2>7. QED
    BY <1>2, <1>4, <2>6 DEF s, u
<1>6. body \in Body /\ asn1_enc_boolean(tag, value) = Element(tag, body)
  <2>1. Len(body) < 128
    BY <1>4
  <2>2. QED
    BY <1>3, <1>4, <1>5, <2>1, ShortElement
<1>7. Len(Element(tag, body)) = 3
  BY <1>2, <1>6
<1>8. Surrounds(o, pos, end, Element(tag, body))
  BY <1>6
<1> DEFINE last == pos + Len(Element(tag, body))
<1> HIDE DEF last
<1>9. last = after
  BY <1>7 DEF last
<1>9a. /\ read = IF end <= pos THEN Null ELSE <<pos + 1, tag>>
       /\ Contents(o, pos + 1, end, {1}) =
             IF end < last \/ Len(body) \notin {1} THEN Null ELSE <<last, body>>
  <2> DEFINE one == {1}
  <2> HIDE DEF after, one
  <2>1. body \in Body
    BY <1>6
  <2>2. /\ asn1_dec_tag(o, pos, end) = IF end <= pos THEN Null ELSE <<pos + 1, tag>>
        /\ Contents(o, pos + 1, end, one) =
              IF end < pos + Len(Element(tag, body)) \/ Len(body) \notin one THEN Null
              ELSE <<pos + Len(Element(tag, body)), body>>
    BY <1>8, <2>1, ElementRead
  <2>3. QED
    BY <2>2 DEF last, one
<1>10. end \in Nat /\ pos \in Nat /\ after \in Nat /\ pos < after
  BY DEF Surrounds
<1>11. d = IF end < after THEN Null ELSE <<after, truth>>
  <2> HIDE DEF after
  <2>1. CASE end < after
    BY <1>9, <1>9a, <2>1 DEF asn1_dec_boolean, Giving
  <2>2. CASE ~(end < after)
    <3>1. Contents(o, pos + 1, end, {1}) = <<after, body>>
      BY <1>4, <1>9, <1>9a, <2>2
    <3>2. QED
      BY <1>1, <1>4, <2>2, <3>1 DEF asn1_dec_boolean, Giving, Null
  <2>3. QED
    BY <2>1, <2>2
<1> HIDE DEF after, read, d
<1>12. /\ read # Null => read[1] = pos + 1 /\ read[2] = tag
       /\ (IF read = Null THEN Null ELSE IF d = Null THEN Null ELSE <<d[1], <<read[2], d[2]>> >>)
          = IF end < after THEN Null ELSE <<after, <<tag, truth>> >>
  <2>1. read = IF end <= pos THEN Null ELSE <<pos + 1, tag>>
    BY <1>9a
  <2>2. QED
    BY <1>10, <1>11, <2>1, TagThenValue
<1>13. ReadBoolean(o, pos, end) = IF end < after THEN Null ELSE <<after, <<tag, truth>> >>
  BY <1>12 DEF ReadBoolean, Then, Giving, d, read
<1>14. QED
  BY <1>13 DEF after, truth

(* asn1_enc_null and asn1_dec_null.                                         *)
THEOREM NullsSurvive ==
  ASSUME NEW tag \in Tag, NEW o, NEW pos, NEW end, Surrounds(o, pos, end, asn1_enc_null(tag))
  PROVE  ReadNull(o, pos, end) =
            IF end < pos + 2 THEN Null ELSE <<pos + 2, <<tag, << >> >> >>
<1> DEFINE body == <<>>
           nothing == << >>
           after == pos + 2
           last == pos + Len(Element(tag, body))
           read == asn1_dec_tag(o, pos, end)
           d == asn1_dec_null(o, pos + 1, end)
<1>1. tag \in Octet /\ 0 \in Octet
  BY OctetIs DEF Tag
<1>2. body \in Seq(Octet) /\ Len(body) = 0
  OBVIOUS
<1>3. asn1_enc_null(tag) = <<tag, Len(body)>> \o body
  <2>1. <<tag, 0>> \in Seq(Octet)
    BY <1>1
  <2>2. <<tag, 0>> \o <<>> = <<tag, 0>>
    BY <2>1, ConcatEmptySeq
  <2>3. QED
    BY <1>2, <2>2 DEF asn1_enc_null
<1>4. Len(asn1_enc_null(tag)) = 2
  BY DEF asn1_enc_null
<1> HIDE DEF body, last
<1>5. body \in Body /\ asn1_enc_null(tag) = Element(tag, body)
  <2>1. Len(body) < 128
    BY <1>2
  <2>2. QED
    BY <1>1, <1>2, <1>3, <2>1, ShortElement
<1>6. Surrounds(o, pos, end, Element(tag, body))
  BY <1>5
<1>7. last = after
  BY <1>4, <1>5 DEF last
<1>8. /\ read = IF end <= pos THEN Null ELSE <<pos + 1, tag>>
      /\ Contents(o, pos + 1, end, {0}) =
            IF end < last \/ Len(body) \notin {0} THEN Null ELSE <<last, body>>
  BY <1>5, <1>6, ElementRead DEF last
<1>9. end \in Nat /\ pos \in Nat /\ after \in Nat /\ pos < after
  BY DEF Surrounds
<1> HIDE DEF after
<1>10. d = IF end < after THEN Null ELSE <<after, nothing>>
  <2>1. CASE end < after
    BY <1>7, <1>8, <2>1 DEF asn1_dec_null, Giving
  <2>2. CASE ~(end < after)
    <3>1. Contents(o, pos + 1, end, {0}) = <<after, body>>
      BY <1>2, <1>7, <1>8, <2>2
    <3>2. QED
      BY <2>2, <3>1 DEF asn1_dec_null, Giving, Null
  <2>3. QED
    BY <2>1, <2>2
<1> HIDE DEF read, d, nothing
<1>11. (IF read = Null THEN Null ELSE IF d = Null THEN Null ELSE <<d[1], <<read[2], d[2]>> >>)
       = IF end < after THEN Null ELSE <<after, <<tag, nothing>> >>
  <2>1. read = IF end <= pos THEN Null ELSE <<pos + 1, tag>>
    BY <1>8
  <2>2. QED
    BY <1>9, <1>10, <2>1, TagThenValue
<1>12. read # Null => read[1] = pos + 1
  BY <1>8
<1>13. ReadNull(o, pos, end) = IF end < after THEN Null ELSE <<after, <<tag, nothing>> >>
  BY <1>11, <1>12 DEF ReadNull, Then, Giving, d, read
<1>14. QED
  BY <1>13 DEF after, nothing
\* The three outcomes of a string for a buffer.
LEMMA FittingIs ==
  ASSUME NEW o, NEW first, NEW after, NEW size, NEW cuts \in BOOLEAN
  PROVE  /\ after - first < size =>
               Fitting(o, first, after, size, cuts) = <<after, SubSeq(o, first, after - 1)>>
         /\ ~(after - first < size) /\ cuts =>
               Fitting(o, first, after, size, cuts) = <<after, SubSeq(o, first, first + size - 2)>>
         /\ ~(after - first < size) /\ ~cuts => Fitting(o, first, after, size, cuts) = Null
BY Zenon DEF Fitting

(* asn1_enc_string_bin, and a string of definite length for a buffer of size *)
(* octets: it is read whole when the buffer holds it and a zero; else it is *)
(* cut at the size of the buffer (asn1_dec_string_max) or refused           *)
(* (asn1_dec_string_bin), and never runs past the buffer.                   *)
THEOREM StringsSurvive ==
  ASSUME NEW tag \in Tag, NEW str \in Body, NEW size \in Nat \ {0}, NEW cuts \in BOOLEAN,
         NEW o, NEW pos, NEW end, Surrounds(o, pos, end, asn1_enc_string_bin(tag, str))
  PROVE  LET after == pos + Len(asn1_enc_string_bin(tag, str))
         IN  ReadString(o, pos, end, size, cuts) =
             IF end < after \/ (~cuts /\ Len(str) >= size) THEN Null
               ELSE <<after, IF Len(str) < size THEN str ELSE SubSeq(str, 1, size - 1)>>
<1> DEFINE after == pos + Len(Element(tag, str))
           p == pos + Header(str)
           read == asn1_dec_tag(o, pos, end)
           d == asn1_dec_length(o, pos + 1, end)
<1>1. asn1_enc_string_bin(tag, str) = Element(tag, str)
  BY DEF asn1_enc_string_bin, Element
<1>2. /\ o \in Seq(Octet) /\ pos \in Nat \ {0} /\ end \in Nat /\ end <= Len(o) + 1
      /\ Stands(Element(tag, str), o, pos) /\ tag \in Octet
  BY <1>1 DEF Surrounds, Tag
<1>3. str \in Seq(Octet) /\ Len(str) \in Length /\ Len(str) \in Nat
  BY DEF Body
<1>4. /\ Stands(<<tag>>, o, pos) /\ Stands(asn1_enc_length(Len(str)), o, pos + 1)
      /\ Stands(str, o, pos + Header(str)) /\ Len(Element(tag, str)) = Header(str) + Len(str)
  BY <1>2, ElementStands, ElementOctets
<1>5. read = IF end <= pos THEN Null ELSE <<pos + 1, tag>>
  BY <1>2, <1>4, TagRead
<1>6. Len(asn1_enc_length(Len(str))) \in Nat /\ Header(str) = 1 + Len(asn1_enc_length(Len(str)))
  BY <1>3, LengthOctets DEF Header
<1>7. p \in Nat \ {0} /\ p > pos /\ p = pos + 1 + Len(asn1_enc_length(Len(str)))
      /\ after = p + Len(str)
  BY <1>2, <1>3, <1>4, <1>6
<1>8. d = IF end < p + Len(str) THEN Null ELSE <<p, Len(str)>>
  <2>1. pos + 1 \in Nat \ {0}
    BY <1>2
  <2>2. /\ o \in Seq(Octet) /\ end \in Nat /\ end <= Len(o) + 1 /\ Len(str) \in Length
        /\ Stands(asn1_enc_length(Len(str)), o, pos + 1)
    BY <1>2, <1>3, <1>4
  <2> HIDE DEF p, after
  <2>3. d = IF end < pos + 1 + Len(asn1_enc_length(Len(str))) + Len(str) THEN Null
            ELSE <<pos + 1 + Len(asn1_enc_length(Len(str))), Len(str)>>
    BY <2>1, <2>2, LengthRead
  <2>4. QED
    BY <1>7, <2>3
<1>9. Stands(str, o, p)
  BY <1>4
<1> HIDE DEF p, after
<1>10. SubSeq(o, p, after - 1) = str
  BY <1>2, <1>3, <1>7, <1>9, StandsIs
<1>11. ASSUME Len(str) >= size
       PROVE  SubSeq(o, p, p + size - 2) = SubSeq(str, 1, size - 1)
  <2> DEFINE s == SubSeq(o, p, p + size - 2)
             u == SubSeq(str, 1, size - 1)
  <2>1. p + Len(str) - 1 <= Len(o) /\ Len(o) \in Nat /\ \A i \in 1 .. Len(str) : o[p + i - 1] = str[i]
    BY <1>2, <1>9 DEF Stands
  <2>2. \A i \in p .. p + size - 2 : o[i] \in Octet
    <3>1. \A i \in p .. p + size - 2 : i \in 1 .. Len(o)
      BY <1>3, <1>7, <1>11, <2>1
    <3>2. \A i \in 1 .. Len(o) : o[i] \in Octet
      BY <1>2
    <3>3. QED
      BY <3>1, <3>2
  <2>3. \A i \in 1 .. size - 1 : str[i] \in Octet
    BY <1>3, <1>11
  <2>4. p \in Int /\ p + size - 2 \in Int /\ 1 \in Int /\ size - 1 \in Int
    BY <1>7
  <2>5. /\ s \in Seq(Octet) /\ Len(s) = IF p <= p + size - 2 THEN p + size - 2 - p + 1 ELSE 0
        /\ \A i \in 1 .. p + size - 2 - p + 1 : s[i] = o[p + i - 1]
    BY <2>2, <2>4, SubSeqProperties
  <2>6. /\ u \in Seq(Octet) /\ Len(u) = IF 1 <= size - 1 THEN size - 1 - 1 + 1 ELSE 0
        /\ \A i \in 1 .. size - 1 - 1 + 1 : u[i] = str[1 + i - 1]
    BY <2>3, <2>4, SubSeqProperties
  <2> HIDE DEF s, u
  <2>7. Len(s) = size - 1 /\ Len(u) = size - 1
    BY <1>7, <2>5, <2>6
  <2>8. \A i \in 1 .. Len(s) : s[i] = u[i]
    <3> SUFFICES ASSUME NEW i \in 1 .. Len(s) PROVE s[i] = u[i]
      OBVIOUS
    <3>1. /\ i \in 1 .. p + size - 2 - p + 1 /\ i \in 1 .. size - 1 - 1 + 1
          /\ i \in 1 .. Len(str) /\ 1 + i - 1 = i
      BY <1>3, <1>7, <1>11, <2>7
    <3>2. QED
      BY <2>1, <2>5, <2>6, <3>1
  <2>9. s = u
    BY <2>5, <2>6, <2>7, <2>8, SeqEqual
  <2>10. QED
    BY <2>9 DEF s, u
<1> DEFINE length == Len(str)
           gets == IF length < size THEN str ELSE SubSeq(str, 1, size - 1)
<1>12. /\ length < size => Fitting(o, p, p + length, size, cuts) = <<after, SubSeq(o, p, after - 1)>>
       /\ ~(length < size) /\ cuts =>
             Fitting(o, p, p + length, size, cuts) = <<after, SubSeq(o, p, p + size - 2)>>
       /\ ~(length < size) /\ ~cuts => Fitting(o, p, p + length, size, cuts) = Null
  <2>1. after - p = length /\ p + length = after
    BY <1>3, <1>7
  <2> HIDE DEF length, read, d, gets
  <2>2. /\ after - p < size => Fitting(o, p, after, size, cuts) = <<after, SubSeq(o, p, after - 1)>>
        /\ ~(after - p < size) /\ cuts =>
              Fitting(o, p, after, size, cuts) = <<after, SubSeq(o, p, p + size - 2)>>
        /\ ~(after - p < size) /\ ~cuts => Fitting(o, p, after, size, cuts) = Null
    BY FittingIs
  <2>3. (after - p < size) = (length < size)
    BY <2>1
  <2>4. Fitting(o, p, p + length, size, cuts) = Fitting(o, p, after, size, cuts)
    BY <2>1
  <2>5. QED
    BY <2>2, <2>3, <2>4, Zenon
<1>13. length >= size <=> ~(length < size)
  BY <1>3
<1>14. Fitting(o, p, p + length, size, cuts) =
          IF ~cuts /\ length >= size THEN Null ELSE <<after, gets>>
  <2>1. length < size => gets = SubSeq(o, p, after - 1)
    BY <1>10
  <2>2. ~(length < size) => gets = SubSeq(o, p, p + size - 2)
    BY <1>11, <1>13
  <2> HIDE DEF gets, length
  <2>3. QED
    BY <1>12, <1>13, <2>1, <2>2, Zenon
<1> HIDE DEF read, d, gets
<1>15. \A x, y : <<x, y>> # Null
  BY DEF Null
<1>16. ReadString(o, pos, end, size, cuts) =
          IF read = Null THEN Null
          ELSE LET e == asn1_dec_length(o, read[1], end)
               IN  IF e = Null THEN Null ELSE Fitting(o, e[1], e[1] + e[2], size, cuts)
  BY DEF ReadString, Then, read
<1>17. read # Null => read[1] = pos + 1
  BY <1>5
<1>18. ReadString(o, pos, end, size, cuts) =
          IF read = Null THEN Null
          ELSE IF d = Null THEN Null ELSE Fitting(o, d[1], d[1] + d[2], size, cuts)
  BY <1>16, <1>17 DEF d
<1>19. CASE end <= pos
  <2>1. read = Null /\ end < after
    BY <1>2, <1>3, <1>5, <1>7, <1>19
  <2>2. QED
    BY <1>1, <1>18, <2>1 DEF after
<1>20. CASE ~(end <= pos) /\ end < after
  <2>1. d = Null
    BY <1>7, <1>8, <1>20
  <2>2. QED
    BY <1>1, <1>18, <1>20, <2>1 DEF after
<1>21. CASE ~(end <= pos) /\ ~(end < after)
  <2>1. read # Null
    BY <1>5, <1>15, <1>21
  <2>2. d = <<p, length>> /\ d # Null /\ d[1] = p /\ d[2] = length
    BY <1>7, <1>8, <1>15, <1>21
  <2>3. ReadString(o, pos, end, size, cuts) = Fitting(o, p, p + length, size, cuts)
    <3> HIDE DEF length
    <3> QED
      BY <1>18, <2>1, <2>2
  <2>4. ReadString(o, pos, end, size, cuts) =
           IF end < after \/ (~cuts /\ length >= size) THEN Null ELSE <<after, gets>>
    <3> HIDE DEF length
    <3> QED
      BY <1>14, <1>21, <2>3, Zenon
  <2>5. QED
    BY <1>1, <2>4 DEF after, gets
<1>22. QED
  BY <1>19, <1>20, <1>21


(* ASN1_CONSTRUCTED_BEGIN and _END: the components between them are found   *)
(* where they were put, and the place where they end is the end that their  *)
(* decoders are given; a structure whose last octets are missing is refused *)
(* before any of them is read.                                              *)
THEOREM ConstructedsOpen ==
  ASSUME NEW tag \in Tag, NEW body \in Body, NEW o, NEW pos, NEW end,
         Surrounds(o, pos, end, Constructed(tag, body))
  PROVE  LET first == pos + Header(body)
             after == first + Len(body)
         IN  /\ asn1_dec_tag(o, pos, end) =
                   IF end <= pos THEN Null ELSE <<pos + 1, Primitive(tag) + ASN1_PC_CONSTRUCTED>>
             /\ IsConstructed(Primitive(tag) + ASN1_PC_CONSTRUCTED)
             /\ asn1_dec_length(o, pos + 1, end) =
                   IF end < after THEN Null ELSE <<first, Len(body)>>
             /\ end >= after => Surrounds(o, first, after, body)
<1> DEFINE c == Primitive(tag) + ASN1_PC_CONSTRUCTED
           first == pos + Header(body)
           n == Len(asn1_enc_length(Len(body)))
<1>1. c \in Tag /\ c \in Octet /\ IsConstructed(c)
  <2>1. tag \in Int /\ tag >= 0 /\ tag <= 255 /\ tag % 32 # 31
    BY OctetIs DEF Tag, ASN1_TYPE_MASK
  <2>2. c = IF (tag \div 32) % 2 = 1 THEN tag ELSE tag + 32
    BY <2>1 DEF Primitive, IsConstructed, ASN1_PC_CONSTRUCTED
  <2> HIDE DEF c
  <2>3. c \in Int /\ c >= 0 /\ c <= 255 /\ c % 32 # 31 /\ (c \div 32) % 2 = 1
    BY <2>1, <2>2
  <2>4. c \in Octet
    BY <2>3, OctetIs
  <2>5. QED
    BY <2>3, <2>4 DEF Tag, IsConstructed, ASN1_PC_CONSTRUCTED, ASN1_TYPE_MASK
<1>2. Constructed(tag, body) = Element(c, body)
  BY DEF Constructed, Element
<1> HIDE DEF c
<1>3. /\ o \in Seq(Octet) /\ pos \in Nat \ {0} /\ end \in Nat /\ end <= Len(o) + 1
      /\ Stands(Element(c, body), o, pos)
  BY <1>2 DEF Surrounds
<1>4. body \in Seq(Octet) /\ Len(body) \in Length /\ Len(body) \in Nat
  BY DEF Body
<1>5. /\ Stands(<<c>>, o, pos) /\ Stands(asn1_enc_length(Len(body)), o, pos + 1)
      /\ Stands(body, o, first)
  BY <1>1, <1>3, ElementStands
<1>6. asn1_dec_tag(o, pos, end) = IF end <= pos THEN Null ELSE <<pos + 1, c>>
  BY <1>1, <1>3, <1>5, TagRead
<1>7. n \in Nat /\ first = pos + 1 + n /\ first \in Nat \ {0} /\ pos + 1 \in Nat \ {0}
  BY <1>3, <1>4, LengthOctets DEF Header
<1>8. asn1_dec_length(o, pos + 1, end) =
         IF end < pos + 1 + n + Len(body) THEN Null ELSE <<pos + 1 + n, Len(body)>>
  BY <1>3, <1>4, <1>5, <1>7, LengthRead
<1> HIDE DEF first, n
<1>9. asn1_dec_length(o, pos + 1, end) =
         IF end < first + Len(body) THEN Null ELSE <<first, Len(body)>>
  BY <1>7, <1>8
<1>10. end >= first + Len(body) => Surrounds(o, first, first + Len(body), body)
  <2>1. first + Len(body) \in Nat
    BY <1>4, <1>7
  <2>2. end >= first + Len(body) => first + Len(body) <= Len(o) + 1
    BY <1>3, <2>1
  <2>3. QED
    BY <1>3, <1>5, <1>7, <2>1, <2>2 DEF Surrounds
<1>11. QED
  BY <1>1, <1>6, <1>9, <1>10 DEF c, first

(* asn1_enc_int sends as few octets as there can be: what asn1_dec_int would *)
(* read as the same number is never shorter.  This is what "The first 9 bits *)
(* of a multiple octet integer is not all ones or zeroes" is for             *)
(* (asn1_primitive.c:1119).                                                 *)
THEOREM IntegersAreShort ==
  ASSUME NEW value \in Int32, NEW s \in Seq(Octet), Len(s) \in 1 .. 4, Signed(s) = value
  PROVE  Len(IntegerOctets(value)) <= Len(s)
<1> DEFINE h == IF s[1] > 127 THEN s[1] - 256 ELSE s[1]
           c == More9(value)
<1>1. /\ Len(s) = 1 => value = h
      /\ Len(s) = 2 => value = (h * 256) + s[2]
      /\ Len(s) = 3 => value = (((h * 256) + s[2]) * 256) + s[3]
      /\ Len(s) = 4 => value = (((((h * 256) + s[2]) * 256) + s[3]) * 256) + s[4]
  BY SignedIs
<1>2. \A i \in 1 .. Len(s) : s[i] \in Int /\ s[i] >= 0 /\ s[i] <= 255
  <2>1. \A i \in 1 .. Len(s) : s[i] \in Octet
    OBVIOUS
  <2>2. QED
    BY <2>1, OctetIs
<1>3. h \in Int /\ -128 <= h /\ h <= 127
  <2>1. \A n \in 1 .. 4 : 1 \in 1 .. n
    OBVIOUS
  <2>2. 1 \in 1 .. Len(s)
    BY <2>1
  <2>3. s[1] \in Int /\ s[1] >= 0 /\ s[1] <= 255
    BY <1>2, <2>2
  <2>4. QED
    BY <2>3
<1> HIDE DEF h
<1>4. /\ c \in 0 .. 3 /\ \A k \in 0 .. c - 1 : value < -Reach(k) \/ value >= Reach(k)
      /\ Len(IntegerOctets(value)) = c + 1
  BY More9Is, IntegerOctetsRead
<1> HIDE DEF c
<1>4a. value \in Int /\ \A k \in 0 .. c - 1 : value < -Reach(k) \/ value >= Reach(k)
  BY <1>4, SMT DEF Int32
<1>5. CASE Len(s) = 1
  <2>1. -128 <= value /\ value < 128
    BY <1>1, <1>3, <1>5
  <2>2. c < 1
    <3>1. 0 \notin 0 .. c - 1
      BY <1>4a, <2>1, SMT DEF Reach
    <3>2. QED
      BY <1>4, <3>1
  <2>3. QED
    BY <1>4, <1>5, <2>2
<1>6. CASE Len(s) = 2
  <2>1. -32768 <= value /\ value < 32768
    <3>1. s[2] \in Int /\ s[2] >= 0 /\ s[2] <= 255
      BY <1>2, <1>6
    <3>2. QED
      BY <1>1, <1>3, <1>6, <3>1, SMT
  <2>2. c < 2
    <3>1. 1 \notin 0 .. c - 1
      BY <1>4a, <2>1, SMT DEF Reach
    <3>2. QED
      BY <1>4, <3>1
  <2>3. QED
    BY <1>4, <1>6, <2>2
<1>7. CASE Len(s) = 3
  <2>1. -8388608 <= value /\ value < 8388608
    <3>1. s[2] \in Int /\ s[2] >= 0 /\ s[2] <= 255 /\ s[3] \in Int /\ s[3] >= 0 /\ s[3] <= 255
      BY <1>2, <1>7
    <3>2. QED
      BY <1>1, <1>3, <1>7, <3>1, SMT
  <2>2. c < 3
    <3>1. 2 \notin 0 .. c - 1
      BY <1>4a, <2>1, SMT DEF Reach
    <3>2. QED
      BY <1>4, <3>1
  <2>3. QED
    BY <1>4, <1>7, <2>2
<1>8. CASE Len(s) = 4
  BY <1>4, <1>8
<1>9. QED
  BY <1>5, <1>6, <1>7, <1>8 DEF c


-----------------------------------------------------------------------------
(* Object identifiers.                                                      *)

\* The values that asn1_oid holds are of 16 bits.
SubValue == {v \in Nat : v < 65536}

\* What has been read of an object identifier.
OidState == [done : Seq(Nat), value : Nat]
OidStart == [done |-> <<>>, value |-> 0]

\* What a u_int16_t keeps.
Low16(n) == n % 65536

\* One more octet ends a value or is kept for the next.
LEMMA Next7Is ==
  ASSUME NEW s \in OidState, NEW x \in Octet
  PROVE  /\ Next7(s, x) \in OidState
         /\ x > 127 => Next7(s, x) = [done |-> s.done, value |-> (s.value * 128) + (x - 128)]
         /\ x <= 127 => Next7(s, x) =
               [done |-> Append(s.done, Low16((s.value * 128) + x)), value |-> 0]
<1>1. x \in Int /\ x >= 0 /\ x <= 255
  BY OctetIs
<1>2. s.done \in Seq(Nat) /\ s.value \in Nat /\ s = [done |-> s.done, value |-> s.value]
  BY DEF OidState
<1>3. CASE x > 127
  <2>1. (s.value * 128) + (x - 128) \in Nat /\ s.value * 128 + x - 128 = (s.value * 128) + (x - 128)
    BY <1>1, <1>2, <1>3
  <2>2. Next7(s, x) = [done |-> s.done, value |-> s.value * 128 + x - 128]
    BY <1>2, <1>3 DEF Next7
  <2>3. QED
    BY <1>1, <1>2, <1>3, <2>1, <2>2 DEF OidState
<1>4. CASE x <= 127
  <2> DEFINE v == Low16((s.value * 128) + x)
  <2>1. v \in Nat
    <3>1. (s.value * 128) + x \in Nat
      BY <1>1, <1>2
    <3>2. QED
      BY <3>1, SMT DEF Low16
  <2>2. Next7(s, x) = [done |-> Append(s.done, v), value |-> 0]
    BY <1>1, <1>4, SMT DEF Next7, Low16
  <2> HIDE DEF v
  <2>3. Append(s.done, v) \in Seq(Nat)
    BY <1>2, <2>1
  <2>4. Next7(s, x) \in OidState
    BY <2>2, <2>3 DEF OidState
  <2>5. QED
    BY <1>1, <1>4, <2>2, <2>4 DEF v
<1>5. QED
  BY <1>1, <1>3, <1>4

\* An object identifier is read octet by octet.
OidReads(s) ==
    \E g \in [0 .. Len(s) -> OidState] :
       /\ g[0] = OidStart
       /\ \A n \in 1 .. Len(s) : g[n] = Next7(g[n - 1], s[n])
       /\ OidRead(s) = g[Len(s)]

\* Reading an object identifier is such a run, for any octets.
LEMMA OidReadsIs ==
  ASSUME NEW s \in Seq(Octet)
  PROVE  OidReads(s)
<1> DEFINE N == Len(s)
           step == [p \in OidState \X (1 .. N) |-> Next7(p[1], s[p[2]])]
           Is(f) == f = [n \in 0 .. N |->
                           IF n = 0 THEN [done |-> <<>>, value |-> 0] ELSE Next7(f[n - 1], s[n])]
           r == CHOOSE f : Is(f)
<1>1. N \in Nat /\ \A n \in 1 .. N : s[n] \in Octet
  OBVIOUS
<1>2. OidRead(s) = r[N]
  BY DEF OidRead
<1>3. OidStart \in OidState
  BY DEF OidStart, OidState
<1> HIDE DEF N
<1>4. step \in [OidState \X (1 .. N) -> OidState]
  <2>1. \A x \in OidState, n \in 1 .. N : Next7(x, s[n]) \in OidState
    BY <1>1, Next7Is
  <2>2. QED
    BY <2>1
<1>5. \A x \in OidState, n \in 1 .. N : step[<<x, n>>] = Next7(x, s[n])
  OBVIOUS
<1> HIDE DEF step
<1>6. PICK g \in [0 .. N -> OidState] : g[0] = OidStart /\ \A n \in 1 .. N : g[n] = step[<<g[n - 1], n>>]
  <2>1. Runs(OidState, OidStart, N, step)
    BY <1>1, <1>3, <1>4, Loop
  <2>2. QED
    BY <2>1 DEF Runs
<1>7. \A n \in 1 .. N : g[n - 1] \in OidState
  BY <1>1, <1>6
<1>8. \A n \in 1 .. N : g[n] = Next7(g[n - 1], s[n])
  BY <1>5, <1>6, <1>7
<1>9. Is(r)
  <2>1. \A n \in 0 .. N : g[n] = IF n = 0 THEN [done |-> <<>>, value |-> 0] ELSE Next7(g[n - 1], s[n])
    BY <1>1, <1>6, <1>8 DEF OidStart
  <2>2. Is(g)
    BY <2>1
  <2>3. QED
    BY <2>2
<1>10. r[0] = OidStart /\ \A n \in 1 .. N : r[n] = Next7(r[n - 1], s[n])
  <2> HIDE DEF r
  <2> QED
    BY <1>1, <1>9 DEF OidStart
<1> HIDE DEF r, Is
<1>11. r[N] = g[N]
  <2> DEFINE P == {n \in 0 .. N : r[n] = g[n]}
  <2>1. 0 \in P
    BY <1>1, <1>6, <1>10
  <2>2. \A n \in 1 .. N : n - 1 \in P => n \in P
    BY <1>1, <1>8, <1>10
  <2>3. N \in P
    <3> HIDE DEF P
    <3>1. \A n \in 0 .. N : n \in P
      BY <1>1, <2>1, <2>2, Upwards
    <3>2. QED
      BY <1>1, <3>1
  <2>4. QED
    BY <2>3
<1>12. QED
  <2>1. OidRead(s) = g[N]
    BY <1>2, <1>11
  <2>2. QED
    BY <1>6, <1>8, <2>1 DEF OidReads, N

\* What has been read is a list of values and the start of one more.
LEMMA OidReadIn ==
  ASSUME NEW s \in Seq(Octet)
  PROVE  OidRead(s) \in OidState
<1>1. PICK g \in [0 .. Len(s) -> OidState] : OidRead(s) = g[Len(s)]
  BY OidReadsIs DEF OidReads
<1>2. Len(s) \in 0 .. Len(s)
  OBVIOUS
<1>3. QED
  BY <1>1, <1>2

\* Reading one octet more is one step more.
LEMMA OidReadNext ==
  ASSUME NEW s \in Seq(Octet), NEW x \in Octet
  PROVE  OidRead(Append(s, x)) = Next7(OidRead(s), x)
<1> DEFINE u == Append(s, x)
           N == Len(s)
<1>1. /\ u \in Seq(Octet) /\ Len(u) = N + 1 /\ N \in Nat
      /\ \A n \in 1 .. N : u[n] = s[n]
      /\ u[N + 1] = x
  BY AppendProperties
<1>2. PICK g \in [0 .. N -> OidState] :
         g[0] = OidStart /\ (\A n \in 1 .. N : g[n] = Next7(g[n - 1], s[n])) /\ OidRead(s) = g[N]
  BY OidReadsIs DEF OidReads
<1> HIDE DEF u
<1>3. OidReads(u)
  BY <1>1, OidReadsIs
<1> HIDE DEF N
<1>4. PICK h \in [0 .. N + 1 -> OidState] :
         /\ h[0] = OidStart /\ (\A n \in 1 .. N + 1 : h[n] = Next7(h[n - 1], u[n]))
         /\ OidRead(u) = h[N + 1]
  BY <1>1, <1>3 DEF OidReads
<1>5. h[N] = g[N]
  <2> DEFINE P == {n \in 0 .. N : h[n] = g[n]}
  <2>1. 0 \in P
    BY <1>1, <1>2, <1>4
  <2>2. \A n \in 1 .. N : n - 1 \in P => n \in P
    <3> SUFFICES ASSUME NEW n \in 1 .. N, n - 1 \in P PROVE n \in P
      OBVIOUS
    <3>1. n \in 1 .. N + 1 /\ n \in 0 .. N
      BY <1>1
    <3>2. h[n - 1] = g[n - 1] /\ u[n] = s[n]
      BY <1>1
    <3>3. h[n] = Next7(h[n - 1], u[n]) /\ g[n] = Next7(g[n - 1], s[n])
      BY <1>2, <1>4, <3>1
    <3>4. QED
      BY <3>1, <3>2, <3>3
  <2>3. N \in P
    <3> HIDE DEF P
    <3>1. \A n \in 0 .. N : n \in P
      BY <1>1, <2>1, <2>2, Upwards
    <3>2. QED
      BY <1>1, <3>1
  <2>4. QED
    BY <2>3
<1>6. N + 1 \in 1 .. N + 1 /\ N + 1 - 1 = N
  BY <1>1
<1>7. h[N + 1] = Next7(h[N], x)
  BY <1>1, <1>4, <1>6
<1>8. QED
  BY <1>2, <1>4, <1>5, <1>7 DEF u


\* How many groups of 7 bits a subidentifier has, and what they are.
LEMMA SubidentifierIs ==
  ASSUME NEW v \in SubValue
  PROVE  LET s == Subidentifier(v)
         IN  /\ s \in Seq(Octet)
             /\ v < 128 => Len(s) = 1 /\ s[1] = v
             /\ v >= 128 /\ v < 16384 =>
                   Len(s) = 2 /\ s[1] = (v \div 128) + 128 /\ s[2] = v % 128
             /\ v >= 16384 =>
                   /\ Len(s) = 3 /\ s[1] = (v \div 16384) + 128
                   /\ s[2] = ((v \div 128) % 128) + 128 /\ s[3] = v % 128
<1> DEFINE T == {k \in 0 .. 3 : v < 128 ^ (k + 1)}
           count == Min(T)
           s == Subidentifier(v)
           W(e) == IF e = 0 THEN 1 ELSE IF e = 1 THEN 128 ELSE 16384
           Group(i) == ((v \div W(count + 1 - i)) % 128) + (IF i <= count THEN 128 ELSE 0)
<1>1. v \in Int /\ v >= 0 /\ v < 65536
  BY SMT DEF SubValue
<1>2. 128 ^ 0 = 1 /\ 128 ^ 1 = 128 /\ 128 ^ 2 = 16384 /\ 128 ^ 3 = 2097152 /\ 128 ^ 4 = 268435456
  BY SMT
<1> DEFINE c == IF v < 128 THEN 0 ELSE IF v < 16384 THEN 1 ELSE 2
<1>4. count = c
  <2>1. /\ 0 \in T <=> v < 128
        /\ 1 \in T <=> v < 16384
        /\ 2 \in T
    BY <1>1, <1>2, SMT
  <2>2. \A k \in T : k = 0 \/ k = 1 \/ k = 2 \/ k = 3
    OBVIOUS
  <2> HIDE DEF T
  <2>3. c \in T /\ \A k \in T : c <= k
    <3>1. v < 128 => v < 16384
      BY <1>1
    <3>2. QED
      BY <2>1, <2>2, <3>1
  <2>4. count \in T /\ \A k \in T : count <= k
    <3> HIDE DEF c
    <3> QED
      BY <2>3 DEF Min
  <2>5. c \in Int /\ \A k \in T : k \in Int
    BY <2>2
  <2> HIDE DEF c, count
  <2>6. QED
    BY <2>3, <2>4, <2>5
<1> HIDE DEF count, s, T
<1>5. count \in 0 .. 2
  BY <1>4
<1>3. s = [i \in 1 .. count + 1 |-> Group(i)]
  <2>1. s = [i \in 1 .. count + 1 |->
               ((v \div 128 ^ (count + 1 - i)) % 128) + (IF i <= count THEN 128 ELSE 0)]
    BY DEF Subidentifier, s, count, T
  <2>2. \A e \in 0 .. 2 : 128 ^ e = W(e)
    <3>1. \A e \in 0 .. 2 : e = 0 \/ e = 1 \/ e = 2
      OBVIOUS
    <3>2. 128 ^ 0 = W(0) /\ 128 ^ 1 = W(1) /\ 128 ^ 2 = W(2)
      BY SMT
    <3> HIDE DEF W
    <3>3. QED
      BY <3>1, <3>2, Zenon
  <2> HIDE DEF W
  <2>3. \A i \in 1 .. count + 1 : 128 ^ (count + 1 - i) = W(count + 1 - i)
    <3>1. \A i \in 1 .. count + 1 : count + 1 - i \in 0 .. 2
      BY <1>5
    <3>2. QED
      BY <2>2, <3>1, Zenon
  <2>4. QED
    BY <2>1, <2>3
<1>6. s \in Seq(Octet) /\ Len(s) = count + 1
  <2>1. \A i \in 1 .. count + 1 : Group(i) \in Octet
    <3> SUFFICES ASSUME NEW i \in 1 .. count + 1 PROVE Group(i) \in Octet
      OBVIOUS
    <3> DEFINE w == W(count + 1 - i)
               x == (v \div w) % 128
               more == IF i <= count THEN 128 ELSE 0
    <3>1. w = 1 \/ w = 128 \/ w = 16384
      OBVIOUS
    <3> HIDE DEF w
    <3>2. x \in Int /\ x >= 0 /\ x <= 127
      BY <1>1, <3>1, SMT
    <3>3. more \in Int /\ (more = 128 \/ more = 0)
      OBVIOUS
    <3> HIDE DEF x, more
    <3>4. x + more \in Int /\ x + more >= 0 /\ x + more <= 255
      BY <3>2, <3>3
    <3>5. x + more \in Octet
      BY <3>4, OctetIs
    <3>6. QED
      BY <3>5 DEF x, more, w
  <2> HIDE DEF Group
  <2>2. count + 1 \in Nat
    BY <1>5
  <2>3. QED
    BY <1>3, <2>1, <2>2
<1>7. \A i \in 1 .. count + 1 : s[i] = Group(i)
  BY <1>3
<1>8. ASSUME count = 0
      PROVE  s[1] = (v \div 1) % 128
  <2>1. Group(1) = (v \div 1) % 128
    BY <1>1, <1>8
  <2> HIDE DEF Group
  <2>2. s[1] = Group(1)
    BY <1>7, <1>8
  <2>3. QED
    BY <2>1, <2>2
<1>9. ASSUME count = 1
      PROVE  s[1] = ((v \div 128) % 128) + 128 /\ s[2] = (v \div 1) % 128
  <2>1. Group(1) = ((v \div 128) % 128) + 128 /\ Group(2) = (v \div 1) % 128
    BY <1>1, <1>9
  <2> HIDE DEF Group
  <2>2. s[1] = Group(1) /\ s[2] = Group(2)
    BY <1>7, <1>9
  <2>3. QED
    BY <2>1, <2>2
<1>10. ASSUME count = 2
       PROVE  /\ s[1] = ((v \div 16384) % 128) + 128 /\ s[2] = ((v \div 128) % 128) + 128
              /\ s[3] = (v \div 1) % 128
  <2>1. /\ Group(1) = ((v \div 16384) % 128) + 128 /\ Group(2) = ((v \div 128) % 128) + 128
        /\ Group(3) = (v \div 1) % 128
    BY <1>1, <1>10
  <2> HIDE DEF Group
  <2>2. s[1] = Group(1) /\ s[2] = Group(2) /\ s[3] = Group(3)
    BY <1>7, <1>10
  <2>3. QED
    BY <2>1, <2>2
<1> HIDE DEF Group, W
<1>11. CASE v < 128
  <2>1. count = 0
    BY <1>4, <1>11
  <2>2. (v \div 1) % 128 = v
    BY <1>1, <1>11, SMT
  <2>3. QED
    BY <1>1, <1>6, <1>8, <1>11, <2>1, <2>2 DEF s
<1>12. CASE v >= 128 /\ v < 16384
  <2>1. count = 1
    BY <1>1, <1>4, <1>12
  <2>2. (v \div 128) % 128 = v \div 128 /\ v \div 1 = v
    BY <1>1, <1>12, SMT
  <2>3. QED
    BY <1>1, <1>6, <1>9, <1>12, <2>1, <2>2, SMT DEF s
<1>13. CASE v >= 16384
  <2>1. count = 2
    BY <1>1, <1>4, <1>13
  <2>2. (v \div 16384) % 128 = v \div 16384 /\ v \div 1 = v
    BY <1>1, <1>13, SMT
  <2>3. QED
    BY <1>1, <1>6, <1>10, <1>13, <2>1, <2>2, SMT DEF s
<1>14. QED
  BY <1>1, <1>11, <1>12, <1>13, SMT

\* Octets that follow others are appended one by one.
LEMMA AppendLast ==
  ASSUME NEW s \in Seq(Octet), NEW u \in Seq(Octet), NEW t \in Seq(Octet), Len(t) = Len(u) + 1,
         \A i \in 1 .. Len(u) : t[i] = u[i]
  PROVE  s \o t = Append(s \o u, t[Len(u) + 1])
<1> DEFINE x == t[Len(u) + 1]
           su == s \o u
           st == s \o t
           sux == Append(su, x)
           L == Len(s)
           M == Len(u)
<1>1. L \in Nat /\ M \in Nat /\ x \in Octet
  BY ElementOfSeq
<1>2. su \in Seq(Octet) /\ Len(su) = L + M
      /\ \A i \in 1 .. L + M : su[i] = IF i <= L THEN s[i] ELSE u[i - L]
  BY ConcatProperties
<1>3. st \in Seq(Octet) /\ Len(st) = L + (M + 1)
      /\ \A i \in 1 .. L + (M + 1) : st[i] = IF i <= L THEN s[i] ELSE t[i - L]
  <2>1. st \in Seq(Octet) /\ Len(st) = L + Len(t)
        /\ \A i \in 1 .. L + Len(t) : st[i] = IF i <= L THEN s[i] ELSE t[i - L]
    BY ConcatProperties
  <2>2. Len(t) = M + 1
    OBVIOUS
  <2> HIDE DEF st, M
  <2>3. QED
    BY <2>1, <2>2
<1> HIDE DEF su, st
<1>4. sux \in Seq(Octet) /\ Len(sux) = L + M + 1
      /\ (\A i \in 1 .. L + M : sux[i] = su[i]) /\ sux[L + M + 1] = x
  <2> HIDE DEF x, L, M
  <2> QED
    BY <1>1, <1>2, AppendProperties
<1> HIDE DEF sux, L
<1>5. ASSUME NEW i \in 1 .. Len(st) PROVE st[i] = sux[i]
  <2>1. i \in 1 .. L + (M + 1) /\ (i \in 1 .. L + M \/ i = L + M + 1)
    BY <1>1, <1>3
  <2>2. CASE i \in 1 .. L + M /\ i <= L
    BY <1>2, <1>3, <1>4, <2>1, <2>2
  <2>3. CASE i \in 1 .. L + M /\ ~(i <= L)
    <3>1. i - L \in 1 .. M
      BY <1>1, <2>3
    <3>2. st[i] = t[i - L] /\ sux[i] = u[i - L]
      BY <1>2, <1>3, <1>4, <2>1, <2>3
    <3>3. QED
      BY <3>1, <3>2
  <2>4. CASE i = L + M + 1
    <3>1. ~(i <= L) /\ i - L = M + 1
      BY <1>1, <2>4
    <3>2. st[i] = t[i - L] /\ sux[i] = x
      BY <1>3, <1>4, <2>1, <2>4, <3>1
    <3>3. QED
      BY <3>1, <3>2
  <2>5. QED
    BY <2>1, <2>2, <2>3, <2>4
<1>6. Len(st) = Len(sux)
  BY <1>1, <1>3, <1>4
<1>7. st = sux
  BY <1>3, <1>4, <1>5, <1>6, SeqEqual
<1>8. QED
  BY <1>7 DEF st, sux, su, x

\* So up to three octets are appended.
LEMMA AppendEach ==
  ASSUME NEW s \in Seq(Octet), NEW t \in Seq(Octet)
  PROVE  /\ Len(t) = 1 => s \o t = Append(s, t[1])
         /\ Len(t) = 2 => s \o t = Append(Append(s, t[1]), t[2])
         /\ Len(t) = 3 => s \o t = Append(Append(Append(s, t[1]), t[2]), t[3])
<1>1. \A i \in 1 .. Len(t) : t[i] \in Octet
  OBVIOUS
<1>2. ASSUME NEW u \in Seq(Octet), Len(u) > 0, NEW n \in Nat, n = Len(u) - 1
      PROVE  /\ [i \in 1 .. n |-> u[i]] \in Seq(Octet) /\ Len([i \in 1 .. n |-> u[i]]) = n
             /\ \A i \in 1 .. n : [k \in 1 .. n |-> u[k]][i] = u[i]
             /\ s \o u = Append(s \o [i \in 1 .. n |-> u[i]], u[n + 1])
  <2> DEFINE f == [i \in 1 .. n |-> u[i]]
  <2>1. f \in Seq(Octet) /\ Len(f) = n /\ \A i \in 1 .. n : f[i] = u[i]
    <3>1. \A i \in 1 .. n : u[i] \in Octet
      BY <1>2
    <3>2. QED
      BY <3>1
  <2> HIDE DEF f
  <2>2. Len(u) = Len(f) + 1 /\ \A i \in 1 .. Len(f) : u[i] = f[i]
    BY <1>2, <2>1
  <2>3. s \o u = Append(s \o f, u[Len(f) + 1])
    BY <2>1, <2>2, AppendLast
  <2>4. QED
    BY <2>1, <2>3 DEF f
<1>3. ASSUME NEW u \in Seq(Octet), Len(u) = 0 PROVE s \o u = s
  <2>1. u = <<>>
    BY <1>3
  <2>2. QED
    BY <2>1, ConcatEmptySeq
<1>4. ASSUME NEW u \in Seq(Octet), Len(u) = 1 PROVE s \o u = Append(s, u[1])
  <2> DEFINE f == [i \in 1 .. 0 |-> u[i]]
  <2>1. Len(u) > 0 /\ 0 = Len(u) - 1
    BY <1>4
  <2>2. f \in Seq(Octet) /\ Len(f) = 0 /\ s \o u = Append(s \o f, u[0 + 1])
    BY <1>2, <2>1
  <2> HIDE DEF f
  <2>3. s \o f = s
    BY <1>3, <2>2
  <2>4. QED
    BY <2>2, <2>3
<1>5. ASSUME NEW u \in Seq(Octet), Len(u) = 2 PROVE s \o u = Append(Append(s, u[1]), u[2])
  <2> DEFINE f == [i \in 1 .. 1 |-> u[i]]
  <2>1. Len(u) > 0 /\ 1 = Len(u) - 1
    BY <1>5
  <2>2. /\ f \in Seq(Octet) /\ Len(f) = 1 /\ (\A i \in 1 .. 1 : f[i] = u[i])
        /\ s \o u = Append(s \o f, u[1 + 1])
    BY <1>2, <2>1
  <2> HIDE DEF f
  <2>3. s \o f = Append(s, f[1]) /\ f[1] = u[1]
    BY <1>4, <2>2
  <2>4. QED
    BY <2>2, <2>3
<1>6. ASSUME NEW u \in Seq(Octet), Len(u) = 3
      PROVE  s \o u = Append(Append(Append(s, u[1]), u[2]), u[3])
  <2> DEFINE f == [i \in 1 .. 2 |-> u[i]]
  <2>1. Len(u) > 0 /\ 2 = Len(u) - 1
    BY <1>6
  <2>2. /\ f \in Seq(Octet) /\ Len(f) = 2 /\ (\A i \in 1 .. 2 : f[i] = u[i])
        /\ s \o u = Append(s \o f, u[2 + 1])
    BY <1>2, <2>1
  <2> HIDE DEF f
  <2>3. s \o f = Append(Append(s, f[1]), f[2]) /\ f[1] = u[1] /\ f[2] = u[2]
    BY <1>5, <2>2
  <2>4. QED
    BY <2>2, <2>3
<1>7. QED
  BY <1>4, <1>5, <1>6

\* The numbers that the groups of 7 bits give.
LEMMA Groups ==
  ASSUME NEW v \in SubValue
  PROVE  /\ Low16((0 * 128) + v) = v
         /\ Low16(((v \div 128) * 128) + (v % 128)) = v
         /\ Low16(((((v \div 16384) * 128) + ((v \div 128) % 128)) * 128) + (v % 128)) = v
<1>1. v \in Int /\ v >= 0 /\ v < 65536
  BY SMT DEF SubValue
<1>2. ((v \div 128) * 128) + (v % 128) = v
  BY <1>1, SMT
<1>3. ((v \div 16384) * 128) + ((v \div 128) % 128) = v \div 128
  BY <1>1, SMT
<1>4. Low16(v) = v
  BY <1>1, SMT DEF Low16
<1>5. QED
  BY <1>1, <1>2, <1>3, <1>4

\* The same, said of what has been read.
LEMMA OidReadMore ==
  ASSUME NEW u \in Seq(Octet), NEW d \in Seq(Nat), NEW w \in Nat,
         OidRead(u) = [done |-> d, value |-> w], NEW x \in Octet
  PROVE  /\ Append(u, x) \in Seq(Octet)
         /\ x > 127 => OidRead(Append(u, x)) = [done |-> d, value |-> (w * 128) + (x - 128)]
         /\ x <= 127 => OidRead(Append(u, x)) =
                           [done |-> Append(d, Low16((w * 128) + x)), value |-> 0]
<1> DEFINE r == [done |-> d, value |-> w]
<1>1. r \in OidState /\ r.done = d /\ r.value = w
  BY DEF OidState
<1> HIDE DEF r
<1>2. /\ x > 127 => Next7(r, x) = [done |-> r.done, value |-> (r.value * 128) + (x - 128)]
      /\ x <= 127 => Next7(r, x) = [done |-> Append(r.done, Low16((r.value * 128) + x)), value |-> 0]
  BY <1>1, Next7Is
<1>3. OidRead(Append(u, x)) = Next7(r, x)
  BY OidReadNext DEF r
<1>4. Append(u, x) \in Seq(Octet)
  BY AppendProperties
<1>5. QED
  BY <1>1, <1>2, <1>3, <1>4

\* A subidentifier adds its value to those already read.
LEMMA SubidentifierRead ==
  ASSUME NEW s \in Seq(Octet), NEW d \in Seq(Nat), OidRead(s) = [done |-> d, value |-> 0],
         NEW v \in SubValue
  PROVE  OidRead(s \o Subidentifier(v)) = [done |-> Append(d, v), value |-> 0]
<1> DEFINE t == Subidentifier(v)
<1>1. /\ t \in Seq(Octet)
      /\ v < 128 => Len(t) = 1 /\ t[1] = v
      /\ v >= 128 /\ v < 16384 => Len(t) = 2 /\ t[1] = (v \div 128) + 128 /\ t[2] = v % 128
      /\ v >= 16384 =>
            /\ Len(t) = 3 /\ t[1] = (v \div 16384) + 128
            /\ t[2] = ((v \div 128) % 128) + 128 /\ t[3] = v % 128
  BY SubidentifierIs
<1>2. v \in Int /\ v >= 0 /\ v < 65536
  BY SMT DEF SubValue
<1> HIDE DEF t
<1>3. \A i \in 1 .. Len(t) : t[i] \in Octet /\ t[i] \in Int
  BY <1>1, OctetIs
<1>4. ASSUME NEW u \in Seq(Octet), NEW w \in Nat, OidRead(u) = [done |-> d, value |-> w], NEW x \in Octet
      PROVE  /\ Append(u, x) \in Seq(Octet)
             /\ x > 127 => OidRead(Append(u, x)) = [done |-> d, value |-> (w * 128) + (x - 128)]
             /\ x <= 127 => OidRead(Append(u, x)) =
                               [done |-> Append(d, Low16((w * 128) + x)), value |-> 0]
  BY <1>4, OidReadMore
<1>5. /\ Len(t) = 1 => s \o t = Append(s, t[1])
      /\ Len(t) = 2 => s \o t = Append(Append(s, t[1]), t[2])
      /\ Len(t) = 3 => s \o t = Append(Append(Append(s, t[1]), t[2]), t[3])
  BY <1>1, AppendEach
<1>6. CASE v < 128
  <2>1. t[1] \in Octet /\ t[1] = v /\ s \o t = Append(s, t[1]) /\ t[1] <= 127
    BY <1>1, <1>2, <1>3, <1>5, <1>6
  <2>2. OidRead(Append(s, t[1])) = [done |-> Append(d, Low16((0 * 128) + t[1])), value |-> 0]
    <3>1. 0 \in Nat /\ t[1] \in Octet /\ t[1] <= 127
      BY <2>1
    <3>2. QED
      BY <3>1, <1>4
  <2>3. Low16((0 * 128) + t[1]) = v
    BY <2>1, Groups
  <2>4. QED
    BY <2>1, <2>2, <2>3 DEF t
<1>7. CASE v >= 128 /\ v < 16384
  <2> DEFINE a == Append(s, t[1])
             w == v \div 128
  <2>1. /\ t[1] \in Octet /\ t[2] \in Octet /\ t[1] = (v \div 128) + 128 /\ t[2] = v % 128
        /\ s \o t = Append(a, t[2])
    BY <1>1, <1>3, <1>5, <1>7
  <2>2. t[1] > 127 /\ t[2] <= 127 /\ w \in Nat /\ (0 * 128) + (t[1] - 128) = w
    BY <1>2, <1>7, <2>1
  <2>3. Low16((w * 128) + t[2]) = v
    BY <2>1, Groups
  <2>4. a \in Seq(Octet) /\ OidRead(a) = [done |-> d, value |-> (0 * 128) + (t[1] - 128)]
    <3>1. 0 \in Nat /\ t[1] \in Octet /\ t[1] > 127
      BY <2>1, <2>2
    <3>2. QED
      BY <3>1, <1>4
  <2> HIDE DEF a, w
  <2>5. OidRead(a) = [done |-> d, value |-> w]
    BY <2>2, <2>4
  <2>6. OidRead(Append(a, t[2])) = [done |-> Append(d, Low16((w * 128) + t[2])), value |-> 0]
    <3>1. a \in Seq(Octet) /\ w \in Nat /\ t[2] \in Octet /\ t[2] <= 127
      BY <2>1, <2>2, <2>4
    <3>2. QED
      BY <2>5, <3>1, <1>4
  <2>7. QED
    BY <2>1, <2>3, <2>6 DEF t
<1>8. CASE v >= 16384
  <2> DEFINE a == Append(s, t[1])
             b == Append(a, t[2])
             w == v \div 16384
             y == (v \div 128) % 128
             z == (w * 128) + y
  <2>1. /\ t[1] \in Octet /\ t[2] \in Octet /\ t[3] \in Octet /\ t[1] = w + 128
        /\ t[2] = y + 128 /\ t[3] = v % 128
        /\ s \o t = Append(b, t[3])
    BY <1>1, <1>3, <1>5, <1>8
  <2>2. Low16((z * 128) + t[3]) = v
    BY <2>1, Groups
  <2>3. w \in Nat /\ y \in Nat /\ t[3] <= 127
    BY <1>2, <1>8, <2>1
  <2> HIDE DEF w, y
  <2>4. t[1] > 127 /\ t[2] > 127 /\ z \in Nat /\ (0 * 128) + (t[1] - 128) = w
        /\ (w * 128) + (t[2] - 128) = z
    BY <2>1, <2>3
  <2>5. a \in Seq(Octet) /\ OidRead(a) = [done |-> d, value |-> (0 * 128) + (t[1] - 128)]
    <3>1. 0 \in Nat /\ t[1] \in Octet /\ t[1] > 127
      BY <2>1, <2>4
    <3>2. QED
      BY <3>1, <1>4
  <2> HIDE DEF a, z
  <2>6. OidRead(a) = [done |-> d, value |-> w]
    BY <2>4, <2>5
  <2>7. b \in Seq(Octet) /\ OidRead(b) = [done |-> d, value |-> (w * 128) + (t[2] - 128)]
    <3>1. a \in Seq(Octet) /\ w \in Nat /\ t[2] \in Octet /\ t[2] > 127
      BY <2>1, <2>3, <2>4, <2>5
    <3>2. QED
      BY <2>6, <3>1, <1>4
  <2> HIDE DEF b
  <2>8. OidRead(b) = [done |-> d, value |-> z]
    BY <2>4, <2>7
  <2>9. OidRead(Append(b, t[3])) = [done |-> Append(d, Low16((z * 128) + t[3])), value |-> 0]
    <3>1. b \in Seq(Octet) /\ z \in Nat /\ t[3] \in Octet /\ t[3] <= 127
      BY <2>1, <2>3, <2>4, <2>7
    <3>2. QED
      BY <2>8, <3>1, <1>4
  <2>10. QED
    BY <2>1, <2>2, <2>9 DEF t
<1>9. QED
  BY <1>2, <1>6, <1>7, <1>8


\* The octets of sequences put one after another.
LEMMA Flattened ==
  ASSUME NEW subs \in Seq(Seq(Octet))
  PROVE  \E g \in [0 .. Len(subs) -> Seq(Octet)] :
            /\ g[0] = <<>>
            /\ \A n \in 1 .. Len(subs) : g[n] = g[n - 1] \o subs[n]
            /\ FlattenSeq(subs) = g[Len(subs)]
<1> DEFINE N == Len(subs)
           S == Seq(Octet)
           step == [p \in S \X (1 .. N) |-> p[1] \o subs[p[2]]]
           Is(f) == f = [i \in 1 .. N |-> IF i = 1 THEN subs[i] ELSE f[i - 1] \o subs[i]]
           r == CHOOSE f : Is(f)
<1>1. N \in Nat /\ \A n \in 1 .. N : subs[n] \in S
  OBVIOUS
<1>2. FlattenSeq(subs) = IF N = 0 THEN subs ELSE r[N]
  BY DEF FlattenSeq
<1>3. N = 0 => subs = <<>>
  OBVIOUS
<1>4. <<>> \in S
  OBVIOUS
<1> HIDE DEF N
<1>5. step \in [S \X (1 .. N) -> S]
  <2>1. \A x \in S, n \in 1 .. N : x \o subs[n] \in S
    BY <1>1, ConcatProperties
  <2> HIDE DEF S
  <2>2. QED
    BY <2>1
<1> HIDE DEF S
<1>6. \A x \in S, n \in 1 .. N : step[<<x, n>>] = x \o subs[n]
  OBVIOUS
<1> HIDE DEF step
<1>7. PICK g \in [0 .. N -> S] : g[0] = <<>> /\ \A n \in 1 .. N : g[n] = step[<<g[n - 1], n>>]
  <2>1. Runs(S, <<>>, N, step)
    BY <1>1, <1>4, <1>5, Loop
  <2>2. QED
    BY <2>1 DEF Runs
<1>8. \A n \in 1 .. N : g[n - 1] \in S /\ g[n] = g[n - 1] \o subs[n]
  <2>1. \A n \in 1 .. N : g[n - 1] \in S
    BY <1>1, <1>7
  <2>2. QED
    BY <1>6, <1>7, <2>1
<1>9. N >= 1 => g[1] = subs[1]
  <2>1. N >= 1 => 1 \in 1 .. N /\ g[1] = g[0] \o subs[1]
    <3>1. N >= 1 => 1 \in 1 .. N
      BY <1>1
    <3>2. 1 - 1 = 0
      OBVIOUS
    <3>3. QED
      BY <1>8, <3>1, <3>2
  <2>2. N >= 1 => <<>> \o subs[1] = subs[1]
    BY <1>1, <2>1, ConcatEmptySeq DEF S
  <2>3. QED
    BY <1>7, <2>1, <2>2
<1>10. Is(r)
  <2> DEFINE h == [i \in 1 .. N |-> g[i]]
  <2>1. \A i \in 1 .. N : h[i] = IF i = 1 THEN subs[i] ELSE h[i - 1] \o subs[i]
    <3> SUFFICES ASSUME NEW i \in 1 .. N
                 PROVE  h[i] = IF i = 1 THEN subs[i] ELSE h[i - 1] \o subs[i]
      OBVIOUS
    <3>1. CASE i = 1
      BY <1>1, <1>9, <3>1
    <3>2. CASE i # 1
      <4>1. i - 1 \in 1 .. N
        BY <1>1, <3>2
      <4>2. QED
        BY <1>8, <3>2, <4>1
    <3>3. QED
      BY <3>1, <3>2
  <2>2. Is(h)
    BY <2>1
  <2>3. QED
    BY <2>2
<1>11. \A i \in 1 .. N : r[i] = IF i = 1 THEN subs[i] ELSE r[i - 1] \o subs[i]
  <2> HIDE DEF r
  <2> QED
    BY <1>10
<1> HIDE DEF r, Is
<1>12. N # 0 => r[N] = g[N]
  <2> DEFINE P == {n \in 0 .. N : n = 0 \/ r[n] = g[n]}
  <2>1. 0 \in P
    BY <1>1
  <2>2. \A n \in 1 .. N : n - 1 \in P => n \in P
    <3> SUFFICES ASSUME NEW n \in 1 .. N, n - 1 \in P PROVE n \in P
      OBVIOUS
    <3>1. CASE n = 1
      BY <1>1, <1>9, <1>11, <3>1
    <3>2. CASE n # 1
      <4>1. n - 1 # 0 /\ n \in 0 .. N
        BY <1>1, <3>2
      <4>2. r[n - 1] = g[n - 1]
        BY <4>1
      <4>3. r[n] = r[n - 1] \o subs[n] /\ g[n] = g[n - 1] \o subs[n]
        BY <1>8, <1>11, <3>2
      <4>4. QED
        BY <4>1, <4>2, <4>3
    <3>3. QED
      BY <3>1, <3>2
  <2>3. N \in P
    <3> HIDE DEF P
    <3>1. \A n \in 0 .. N : n \in P
      BY <1>1, <2>1, <2>2, Upwards
    <3>2. QED
      BY <1>1, <3>1
  <2>4. QED
    BY <2>3
<1>13. FlattenSeq(subs) = g[N]
  BY <1>2, <1>3, <1>7, <1>12
<1>14. QED
  BY <1>7, <1>8, <1>13 DEF N, S

\* What asn1_enc_oid puts after the length.
OidOctets(values) == FlattenSeq([i \in DOMAIN values |-> Subidentifier(values[i])])

\* Three octets more for one value more.
LEMMA Triples == \A x, y, m \in Int : x <= 3 * (m - 1) /\ y <= 3 => x + y <= 3 * m
OBVIOUS

\* The body of an object identifier: short enough for a length of one octet, ended,
\* and read as the values it was made of.
LEMMA OidOctetsRead ==
  ASSUME NEW values \in Seq(SubValue)
  PROVE  /\ OidOctets(values) \in Seq(Octet)
         /\ Len(OidOctets(values)) <= 3 * Len(values)
         /\ OidValues(OidOctets(values)) = values
         /\ OidOctets(values) # <<>> => Last(OidOctets(values)) <= 127
<1> DEFINE N == Len(values)
           subs == [i \in DOMAIN values |-> Subidentifier(values[i])]
<1>1. N \in Nat /\ \A i \in 1 .. N : values[i] \in SubValue
  OBVIOUS
<1>2. DOMAIN values = 1 .. N
  OBVIOUS
<1> HIDE DEF N
<1>3. ASSUME NEW i \in 1 .. N
      PROVE  /\ Subidentifier(values[i]) \in Seq(Octet)
             /\ Len(Subidentifier(values[i])) \in 1 .. 3
             /\ Last(Subidentifier(values[i])) <= 127
  <2> DEFINE v == values[i]
             t == Subidentifier(v)
  <2>1. v \in SubValue
    BY <1>1
  <2> HIDE DEF v
  <2>2. /\ t \in Seq(Octet)
        /\ v < 128 => Len(t) = 1 /\ t[1] = v
        /\ v >= 128 /\ v < 16384 => Len(t) = 2 /\ t[1] = (v \div 128) + 128 /\ t[2] = v % 128
        /\ v >= 16384 =>
              /\ Len(t) = 3 /\ t[1] = (v \div 16384) + 128
              /\ t[2] = ((v \div 128) % 128) + 128 /\ t[3] = v % 128
    BY <2>1, SubidentifierIs
  <2>3. v \in Int
    BY <2>1 DEF SubValue
  <2> HIDE DEF t
  <2>4. v % 128 <= 127
    BY <2>3
  <2>5. t \in Seq(Octet) /\ Len(t) \in 1 .. 3 /\ t[Len(t)] <= 127
    BY <2>2, <2>3, <2>4
  <2>6. QED
    BY <2>5 DEF Last, t, v
<1>4. subs \in Seq(Seq(Octet)) /\ Len(subs) = N
  BY <1>1, <1>2, <1>3
<1>5. \A i \in 1 .. N : subs[i] = Subidentifier(values[i])
  BY <1>2
<1> HIDE DEF subs
<1>6. PICK g \in [0 .. N -> Seq(Octet)] :
         g[0] = <<>> /\ (\A n \in 1 .. N : g[n] = g[n - 1] \o subs[n]) /\ FlattenSeq(subs) = g[N]
  BY <1>4, Flattened
<1> DEFINE Read(n) == \E d \in Seq(Nat) : /\ OidRead(g[n]) = [done |-> d, value |-> 0]
                                         /\ Len(d) = n /\ \A i \in 1 .. n : d[i] = values[i]
           Good(n) == /\ Read(n) /\ Len(g[n]) <= 3 * n
                      /\ g[n] # <<>> => Last(g[n]) <= 127
           P == {n \in 0 .. N : Good(n)}
<1>7. 0 \in P
  <2>1. <<>> \in Seq(Octet) /\ Len(<<>>) = 0 /\ <<>> \in Seq(Nat)
    OBVIOUS
  <2>2. OidReads(<<>>)
    BY <2>1, OidReadsIs
  <2>3. OidRead(<<>>) = OidStart
    BY <2>1, <2>2 DEF OidReads
  <2>4. Read(0)
    <3>1. OidRead(g[0]) = [done |-> <<>>, value |-> 0]
      BY <1>6, <2>3 DEF OidStart
    <3>2. \A d : \A i \in 1 .. 0 : d[i] = values[i]
      OBVIOUS
    <3>3. QED
      BY <2>1, <3>1, <3>2
  <2> HIDE DEF Read
  <2>5. QED
    BY <1>1, <1>6, <2>1, <2>4
<1>8. ASSUME NEW n \in 1 .. N, n - 1 \in P
      PROVE  n \in P
  <2> DEFINE a == g[n - 1]
             v == values[n]
             t == Subidentifier(v)
  <2>1. n \in 0 .. N /\ n - 1 \in 0 .. N /\ n \in Int
    BY <1>1
  <2>2. a \in Seq(Octet) /\ Good(n - 1) /\ v \in SubValue /\ t \in Seq(Octet) /\ Len(t) \in 1 .. 3
        /\ Last(t) <= 127 /\ g[n] = a \o t
    BY <1>1, <1>3, <1>5, <1>6, <1>8, <2>1
  <2>3. PICK d \in Seq(Nat) : /\ OidRead(a) = [done |-> d, value |-> 0]
                              /\ Len(d) = n - 1 /\ \A i \in 1 .. n - 1 : d[i] = values[i]
    BY <2>2
  <2>4. Len(a) \in Nat /\ Len(a) <= 3 * (n - 1)
    BY <2>2
  <2> HIDE DEF a, v, t, Good, P
  <2>5. OidRead(a \o t) = [done |-> Append(d, v), value |-> 0]
    BY <2>2, <2>3, SubidentifierRead DEF t
  <2>6. /\ Append(d, v) \in Seq(Nat) /\ Len(Append(d, v)) = n
        /\ \A i \in 1 .. n : Append(d, v)[i] = values[i]
    <3>1. v \in Nat
      BY <2>2 DEF SubValue
    <3>2. /\ Append(d, v) \in Seq(Nat) /\ Len(Append(d, v)) = Len(d) + 1
          /\ \A i \in 1 .. Len(d) : Append(d, v)[i] = d[i]
          /\ Append(d, v)[Len(d) + 1] = v
      BY <3>1, AppendProperties
    <3>3. \A i \in 1 .. n : i \in 1 .. n - 1 \/ i = n
      BY <2>1
    <3> DEFINE e == Append(d, v)
    <3> HIDE DEF e
    <3>4. e \in Seq(Nat) /\ Len(e) = n /\ (\A i \in 1 .. n - 1 : e[i] = d[i]) /\ e[n] = v
      <4>1. Len(d) + 1 = n
        BY <2>1, <2>3
      <4>2. QED
        BY <2>3, <3>2, <4>1 DEF e
    <3>5. \A i \in 1 .. n : e[i] = values[i]
      <4>1. \A i \in 1 .. n - 1 : e[i] = values[i]
        BY <2>3, <3>4
      <4>2. e[n] = values[n]
        BY <3>4 DEF v
      <4>3. QED
        BY <3>3, <4>1, <4>2
    <3>6. QED
      BY <3>4, <3>5 DEF e
  <2>7. Read(n)
    BY <2>2, <2>5, <2>6
  <2>8. /\ Len(a \o t) = Len(a) + Len(t)
        /\ \A i \in 1 .. Len(a) + Len(t) : (a \o t)[i] = IF i <= Len(a) THEN a[i] ELSE t[i - Len(a)]
    BY <2>2, ConcatProperties
  <2>9. Len(g[n]) <= 3 * n
    <3>1. Len(g[n]) = Len(a) + Len(t)
      BY <2>2, <2>8
    <3>2. \A x, y, m \in Int : x <= 3 * (m - 1) /\ y <= 3 => x + y <= 3 * m
      BY Triples
    <3>3. Len(a) \in Int /\ Len(t) \in Int /\ Len(t) <= 3
      <4>1. \A y \in 1 .. 3 : y \in Int /\ y <= 3
        OBVIOUS
      <4>2. Len(t) \in 1 .. 3
        BY <2>2
      <4>3. Len(t) \in Int /\ Len(t) <= 3
        BY <4>1, <4>2, Zenon
      <4>4. QED
        BY <2>4, <4>3
    <3>4. QED
      BY <2>1, <2>4, <3>1, <3>2, <3>3
  <2>10. Last(g[n]) <= 127
    <3>1. Len(a) + Len(t) \in 1 .. Len(a) + Len(t) /\ ~(Len(a) + Len(t) <= Len(a))
          /\ Len(a) + Len(t) - Len(a) = Len(t)
      <4>1. \A x \in Nat, y \in 1 .. 3 : x + y \in 1 .. x + y /\ ~(x + y <= x) /\ x + y - x = y
        OBVIOUS
      <4>2. QED
        BY <2>2, <2>4, <4>1
    <3>2. (a \o t)[Len(a) + Len(t)] = t[Len(t)]
      BY <2>8, <3>1
    <3>3. QED
      BY <2>2, <2>8, <3>2 DEF Last
  <2> HIDE DEF Read
  <2>11. QED
    BY <2>1, <2>7, <2>9, <2>10 DEF P, Good
<1>9. N \in P
  <2> HIDE DEF P
  <2>1. \A n \in 0 .. N : n \in P
    BY <1>1, <1>7, <1>8, Upwards
  <2>2. QED
    BY <1>1, <2>1
<1>10. Good(N) /\ g[N] \in Seq(Octet)
  BY <1>1, <1>6, <1>9
<1>11. OidOctets(values) = g[N]
  BY <1>6 DEF OidOctets, subs
<1>12. PICK d \in Seq(Nat) : /\ OidRead(g[N]) = [done |-> d, value |-> 0]
                             /\ Len(d) = N /\ \A i \in 1 .. N : d[i] = values[i]
  BY <1>10
<1>13. d = values
  <2>1. values \in Seq(Nat)
    BY DEF SubValue
  <2>2. QED
    BY <1>12, <2>1, SeqEqual DEF N
<1>14. OidValues(OidOctets(values)) = values
  BY <1>11, <1>12, <1>13 DEF OidValues
<1> HIDE DEF Read
<1>15. QED
  BY <1>10, <1>11, <1>14 DEF N

(* asn1_enc_oid and asn1_dec_oid: as many values as struct asn1_oid holds,   *)
(* each of 16 bits, in groups of 7 bits of which only the last has its top   *)
(* bit clear.                                                                *)
THEOREM OidsSurvive ==
  ASSUME NEW tag \in Tag, NEW values \in Seq(SubValue), Len(values) <= MaxOidValues,
         NEW o, NEW pos, NEW end, Surrounds(o, pos, end, asn1_enc_oid(tag, values))
  PROVE  LET after == pos + Len(asn1_enc_oid(tag, values))
         IN  ReadOid(o, pos, end) =
             IF end < after THEN Null ELSE <<after, <<tag, values>> >>
<1> DEFINE body == OidOctets(values)
           after == pos + Len(Element(tag, body))
           read == asn1_dec_tag(o, pos, end)
           d == asn1_dec_oid(o, pos + 1, end)
           contents == Contents(o, pos + 1, end, 0 .. Len(o))
<1>1. /\ body \in Seq(Octet) /\ Len(body) <= 3 * Len(values) /\ OidValues(body) = values
      /\ body # <<>> => Last(body) <= 127
  BY OidOctetsRead
<1>2. asn1_enc_oid(tag, values) = <<tag, Len(body)>> \o body
  BY DEF asn1_enc_oid, OidOctets
<1> HIDE DEF body
<1>3. tag \in Octet /\ Len(body) \in Nat /\ Len(body) < 128
  BY <1>1 DEF Tag, MaxOidValues
<1>4. body \in Body /\ asn1_enc_oid(tag, values) = Element(tag, body)
  BY <1>1, <1>2, <1>3, ShortElement
<1>5. Surrounds(o, pos, end, Element(tag, body))
  BY <1>4
<1>6. /\ read = IF end <= pos THEN Null ELSE <<pos + 1, tag>>
      /\ contents = IF end < after \/ Len(body) \notin 0 .. Len(o) THEN Null ELSE <<after, body>>
      /\ after \in Nat /\ after > pos + Len(body)
  BY <1>4, <1>5, ElementRead
<1>7. end \in Nat /\ end <= Len(o) + 1 /\ Len(o) \in Nat /\ pos \in Nat
  BY DEF Surrounds
<1> HIDE DEF after, read, contents
<1>8. end >= after => Len(body) \in 0 .. Len(o)
  BY <1>3, <1>6, <1>7
<1>9. d = IF contents = Null THEN Null
          ELSE IF Len(OidValues(contents[2])) > MaxOidValues
                  \/ (contents[2] # <<>> /\ Last(contents[2]) > 127)
          THEN Null ELSE <<contents[1], OidValues(contents[2])>>
  BY DEF asn1_dec_oid, Then, contents
<1> HIDE DEF d
<1>10. d = IF end < after THEN Null ELSE <<after, values>>
  <2>1. CASE end < after
    BY <1>6, <1>9, <2>1
  <2>2. CASE ~(end < after)
    <3>1. contents = <<after, body>>
      BY <1>6, <1>7, <1>8, <2>2
    <3>2. contents # Null /\ contents[1] = after /\ contents[2] = body
      BY <3>1 DEF Null
    <3>3. ~(Len(OidValues(body)) > MaxOidValues)
      BY <1>1 DEF MaxOidValues
    <3>4. ~(body # <<>> /\ Last(body) > 127)
      <4>1. body # <<>> => Last(body) \in Int
        <5>1. body # <<>> => Len(body) \in 1 .. Len(body)
          BY <1>1
        <5>2. body # <<>> => body[Len(body)] \in Octet
          BY <1>1, <5>1
        <5>3. QED
          BY <5>2, OctetIs DEF Last
      <4>2. QED
        BY <1>1, <4>1
    <3>5. QED
      BY <1>1, <1>9, <2>2, <3>2, <3>3, <3>4
  <2>3. QED
    BY <2>1, <2>2
<1>11. pos < after
  BY <1>3, <1>6, <1>7
<1> DEFINE got == values
<1> HIDE DEF got
<1>12. /\ after \in Nat /\ end \in Nat /\ pos \in Nat
       /\ read = IF end <= pos THEN Null ELSE <<pos + 1, tag>>
       /\ d = IF end < after THEN Null ELSE <<after, got>>
  BY <1>6, <1>7, <1>10 DEF got
<1>12a. (IF read = Null THEN Null ELSE IF d = Null THEN Null ELSE <<d[1], <<read[2], d[2]>> >>)
        = IF end < after THEN Null ELSE <<after, <<tag, got>> >>
  <2>1. \A x, y : <<x, y>> # Null
    BY DEF Null
  <2>2. CASE end <= pos
    BY <1>11, <1>12, <2>2
  <2>3. CASE ~(end <= pos) /\ end < after
    BY <1>12, <2>1, <2>3
  <2>4. CASE ~(end <= pos) /\ ~(end < after)
    <3>1. read = <<pos + 1, tag>> /\ d = <<after, got>>
      BY <1>12, <2>4
    <3>2. read # Null /\ d # Null
      BY <2>1, <3>1
    <3>3. QED
      BY <2>4, <3>1, <3>2
  <2>5. QED
    BY <2>2, <2>3, <2>4
<1>12b. read # Null => read[1] = pos + 1
  BY <1>12
<1>13. ReadOid(o, pos, end) = IF end < after THEN Null ELSE <<after, <<tag, values>> >>
  BY <1>12a, <1>12b DEF ReadOid, Then, Giving, d, read, got
<1>14. QED
  BY <1>4, <1>13 DEF after

-----------------------------------------------------------------------------
(* Octets that nobody has vouched for.                                      *)

\* A message, and a place in it that a decoder is given, with the end it is given.
Given(o, pos, end) ==
    o \in Seq(Octet) /\ pos \in Nat \ {0} /\ end \in Nat /\ end <= Len(o) + 1

\* A position a decoder may return: it has moved on, and not past the end.
Between(p, pos, end) == p \in Nat /\ pos < p /\ p <= end

\* The octets before the end are octets, and so is any part of them.
LEMMA GivenOctets ==
  ASSUME NEW o, NEW pos, NEW end, Given(o, pos, end)
  PROVE  /\ \A i \in 1 .. end - 1 : o[i] \in Octet /\ o[i] \in Int /\ o[i] >= 0 /\ o[i] <= 255
         /\ \A m \in Nat \ {0}, n \in Int : m <= n + 1 /\ n < end =>
               /\ SubSeq(o, m, n) \in Seq(Octet) /\ Len(SubSeq(o, m, n)) = n - m + 1
               /\ \A i \in 1 .. n - m + 1 : SubSeq(o, m, n)[i] = o[m + i - 1]
<1>1. o \in Seq(Octet) /\ end \in Nat /\ end <= Len(o) + 1 /\ Len(o) \in Nat
  BY DEF Given
<1>2. \A i \in 1 .. end - 1 : o[i] \in Octet
  <2>1. \A i \in 1 .. end - 1 : i \in 1 .. Len(o)
    BY <1>1
  <2>2. QED
    BY <1>1, <2>1
<1>3. ASSUME NEW m \in Nat \ {0}, NEW n \in Int, m <= n + 1, n < end
      PROVE  /\ SubSeq(o, m, n) \in Seq(Octet) /\ Len(SubSeq(o, m, n)) = n - m + 1
             /\ \A i \in 1 .. n - m + 1 : SubSeq(o, m, n)[i] = o[m + i - 1]
  <2>1. \A i \in m .. n : o[i] \in Octet
    <3>1. \A i \in m .. n : i \in 1 .. end - 1
      BY <1>1, <1>3
    <3>2. QED
      BY <1>2, <3>1
  <2>2. /\ SubSeq(o, m, n) \in Seq(Octet)
        /\ Len(SubSeq(o, m, n)) = IF m <= n THEN n - m + 1 ELSE 0
        /\ \A i \in 1 .. n - m + 1 : SubSeq(o, m, n)[i] = o[m + i - 1]
    BY <1>3, <2>1, SubSeqProperties
  <2>3. (IF m <= n THEN n - m + 1 ELSE 0) = n - m + 1
    BY <1>3
  <2>4. QED
    BY <2>2, <2>3
<1>4. QED
  BY <1>2, <1>3, OctetIs

\* Where the first of some places is.
LEMMA MinIs ==
  ASSUME NEW T \in SUBSET Nat, T # {}
  PROVE  Min(T) \in T
<1>1. \E k \in T : \A j \in T : k <= j
  BY Least
<1>2. QED
  BY <1>1 DEF Min

\* A tag, of one octet or of many, ends before the end.
LEMMA TagInside ==
  ASSUME NEW o, NEW pos, NEW end, Given(o, pos, end), asn1_dec_tag(o, pos, end) # Null
  PROVE  Between(asn1_dec_tag(o, pos, end)[1], pos, end)
<1> DEFINE ends == {p \in pos + 1 .. end - 1 : o[p] < 128}
<1>1. pos \in Nat /\ end \in Nat /\ ends \in SUBSET Nat /\ \A p \in ends : pos < p /\ p < end
  BY DEF Given
<1>2. asn1_dec_tag(o, pos, end) =
         IF end <= pos THEN Null
         ELSE IF o[pos] % 32 # ASN1_TYPE_MASK THEN <<pos + 1, o[pos]>>
         ELSE IF ends = {} THEN Null
         ELSE <<Min(ends) + 1, ExtendedTag(o[pos], SubSeq(o, pos + 1, Min(ends)))>>
  BY DEF asn1_dec_tag
<1> HIDE DEF ends
<1>3. ~(end <= pos)
  BY <1>2
<1>4. CASE o[pos] % 32 # ASN1_TYPE_MASK
  <2>1. asn1_dec_tag(o, pos, end) = <<pos + 1, o[pos]>>
    BY <1>2, <1>3, <1>4
  <2>2. QED
    BY <1>1, <1>3, <2>1 DEF Between
<1>5. CASE o[pos] % 32 = ASN1_TYPE_MASK
  <2>1. ends # {}
    BY <1>2, <1>3, <1>5
  <2>2. Min(ends) \in ends
    BY <1>1, <2>1, MinIs
  <2>3. asn1_dec_tag(o, pos, end)[1] = Min(ends) + 1
    BY <1>2, <1>3, <1>5, <2>1
  <2>4. Min(ends) \in Nat /\ pos < Min(ends) /\ Min(ends) < end
    BY <1>1, <2>2
  <2>5. QED
    BY <1>1, <2>3, <2>4 DEF Between
<1>6. QED
  BY <1>4, <1>5

\* The last four octets of the last four are these.
LEMMA Kept ==
  ASSUME NEW s \in Seq(Octet), s # <<>>
  PROVE  LET kept == SubSeq(s, Max({1, Len(s) - 3}), Len(s))
         IN  kept \in Seq(Octet) /\ Len(kept) \in 1 .. 4 /\ Signed(s) = Signed(kept)
<1> DEFINE first == Max({1, Len(s) - 3})
           kept == SubSeq(s, first, Len(s))
           again == SubSeq(kept, Max({1, Len(kept) - 3}), Len(kept))
<1>1. Len(s) \in Nat /\ Len(s) >= 1
  OBVIOUS
<1> DEFINE From(L) == Max({1, L - 3})
<1>2. \A L \in Int : L >= 1 => From(L) = IF L <= 4 THEN 1 ELSE L - 3
  <2> SUFFICES ASSUME NEW L \in Int, L >= 1
               PROVE  From(L) = IF L <= 4 THEN 1 ELSE L - 3
    OBVIOUS
  <2> DEFINE m == Max({1, L - 3})
  <2>1. \E x \in {1, L - 3} : \A y \in {1, L - 3} : x >= y
    OBVIOUS
  <2>2. m \in {1, L - 3} /\ m >= 1 /\ m >= L - 3
    BY <2>1 DEF Max
  <2> HIDE DEF m
  <2>3. m = IF L <= 4 THEN 1 ELSE L - 3
    BY <2>2
  <2>4. QED
    BY <2>3 DEF m
<1>3. first \in Int /\ 1 <= first /\ first <= Len(s) /\ Len(s) - first <= 3
  BY <1>1, <1>2
<1> HIDE DEF first
<1>4. kept \in Seq(Octet) /\ Len(kept) = Len(s) - first + 1
  <2>1. \A i \in first .. Len(s) : s[i] \in Octet
    BY <1>1, <1>3
  <2>2. /\ SubSeq(s, first, Len(s)) \in Seq(Octet)
        /\ Len(SubSeq(s, first, Len(s))) = IF first <= Len(s) THEN Len(s) - first + 1 ELSE 0
    BY <1>1, <1>3, <2>1, SubSeqProperties
  <2>3. QED
    BY <1>3, <2>2
<1> HIDE DEF kept
<1>5. Len(kept) \in 1 .. 4
  BY <1>1, <1>3, <1>4
<1>6. again = kept
  <2>1. Max({1, Len(kept) - 3}) = 1
    <3> HIDE DEF From
    <3>1. \A L \in 1 .. 4 : From(L) = 1
      BY <1>2
    <3>2. From(Len(kept)) = 1
      BY <1>5, <3>1, Zenon
    <3>3. QED
      BY <3>2 DEF From
  <2>2. SubSeq(kept, 1, Len(kept)) = kept
    BY <1>4
  <2>3. QED
    BY <2>1, <2>2
<1> HIDE DEF again
<1> DEFINE Value(k) == LET value[n \in 0 .. Len(k)] ==
                               IF n = 0 THEN IF k[1] > 127 THEN -1 ELSE 0
                               ELSE value[n - 1] * 256 + k[n]
                       IN  value[Len(k)]
<1>7. Signed(s) = Value(kept)
  BY DEF Signed, kept, first
<1>8. Signed(kept) = Value(again)
  BY DEF Signed, again
<1>9. QED
  <2> HIDE DEF Value
  <2> QED
    BY <1>4, <1>5, <1>6, <1>7, <1>8 DEF kept, first

\* What an integer stands for, whatever it is, fits an int32_t.
LEMMA SignedFits ==
  ASSUME NEW s \in Seq(Octet), s # <<>>
  PROVE  Signed(s) \in Int32
<1> DEFINE k == SubSeq(s, Max({1, Len(s) - 3}), Len(s))
           h == IF k[1] > 127 THEN k[1] - 256 ELSE k[1]
<1>1. k \in Seq(Octet) /\ Len(k) \in 1 .. 4 /\ Signed(s) = Signed(k)
  BY Kept
<1> HIDE DEF k
<1>2. \A i \in 1 .. Len(k) : k[i] \in Int /\ k[i] >= 0 /\ k[i] <= 255
  <2>1. \A n \in 1 .. Len(k) : k[n] \in Octet
    BY <1>1
  <2>2. QED
    BY <2>1, OctetIs
<1>3. /\ Len(k) = 1 => Signed(k) = h
      /\ Len(k) = 2 => Signed(k) = (h * 256) + k[2]
      /\ Len(k) = 3 => Signed(k) = (((h * 256) + k[2]) * 256) + k[3]
      /\ Len(k) = 4 => Signed(k) = (((((h * 256) + k[2]) * 256) + k[3]) * 256) + k[4]
  BY <1>1, SignedIs
<1>4. h \in Int /\ -128 <= h /\ h <= 127
  BY <1>1, <1>2
<1> HIDE DEF h
<1>5. CASE Len(k) = 1
  BY <1>1, <1>3, <1>4, <1>5 DEF Int32
<1>6. CASE Len(k) = 2
  BY <1>1, <1>2, <1>3, <1>4, <1>6 DEF Int32
<1>7. CASE Len(k) = 3
  BY <1>1, <1>2, <1>3, <1>4, <1>7 DEF Int32
<1>8. CASE Len(k) = 4
  BY <1>1, <1>2, <1>3, <1>4, <1>8 DEF Int32
<1>9. QED
  BY <1>1, <1>5, <1>6, <1>7, <1>8

\* A length is followed by as many octets as it says.
LEMMA LengthInside ==
  ASSUME NEW o, NEW pos, NEW end, Given(o, pos, end), asn1_dec_length(o, pos, end) # Null
  PROVE  LET d == asn1_dec_length(o, pos, end)
         IN  /\ Between(d[1], pos, end)
             /\ d[2] # Indefinite => d[2] \in Nat /\ d[1] + d[2] <= end
<1> DEFINE d == asn1_dec_length(o, pos, end)
           next == pos + o[pos] - 127
           n == SubSeq(o, pos + 1, next - 1)
<1>1. pos \in Nat \ {0} /\ end \in Nat /\ end <= Len(o) + 1
  BY DEF Given
<1>2. d = IF end <= pos THEN Null
          ELSE IF o[pos] < 128 THEN Definite(pos + 1, o[pos], end)
          ELSE IF o[pos] = 128
               THEN IF end < pos + 1 + ASN1_INDEF_TERM_LEN THEN Null ELSE <<pos + 1, Indefinite>>
          ELSE IF o[pos] = 255 \/ end < next THEN Null
          ELSE Definite(next, LongLength(n), end)
  BY DEF asn1_dec_length
<1> HIDE DEF d, n
<1>3. d # Null
  BY DEF d
<1>4. ~(end <= pos)
  BY <1>2, <1>3
<1>5. o[pos] \in Int /\ o[pos] >= 0 /\ o[pos] <= 255
  <2>1. pos \in 1 .. end - 1
    BY <1>1, <1>4
  <2>2. QED
    BY <2>1, GivenOctets
<1>6. ASSUME NEW p \in Int, NEW l \in Int, d = Definite(p, l, end), pos < p, p <= end,
             l \in Nat \/ l = Indefinite
      PROVE  Between(d[1], pos, end) /\ (d[2] # Indefinite => d[2] \in Nat /\ d[1] + d[2] <= end)
  <2>1. ~(end < p + l) /\ d = <<p, l>>
    BY <1>3, <1>6 DEF Definite
  <2>2. QED
    BY <1>1, <1>6, <2>1 DEF Between
<1>7. CASE o[pos] < 128
  <2>1. d = Definite(pos + 1, o[pos], end)
    BY <1>2, <1>4, <1>7
  <2>2. QED
    BY <1>1, <1>4, <1>5, <1>6, <2>1 DEF d
<1>8. CASE o[pos] = 128
  <2>1. ~(end < pos + 1 + 2) /\ d = <<pos + 1, Indefinite>>
    BY <1>2, <1>3, <1>4, <1>8 DEF ASN1_INDEF_TERM_LEN
  <2>2. QED
    BY <1>1, <2>1 DEF Between, d
<1>9. CASE o[pos] > 128
  <2>1. ~(end < next) /\ d = Definite(next, LongLength(n), end) /\ next \in Int /\ pos + 1 < next
    BY <1>1, <1>2, <1>3, <1>4, <1>5, <1>9
  <2>2. n \in Seq(Octet) /\ n # <<>>
    <3>1. pos + 1 \in Nat \ {0} /\ next - 1 \in Int /\ pos + 1 <= next - 1 + 1 /\ next - 1 < end
      BY <1>1, <2>1
    <3>2. n \in Seq(Octet) /\ Len(n) = next - 1 - (pos + 1) + 1
      BY <3>1, GivenOctets DEF n
    <3>3. Len(n) # 0
      BY <1>1, <2>1, <3>2
    <3>4. QED
      BY <3>2, <3>3
  <2> HIDE DEF next
  <2>3. LongLength(n) \in Nat \/ LongLength(n) = Indefinite
    <3>1. Unsigned(n, 256) \in Nat
      <4>1. PICK g \in [0 .. Len(n) -> Nat] : Unsigned(n, 256) = g[Len(n)]
        BY <2>2, UnsignedReads
      <4>2. Len(n) \in 0 .. Len(n)
        BY <2>2
      <4>3. QED
        BY <4>1, <4>2
    <3>2. Signed(n) \in Int
      BY <2>2, SignedFits DEF Int32
    <3>3. ~(Signed(n) < 0) => Signed(n) \in Nat
      BY <3>2
    <3>4. QED
      BY <3>1, <3>3 DEF LongLength
  <2>4. LongLength(n) \in Int
    BY <2>3 DEF Indefinite
  <2>5. QED
    BY <1>1, <1>6, <2>1, <2>3, <2>4 DEF d
<1>10. QED
  BY <1>5, <1>7, <1>8, <1>9

\* So are the contents of a primitive there, and its size is one that is allowed.
LEMMA ContentsInside ==
  ASSUME NEW o, NEW pos, NEW end, Given(o, pos, end), NEW sizes \in SUBSET Nat,
         Contents(o, pos, end, sizes) # Null
  PROVE  LET c == Contents(o, pos, end, sizes)
         IN  /\ Between(c[1], pos, end)
             /\ c[2] \in Seq(Octet) /\ Len(c[2]) \in sizes
<1> DEFINE c == Contents(o, pos, end, sizes)
           d == asn1_dec_length(o, pos, end)
<1>1. c = IF d = Null THEN Null
          ELSE IF d[2] \in sizes THEN <<d[1] + d[2], SubSeq(o, d[1], d[1] + d[2] - 1)>> ELSE Null
  BY DEF Contents, Then
<1> HIDE DEF c
<1>2. c # Null
  BY DEF c
<1>3. d # Null /\ d[2] \in sizes /\ c = <<d[1] + d[2], SubSeq(o, d[1], d[1] + d[2] - 1)>>
  BY <1>1, <1>2
<1>4. d[2] \in Nat /\ d[2] # Indefinite
  <2> HIDE DEF d
  <2>1. \A x \in Nat : x # Indefinite
    BY DEF Indefinite
  <2>2. \A x \in sizes : x \in Nat
    OBVIOUS
  <2>3. QED
    BY <1>3, <2>1, <2>2
<1>5. Between(d[1], pos, end) /\ d[1] + d[2] <= end
  BY <1>3, <1>4, LengthInside
<1> HIDE DEF d
<1> DEFINE p == d[1]
           l == d[2]
<1>6. p \in Nat \ {0} /\ l \in Nat /\ pos < p /\ p + l <= end /\ pos \in Nat /\ end \in Nat
  BY <1>4, <1>5 DEF Between, Given
<1>7. c = <<p + l, SubSeq(o, p, p + l - 1)>> /\ l \in sizes
  BY <1>3
<1> HIDE DEF p, l
<1>8. SubSeq(o, p, p + l - 1) \in Seq(Octet) /\ Len(SubSeq(o, p, p + l - 1)) = l
  <2>1. p + l - 1 \in Int /\ p <= p + l - 1 + 1 /\ p + l - 1 < end /\ p + l - 1 - p + 1 = l
    BY <1>6
  <2>2. QED
    BY <1>6, <2>1, GivenOctets
<1>9. QED
  BY <1>6, <1>7, <1>8 DEF c, Between


\* What has been read of an object identifier are values of 16 bits.
LEMMA OidValuesFit ==
  ASSUME NEW s \in Seq(Octet)
  PROVE  OidValues(s) \in Seq(SubValue)
<1> DEFINE Fit == [done : Seq(SubValue), value : Nat]
<1>1. PICK g \in [0 .. Len(s) -> OidState] :
         /\ g[0] = OidStart
         /\ \A n \in 1 .. Len(s) : g[n] = Next7(g[n - 1], s[n])
         /\ OidRead(s) = g[Len(s)]
  BY OidReadsIs DEF OidReads
<1>2. Len(s) \in Nat /\ \A n \in 1 .. Len(s) : s[n] \in Octet
  OBVIOUS
<1>3. g[0] \in Fit
  BY <1>1 DEF OidStart
<1>4. ASSUME NEW t \in Fit, NEW x \in Octet
      PROVE  Next7(t, x) \in Fit
  <2>1. t.done \in Seq(SubValue) /\ t.value \in Nat
    OBVIOUS
  <2>2. t \in OidState
    <3>1. t.done \in Seq(Nat)
      <4>1. \A i \in 1 .. Len(t.done) : t.done[i] \in Nat
        BY <2>1 DEF SubValue
      <4>2. QED
        BY <2>1, <4>1
    <3>2. t = [done |-> t.done, value |-> t.value]
      OBVIOUS
    <3>3. QED
      BY <2>1, <3>1, <3>2 DEF OidState
  <2>3. /\ Next7(t, x) \in OidState
        /\ x > 127 => Next7(t, x) = [done |-> t.done, value |-> (t.value * 128) + (x - 128)]
        /\ x <= 127 => Next7(t, x) =
              [done |-> Append(t.done, Low16((t.value * 128) + x)), value |-> 0]
    BY <2>2, Next7Is
  <2>4. x \in Int /\ x >= 0 /\ x <= 255
    BY OctetIs
  <2>5. CASE x > 127
    <3>1. (t.value * 128) + (x - 128) \in Nat
      BY <2>1, <2>4, <2>5
    <3>2. QED
      BY <2>1, <2>3, <2>5, <3>1
  <2>6. CASE x <= 127
    <3> DEFINE v == Low16((t.value * 128) + x)
    <3>1. v \in SubValue
      <4>1. (t.value * 128) + x \in Nat
        BY <2>1, <2>4
      <4>2. QED
        BY <4>1, SMT DEF Low16, SubValue
    <3>2. Next7(t, x) = [done |-> Append(t.done, v), value |-> 0]
      BY <2>3, <2>6
    <3> HIDE DEF v
    <3>3. Append(t.done, v) \in Seq(SubValue)
      BY <2>1, <3>1
    <3>4. QED
      BY <3>2, <3>3
  <2>7. QED
    BY <2>4, <2>5, <2>6
<1> HIDE DEF Fit
<1>5. g[Len(s)] \in Fit
  <2> DEFINE P == {n \in 0 .. Len(s) : g[n] \in Fit}
  <2>1. 0 \in P
    BY <1>2, <1>3
  <2>2. \A n \in 1 .. Len(s) : n - 1 \in P => n \in P
    BY <1>1, <1>2, <1>4
  <2>3. Len(s) \in P
    <3> HIDE DEF P
    <3>1. \A n \in 0 .. Len(s) : n \in P
      BY <1>2, <2>1, <2>2, Upwards
    <3>2. QED
      BY <1>2, <3>1
  <2>4. QED
    BY <2>3
<1>6. QED
  BY <1>1, <1>5 DEF OidValues, Fit

(* Whatever octets arrive, a decoder that takes them has moved on and has not *)
(* passed the end of the message or of the component around it (the checks of *)
(* asn1_dec_tag and asn1_dec_length against end): the loops over components   *)
(* in rose.c and asn1_primitive.c end, and no component takes octets of what  *)
(* follows it.  What is stored fits: an int32_t, a struct asn1_oid.           *)
THEOREM DecodersStayInside ==
  ASSUME NEW o, NEW pos, NEW end, Given(o, pos, end)
  PROVE  /\ LET t == asn1_dec_tag(o, pos, end)
            IN  t # Null => Between(t[1], pos, end)
         /\ LET d == asn1_dec_length(o, pos, end)
            IN  d # Null => /\ Between(d[1], pos, end)
                            /\ d[2] # Indefinite => d[2] \in Nat /\ d[1] + d[2] <= end
         /\ LET v == asn1_dec_int(o, pos, end)
            IN  v # Null => Between(v[1], pos, end) /\ v[2] \in Int32
         /\ LET b == asn1_dec_boolean(o, pos, end)
            IN  b # Null => Between(b[1], pos, end) /\ b[2] \in {0, 1}
         /\ LET n == asn1_dec_null(o, pos, end)
            IN  n # Null => Between(n[1], pos, end)
         /\ LET i == asn1_dec_oid(o, pos, end)
            IN  i # Null => /\ Between(i[1], pos, end)
                            /\ i[2] \in Seq(SubValue) /\ Len(i[2]) <= MaxOidValues
<1>1. Len(o) \in Nat /\ 1 .. Len(o) \in SUBSET Nat /\ 0 .. Len(o) \in SUBSET Nat
      /\ {0} \in SUBSET Nat /\ {1} \in SUBSET Nat
  BY DEF Given
<1>2. ASSUME NEW v, v = asn1_dec_int(o, pos, end), v # Null
      PROVE  Between(v[1], pos, end) /\ v[2] \in Int32
  <2> DEFINE c == Contents(o, pos, end, 1 .. Len(o))
  <2>1. c # Null /\ v = <<c[1], Signed(c[2])>>
    BY <1>2 DEF asn1_dec_int, Giving
  <2>2. Between(c[1], pos, end) /\ c[2] \in Seq(Octet) /\ Len(c[2]) \in 1 .. Len(o)
    BY <1>1, <2>1, ContentsInside
  <2> HIDE DEF c
  <2>3. c[2] # <<>>
    BY <1>1, <2>2
  <2>4. QED
    BY <2>1, <2>2, <2>3, SignedFits
<1>3. ASSUME NEW v, v = asn1_dec_boolean(o, pos, end), v # Null
      PROVE  Between(v[1], pos, end) /\ v[2] \in {0, 1}
  <2> DEFINE c == Contents(o, pos, end, {1})
  <2>1. c # Null /\ v = <<c[1], IF c[2][1] # 0 THEN 1 ELSE 0>>
    BY <1>3 DEF asn1_dec_boolean, Giving
  <2>2. Between(c[1], pos, end)
    BY <1>1, <2>1, ContentsInside
  <2> HIDE DEF c
  <2>3. QED
    BY <2>1, <2>2
<1>4. ASSUME NEW v, v = asn1_dec_null(o, pos, end), v # Null
      PROVE  Between(v[1], pos, end)
  <2> DEFINE c == Contents(o, pos, end, {0})
  <2>1. c # Null /\ v[1] = c[1]
    BY <1>4 DEF asn1_dec_null, Giving
  <2>2. QED
    BY <1>1, <2>1, ContentsInside
<1>5. ASSUME NEW v, v = asn1_dec_oid(o, pos, end), v # Null
      PROVE  Between(v[1], pos, end) /\ v[2] \in Seq(SubValue) /\ Len(v[2]) <= MaxOidValues
  <2> DEFINE c == Contents(o, pos, end, 0 .. Len(o))
  <2>1. v = IF c = Null THEN Null
            ELSE IF Len(OidValues(c[2])) > MaxOidValues \/ (c[2] # <<>> /\ Last(c[2]) > 127)
            THEN Null ELSE <<c[1], OidValues(c[2])>>
    BY <1>5 DEF asn1_dec_oid, Then
  <2>2. c # Null
    BY <1>5, <2>1
  <2>3. Between(c[1], pos, end) /\ c[2] \in Seq(Octet)
    BY <1>1, <2>2, ContentsInside
  <2> HIDE DEF c
  <2>4. OidValues(c[2]) \in Seq(SubValue)
    BY <2>3, OidValuesFit
  <2>5. v = <<c[1], OidValues(c[2])>> /\ ~(Len(OidValues(c[2])) > MaxOidValues)
    BY <1>5, <2>1, <2>2
  <2>6. Len(OidValues(c[2])) \in Nat
    BY <2>4
  <2>7. QED
    BY <2>3, <2>4, <2>5, <2>6 DEF MaxOidValues
<1>6. asn1_dec_tag(o, pos, end) # Null => Between(asn1_dec_tag(o, pos, end)[1], pos, end)
  BY TagInside
<1>7. LET d == asn1_dec_length(o, pos, end)
      IN  d # Null => /\ Between(d[1], pos, end)
                      /\ d[2] # Indefinite => d[2] \in Nat /\ d[1] + d[2] <= end
  BY LengthInside
<1>8. QED
  BY <1>2, <1>3, <1>4, <1>5, <1>6, <1>7


\* Two messages that are the same up to an end.
Alike(o, q, end) == \A i \in 1 .. end - 1 : o[i] = q[i]

\* Alike messages have the same parts before the end.
LEMMA PartsAlike ==
  ASSUME NEW o, NEW q, NEW pos, NEW end, Given(o, pos, end), Given(q, pos, end),
         Alike(o, q, end)
  PROVE  \A m \in Nat \ {0}, n \in Int :
            m <= n + 1 /\ n < end => SubSeq(o, m, n) = SubSeq(q, m, n)
<1> SUFFICES ASSUME NEW m \in Nat \ {0}, NEW n \in Int, m <= n + 1, n < end
             PROVE  SubSeq(o, m, n) = SubSeq(q, m, n)
  OBVIOUS
<1> DEFINE a == SubSeq(o, m, n)
           b == SubSeq(q, m, n)
<1>1. a \in Seq(Octet) /\ Len(a) = n - m + 1 /\ \A i \in 1 .. n - m + 1 : a[i] = o[m + i - 1]
  BY GivenOctets
<1>2. b \in Seq(Octet) /\ Len(b) = n - m + 1 /\ \A i \in 1 .. n - m + 1 : b[i] = q[m + i - 1]
  BY GivenOctets
<1>3. end \in Nat
  BY DEF Given
<1>4. \A i \in 1 .. n - m + 1 : o[m + i - 1] = q[m + i - 1]
  <2>1. \A i \in 1 .. n - m + 1 : m + i - 1 \in 1 .. end - 1
    BY <1>3
  <2>2. QED
    BY <2>1 DEF Alike
<1> HIDE DEF a, b
<1>5. a = b
  BY <1>1, <1>2, <1>4, SeqEqual
<1>6. QED
  BY <1>5 DEF a, b

\* What a primitive is decoded from is the same in both.
LEMMA ContentsAlike ==
  ASSUME NEW o, NEW q, NEW pos, NEW end, Given(o, pos, end), Given(q, pos, end),
         Alike(o, q, end), asn1_dec_length(o, pos, end) = asn1_dec_length(q, pos, end),
         NEW sizes, NEW others,
         \A n \in Nat : n < end => (n \in sizes <=> n \in others),
         Indefinite \notin sizes, Indefinite \notin others
  PROVE  Contents(o, pos, end, sizes) = Contents(q, pos, end, others)
<1> DEFINE d == asn1_dec_length(o, pos, end)
<1>1. /\ Contents(o, pos, end, sizes) =
           IF d = Null THEN Null
           ELSE IF d[2] \in sizes THEN <<d[1] + d[2], SubSeq(o, d[1], d[1] + d[2] - 1)>> ELSE Null
      /\ Contents(q, pos, end, others) =
           IF d = Null THEN Null
           ELSE IF d[2] \in others THEN <<d[1] + d[2], SubSeq(q, d[1], d[1] + d[2] - 1)>> ELSE Null
  BY DEF Contents, Then
<1>2. d # Null => /\ Between(d[1], pos, end)
                  /\ d[2] # Indefinite => d[2] \in Nat /\ d[1] + d[2] <= end
  BY LengthInside
<1> HIDE DEF d
<1>3. CASE d = Null
  BY <1>1, <1>3
<1>4. CASE d # Null /\ d[2] = Indefinite
  BY <1>1, <1>4
<1>5. CASE d # Null /\ d[2] # Indefinite
  <2> DEFINE p == d[1]
             l == d[2]
  <2>1. p \in Nat \ {0} /\ l \in Nat /\ p + l <= end /\ end \in Nat
    BY <1>2, <1>5 DEF Between, Given
  <2>2. /\ Contents(o, pos, end, sizes) =
             IF l \in sizes THEN <<p + l, SubSeq(o, p, p + l - 1)>> ELSE Null
        /\ Contents(q, pos, end, others) =
             IF l \in others THEN <<p + l, SubSeq(q, p, p + l - 1)>> ELSE Null
    BY <1>1, <1>5
  <2> HIDE DEF p, l
  <2>3. l < end /\ p + l - 1 \in Int /\ p <= p + l - 1 + 1 /\ p + l - 1 < end
    BY <2>1
  <2>4. l \in sizes <=> l \in others
    BY <2>1, <2>3
  <2>5. SubSeq(o, p, p + l - 1) = SubSeq(q, p, p + l - 1)
    BY <2>1, <2>3, PartsAlike
  <2>6. CASE l \in sizes
    BY <2>2, <2>4, <2>5, <2>6, Zenon
  <2>7. CASE l \notin sizes
    BY <2>2, <2>4, <2>7, Zenon
  <2>8. QED
    BY <2>6, <2>7
<1>6. QED
  BY <1>3, <1>4, <1>5

(* No decoder looks at what stands at the end of a message, or behind it: two *)
(* messages that are the same up to there are read alike, whatever else is in *)
(* the frame around the element that receive_facility decodes (q931.c:1518).  *)
THEOREM NothingBehindIsRead ==
  ASSUME NEW o, NEW q, NEW pos, NEW end, Given(o, pos, end), Given(q, pos, end),
         Alike(o, q, end)
  PROVE  /\ asn1_dec_tag(o, pos, end) = asn1_dec_tag(q, pos, end)
         /\ asn1_dec_length(o, pos, end) = asn1_dec_length(q, pos, end)
         /\ asn1_dec_int(o, pos, end) = asn1_dec_int(q, pos, end)
         /\ asn1_dec_boolean(o, pos, end) = asn1_dec_boolean(q, pos, end)
         /\ asn1_dec_null(o, pos, end) = asn1_dec_null(q, pos, end)
         /\ asn1_dec_oid(o, pos, end) = asn1_dec_oid(q, pos, end)
<1>1. pos \in Nat \ {0} /\ end \in Nat /\ end <= Len(o) + 1 /\ end <= Len(q) + 1
      /\ Len(o) \in Nat /\ Len(q) \in Nat
  BY DEF Given
<1>2. ~(end <= pos) => o[pos] = q[pos]
  <2>1. ~(end <= pos) => pos \in 1 .. end - 1
    BY <1>1
  <2>2. QED
    BY <2>1 DEF Alike
<1>3. asn1_dec_tag(o, pos, end) = asn1_dec_tag(q, pos, end)
  <2> DEFINE ends(x) == {p \in pos + 1 .. end - 1 : x[p] < 128}
             Read(first, e, groups) ==
               IF end <= pos THEN Null
               ELSE IF first % 32 # ASN1_TYPE_MASK THEN <<pos + 1, first>>
               ELSE IF e = {} THEN Null
               ELSE <<Min(e) + 1, ExtendedTag(first, groups)>>
             Groups7(x, e) == SubSeq(x, pos + 1, Min(e))
  <2>1. asn1_dec_tag(o, pos, end) = Read(o[pos], ends(o), Groups7(o, ends(o)))
    BY DEF asn1_dec_tag
  <2>2. asn1_dec_tag(q, pos, end) = Read(q[pos], ends(q), Groups7(q, ends(q)))
    BY DEF asn1_dec_tag
  <2>3. ends(o) = ends(q)
    <3>1. \A p \in pos + 1 .. end - 1 : o[p] = q[p]
      <4>1. \A p \in pos + 1 .. end - 1 : p \in 1 .. end - 1
        BY <1>1
      <4>2. QED
        BY <4>1 DEF Alike
    <3>2. QED
      BY <3>1
  <2>4. ends(o) \in SUBSET Nat /\ \A p \in ends(o) : pos < p /\ p < end
    BY <1>1
  <2> HIDE DEF ends, Read, Groups7
  <2> DEFINE e == ends(o)
             first == o[pos]
             a == Groups7(o, e)
             b == Groups7(q, e)
  <2>5. e \in SUBSET Nat /\ \A p \in e : pos < p /\ p < end
    BY <2>4
  <2>6. CASE end <= pos
    BY <2>1, <2>2, <2>6 DEF Read
  <2>7. CASE ~(end <= pos)
    <3>1. asn1_dec_tag(o, pos, end) = Read(first, e, a) /\ asn1_dec_tag(q, pos, end) = Read(first, e, b)
      BY <1>2, <2>1, <2>2, <2>3, <2>7, Zenon
    <3> HIDE DEF first, e
    <3>2. CASE e = {}
      <4> HIDE DEF a, b
      <4>1. Read(first, e, a) = Read(first, e, b)
        BY <3>2, Zenon DEF Read
      <4>2. QED
        BY <3>1, <4>1
    <3>3. CASE e # {}
      <4>1. Min(e) \in e
        BY <2>5, <3>3, MinIs
      <4> DEFINE m == Min(e)
      <4>2. m \in Nat /\ pos < m /\ m < end
        BY <2>5, <4>1
      <4> HIDE DEF m
      <4>3. m \in Int /\ pos + 1 <= m + 1 /\ m < end /\ pos + 1 \in Nat \ {0}
        BY <1>1, <4>2
      <4>4. SubSeq(o, pos + 1, m) = SubSeq(q, pos + 1, m)
        BY <4>3, PartsAlike
      <4>5. a = b
        BY <4>4 DEF Groups7, m
      <4>6. QED
        BY <3>1, <4>5
    <3>4. QED
      BY <3>2, <3>3
  <2>8. QED
    BY <2>6, <2>7
<1>4. asn1_dec_length(o, pos, end) = asn1_dec_length(q, pos, end)
  <2> DEFINE Read(first, n) ==
               IF end <= pos THEN Null
               ELSE IF first < 128 THEN Definite(pos + 1, first, end)
               ELSE IF first = 128
                    THEN IF end < pos + 1 + ASN1_INDEF_TERM_LEN THEN Null ELSE <<pos + 1, Indefinite>>
               ELSE IF first = 255 \/ end < pos + first - 127 THEN Null
               ELSE Definite(pos + first - 127, LongLength(n), end)
             Octets(x) == SubSeq(x, pos + 1, (pos + x[pos] - 127) - 1)
  <2>1. asn1_dec_length(o, pos, end) = Read(o[pos], Octets(o))
    BY DEF asn1_dec_length
  <2>2. asn1_dec_length(q, pos, end) = Read(q[pos], Octets(q))
    BY DEF asn1_dec_length
  <2>3. CASE end <= pos
    BY <2>1, <2>2, <2>3 DEF Read
  <2>4. CASE ~(end <= pos)
    <3> DEFINE first == o[pos]
               a == Octets(o)
               b == Octets(q)
    <3>1. q[pos] = first /\ first \in Int
      <4>1. pos \in 1 .. end - 1
        BY <1>1, <2>4
      <4>2. QED
        BY <1>2, <2>4, <4>1, GivenOctets
    <3>2. asn1_dec_length(o, pos, end) = Read(first, a) /\ asn1_dec_length(q, pos, end) = Read(first, b)
      <4> HIDE DEF Octets, Read
      <4>1. asn1_dec_length(o, pos, end) = Read(first, a)
        BY <2>1
      <4>2. asn1_dec_length(q, pos, end) = Read(q[pos], b)
        BY <2>2
      <4>3. QED
        BY <3>1, <4>1, <4>2
    <3>3. /\ a = SubSeq(o, pos + 1, (pos + first - 127) - 1)
          /\ b = SubSeq(q, pos + 1, (pos + first - 127) - 1)
      BY <3>1, Zenon
    <3> HIDE DEF first, Octets
    <3>4. first > 128 /\ ~(end < pos + first - 127) => a = b
      <4> SUFFICES ASSUME first > 128, ~(end < pos + first - 127) PROVE a = b
        OBVIOUS
      <4>1. /\ pos + 1 \in Nat \ {0} /\ (pos + first - 127) - 1 \in Int
            /\ pos + 1 <= (pos + first - 127) - 1 + 1 /\ (pos + first - 127) - 1 < end
        BY <1>1, <3>1
      <4>2. SubSeq(o, pos + 1, (pos + first - 127) - 1) = SubSeq(q, pos + 1, (pos + first - 127) - 1)
        BY <4>1, PartsAlike
      <4>3. QED
        BY <3>3, <4>2
    <3> HIDE DEF a, b
    <3>5. Read(first, a) = Read(first, b)
      <4>1. CASE first < 128 \/ first = 128 \/ end < pos + first - 127
        BY <4>1, <3>1 DEF Read
      <4>2. CASE first > 128 /\ ~(end < pos + first - 127)
        BY <3>4, <4>2
      <4>3. QED
        BY <3>1, <4>1, <4>2
    <3>6. QED
      BY <3>2, <3>5
  <2>5. QED
    BY <2>3, <2>4
<1>5. /\ \A n \in Nat : n < end => (n \in 1 .. Len(o) <=> n \in 1 .. Len(q))
      /\ \A n \in Nat : n < end => (n \in 0 .. Len(o) <=> n \in 0 .. Len(q))
      /\ Indefinite \notin 1 .. Len(o) /\ Indefinite \notin 1 .. Len(q)
      /\ Indefinite \notin 0 .. Len(o) /\ Indefinite \notin 0 .. Len(q)
      /\ Indefinite \notin {0} /\ Indefinite \notin {1}
  BY <1>1 DEF Indefinite
<1>6. ASSUME NEW sizes, NEW others,
             \A n \in Nat : n < end => (n \in sizes <=> n \in others),
             Indefinite \notin sizes, Indefinite \notin others
      PROVE  Contents(o, pos, end, sizes) = Contents(q, pos, end, others)
  BY <1>4, <1>6, ContentsAlike
<1>6a. Contents(o, pos, end, 1 .. Len(o)) = Contents(q, pos, end, 1 .. Len(q))
  BY <1>5, <1>6
<1>6b. Contents(o, pos, end, 0 .. Len(o)) = Contents(q, pos, end, 0 .. Len(q))
  BY <1>5, <1>6
<1>6c. Contents(o, pos, end, {0}) = Contents(q, pos, end, {0})
  BY <1>5, <1>6
<1>6d. Contents(o, pos, end, {1}) = Contents(q, pos, end, {1})
  BY <1>5, <1>6
<1>7. asn1_dec_int(o, pos, end) = asn1_dec_int(q, pos, end)
  BY <1>6a DEF asn1_dec_int, Giving
<1>8. asn1_dec_boolean(o, pos, end) = asn1_dec_boolean(q, pos, end)
  BY <1>6d DEF asn1_dec_boolean, Giving
<1>9. asn1_dec_null(o, pos, end) = asn1_dec_null(q, pos, end)
  BY <1>6c DEF asn1_dec_null, Giving
<1>10. asn1_dec_oid(o, pos, end) = asn1_dec_oid(q, pos, end)
  BY <1>6b DEF asn1_dec_oid, Then
<1>11. QED
  BY <1>3, <1>4, <1>7, <1>8, <1>9, <1>10


(* A string of definite length, whatever its octets and its length, consists *)
(* of octets before the end, and with a zero behind it it fits the buffer of  *)
(* size octets it is written to: asn1_dec_string_bin refuses one that is too  *)
(* long, asn1_dec_string_max cuts it.                                         *)
THEOREM StringsStayInside ==
  ASSUME NEW o, NEW pos, NEW end, Given(o, pos, end),
         NEW size \in Nat \ {0}, NEW cuts \in BOOLEAN, NEW d, NEW read,
         d = asn1_dec_length(o, pos, end), d # Null, d[2] # Indefinite,
         read = Fitting(o, d[1], d[1] + d[2], size, cuts), read # Null
  PROVE  Between(read[1], pos, end) /\ read[2] \in Seq(Octet) /\ Len(read[2]) < size
<1> DEFINE p == d[1]
           l == d[2]
<1>1. p \in Nat \ {0} /\ l \in Nat /\ pos < p /\ p + l <= end /\ pos \in Nat /\ end \in Nat
  BY LengthInside DEF Between, Given
<1>2. read = Fitting(o, p, p + l, size, cuts)
  OBVIOUS
<1> HIDE DEF p, l
<1>3. (p + l) - p = l /\ Between(p + l, pos, end)
  BY <1>1 DEF Between
<1>4. CASE l < size
  <2> DEFINE e == (p + l) - 1
  <2>1. read = <<p + l, SubSeq(o, p, e)>>
    BY <1>2, <1>3, <1>4, FittingIs
  <2>2. e \in Int /\ p <= e + 1 /\ e < end /\ e - p + 1 = l
    BY <1>1
  <2> HIDE DEF e
  <2>3. SubSeq(o, p, e) \in Seq(Octet) /\ Len(SubSeq(o, p, e)) = l
    BY <1>1, <2>2, GivenOctets
  <2>4. read[1] = p + l /\ read[2] = SubSeq(o, p, e)
    BY <2>1
  <2>5. Len(read[2]) < size
    BY <1>4, <2>3, <2>4
  <2>6. QED
    BY <1>3, <2>3, <2>4, <2>5, Zenon
<1>5. CASE ~(l < size)
  <2> DEFINE e == p + size - 2
  <2>1. read = <<p + l, SubSeq(o, p, e)>>
    BY <1>2, <1>3, <1>5, FittingIs
  <2>2. e \in Int /\ p <= e + 1 /\ e < end /\ e - p + 1 = size - 1 /\ size - 1 < size
    BY <1>1, <1>5
  <2> HIDE DEF e
  <2>3. SubSeq(o, p, e) \in Seq(Octet) /\ Len(SubSeq(o, p, e)) = size - 1
    BY <1>1, <2>2, GivenOctets
  <2>4. read[1] = p + l /\ read[2] = SubSeq(o, p, e)
    BY <2>1
  <2>5. Len(read[2]) < size
    BY <2>2, <2>3, <2>4
  <2>6. QED
    BY <1>3, <2>3, <2>4, <2>5, Zenon
<1>6. QED
  BY <1>4, <1>5

=============================================================================
