----------------------------- MODULE Q921Proofs -----------------------------
(***************************************************************************)
(* What holds of the two stations of Q921Link for every modulus, window    *)
(* and number of retransmissions, on a line that loses frames, with any    *)
(* number of messages.                                                     *)
(*                                                                         *)
(* The first part is about what keeps a station going.  The functions of   *)
(* q921.c are taken first, each as a lemma on the station it is given and  *)
(* the station it leaves; then the frames; then every step of Q921Link.    *)
(* Its inductive invariant says beyond Supervised what makes it last: T200 *)
(* may expire and find nothing to do, but then T203 is on, and a poll that *)
(* stands in the place of T203 is still waited for (solicit).              *)
(*                                                                         *)
(* The second part is about what a station does for layer 3: the window is *)
(* kept, and messages arrive in order, none twice.  What a station does    *)
(* depends on numbers modulo Mod only; what is shown is that these stand   *)
(* for the messages they should.  Messages are counted from 1 at each end; *)
(* At is the number of each.  Runs says what holds of a station, frames it *)
(* is about to transmit included, and every function of q921.c keeps it,   *)
(* given an acknowledgement of what the peer took.  Speaks and Listens say *)
(* of the line what makes the next frame such a one: N(S) are those of the *)
(* messages, too close together to be mistaken, and N(R) name what was     *)
(* wanted, in order.  NInv, of both ends, is the inductive invariant; the  *)
(* end shows that each step is one of LinkService.                         *)
(***************************************************************************)
EXTENDS Q921Link, TLAPS, FiniteSetTheorems, SequenceTheorems, WellFoundedInduction

-----------------------------------------------------------------------------
(* Types.  A station is a record with the fields of Fresh; n messages were  *)
(* submitted at its end, m at the other.                                    *)

Num == 0 .. Mod - 1

Entry(n) == [ns : Num, sent : BOOLEAN, data : 1 .. n]

Frame(n) ==
    [type : {"I"}, ns : Num, nr : Num, p : BOOLEAN, data : 1 .. n]
      \cup [type : {"RR", "RNR", "REJ"}, nr : Num, p : BOOLEAN, cmd : BOOLEAN]
      \cup [type : {"SABME", "UA", "DM", "DISC"}]

Fields == {"state", "v_s", "v_a", "v_r", "v_na", "windowlen", "busy", "solicit", "retrans",
           "sentrej", "queue", "on", "out", "up", "event"}

Events == {"off", "t200", "t203", "sabme"}

Sound(s, n, m) ==
    /\ DOMAIN s = Fields
    /\ s.state \in {"released", "awaiting", "established"}
    /\ s.v_s \in 0 .. n + Mod - 1
    /\ s.v_a \in Num /\ s.v_r \in Num /\ s.v_na \in Num /\ s.windowlen \in Int
    /\ s.busy \in BOOLEAN /\ s.solicit \in BOOLEAN /\ s.sentrej \in BOOLEAN
    /\ s.retrans \in 0 .. N200
    /\ s.queue \in Seq(Entry(n))
    /\ s.on \in [Timers -> Events]
    /\ s.out \in Seq(Frame(n)) /\ s.up \in Seq(1 .. m)
    /\ s.event \in {"none", "down"}

\* Timers, as far as they concern a frame that arrives: T203 starts again after it.
Half(s) ==
    /\ s.on["t200"] \in {"off", "t200"} /\ s.on["sabme"] \in {"off", "sabme"}
    /\ IF s.state = "established" THEN s.on["sabme"] = "off"
       ELSE s.on["sabme"] # "off" /\ s.on["t200"] = "off"

\* Between steps.  T200 may find nothing to do, but then T203 goes on; the guard of
\* a poll, in the place of T203, never finds nothing to do.
Watched(s) ==
    /\ Half(s)
    /\ s.on["t203"] \in {"off", "t203", "t200"}
    /\ IF s.state = "established"
       THEN /\ s.on["t200"] # "off" \/ s.on["t203"] # "off"
            /\ s.queue = <<>> /\ ~s.solicit => s.on["t203"] # "off"
            /\ s.on["t203"] = "t200" => s.solicit
       ELSE s.on["t203"] # "t200"

EndInv(e) ==
    /\ Sound(station[e], submitted[e], submitted[Peer(e)]) /\ Watched(station[e])
    /\ station[e].out = <<>> /\ station[e].up = <<>> /\ station[e].event = "none"
    /\ wire[e] \in Seq(Frame(submitted[Peer(e)])) /\ Len(wire[e]) <= MaxWire
    /\ last[e] \in 0 .. submitted[Peer(e)]

IInv ==
    /\ DOMAIN station = Ends /\ DOMAIN wire = Ends /\ submitted \in [Ends -> Nat] /\ DOMAIN last = Ends
    /\ \A e \in Ends : EndInv(e)
    /\ downs \in 0 .. MaxDown /\ foreign \in Nat /\ Within(submitted, foreign) /\ stale \in BOOLEAN

-----------------------------------------------------------------------------
(* Constants, finite sets of numbers.                                       *)

\* The constants, and numbers modulo Mod.
LEMMA ConstantsAre ==
  /\ Mod \in Nat /\ Mod > 1 /\ K \in Nat /\ K > 0 /\ N200 \in Nat /\ N200 > 0 /\ K + 1 < Mod
  /\ 0 \in Num /\ \A k \in Int : k % Mod \in Num
<1>1. /\ Mod \in Nat /\ Mod > 0 /\ K \in Nat /\ K > 0 /\ N200 \in Nat /\ N200 > 0
      /\ K + 1 < Mod
  BY Q921Assumption
<1>2. \A k \in Int : k % Mod \in 0 .. Mod - 1
  BY <1>1
<1>3. QED
  BY <1>1, <1>2 DEF Num

\* A nonempty set of naturals has a least member.
LEMMA Least ==
  ASSUME NEW T \in SUBSET Nat, T # {}
  PROVE  \E k \in T : \A j \in T : k <= j
<1>1. PICK k \in T : \A j \in T : <<j, k>> \notin OpToRel(<, Nat)
  BY WFMin, NatLessThanWellFounded, Zenon
<1>2. \A j \in T : ~(j < k)
  BY <1>1 DEF OpToRel
<1>3. QED
  BY <1>2

\* A nonempty set of places has a last one.
LEMMA Greatest ==
  ASSUME NEW L \in Nat, NEW S \in SUBSET (1 .. L), S # {}
  PROVE  \E k \in S : \A j \in S : j <= k
<1> DEFINE T == {L - i : i \in S}
<1>1. T \in SUBSET Nat /\ T # {}
  <2>1. \A i \in S : L - i \in Nat
    OBVIOUS
  <2>2. QED
    BY <2>1
<1>2. PICK k \in T : \A j \in T : k <= j
  BY <1>1, Least
<1>3. PICK i \in S : k = L - i
  BY <1>2
<1>4. \A j \in S : L - i <= L - j
  BY <1>2, <1>3
<1>5. QED
  BY <1>4

\* The numbers of a finite set, in order.
Rising(f, S) == f \in [1 .. Cardinality(S) -> S] /\ \A i, j \in DOMAIN f : i < j => f[i] < f[j]

\* The members of a finite set of numbers can be taken in order: the CHOOSE of Only finds something.
LEMMA Rises ==
  ASSUME NEW S \in SUBSET Nat, IsFiniteSet(S)
  PROVE  \E f : Rising(f, S)
<1> DEFINE Bad == {R \in SUBSET S : ~ \E f : Rising(f, R)}
           T == {Cardinality(R) : R \in Bad}
<1>1. SUFFICES ASSUME Bad # {} PROVE FALSE
  OBVIOUS
<1>2. \A R \in SUBSET S : IsFiniteSet(R) /\ Cardinality(R) \in Nat
  BY FS_Subset, FS_CardinalityType
<1>3. T \in SUBSET Nat /\ T # {}
  BY <1>1, <1>2
<1>4. PICK k \in T : \A j \in T : k <= j
  BY <1>3, Least
<1>5. PICK R \in Bad : k = Cardinality(R)
  BY <1>4
<1>6. R # {}
  <2>1. SUFFICES ASSUME R = {} PROVE FALSE
    OBVIOUS
  <2>2. Cardinality(R) = 0
    BY <2>1, FS_EmptySet
  <2>3. Rising([i \in 1 .. 0 |-> i], R)
    BY <2>2 DEF Rising
  <2>4. QED
    BY <1>5, <2>3
<1>7. PICK x \in R : \A y \in R : x <= y
  BY <1>5, <1>6, Least
<1> DEFINE Q == R \ {x}
<1>8. Q \in SUBSET S /\ Cardinality(Q) = k - 1 /\ k \in Nat /\ k > 0
  <2>1. Cardinality(Q) = Cardinality(R) - 1
    BY <1>2, <1>5, <1>7, FS_RemoveElement
  <2>2. Cardinality(Q) \in Nat
    BY <1>2, <1>5
  <2>3. QED
    BY <1>2, <1>5, <2>1, <2>2
<1>9. Q \notin Bad
  <2>1. Q \in Bad => k - 1 \in T
    BY <1>8
  <2>2. QED
    BY <1>4, <1>8, <2>1
<1>10. PICK g : Rising(g, Q)
  BY <1>8, <1>9
<1> DEFINE f == [i \in 1 .. k |-> IF i = 1 THEN x ELSE g[i - 1]]
<1>11. g \in [1 .. k - 1 -> Q] /\ \A i, j \in 1 .. k - 1 : i < j => g[i] < g[j]
  BY <1>8, <1>10 DEF Rising
<1>12. \A i \in 1 .. k : i # 1 => i - 1 \in 1 .. k - 1 /\ g[i - 1] \in Q
  BY <1>8, <1>11
<1>13. f \in [1 .. k -> R]
  BY <1>7, <1>12
<1>14. \A i, j \in 1 .. k : i < j => f[i] < f[j]
  <2>1. TAKE i, j \in 1 .. k
  <2>2. HAVE i < j
  <2>3. j # 1 /\ j - 1 \in 1 .. k - 1 /\ f[j] = g[j - 1] /\ f[j] \in Q
    BY <1>12, <2>2
  <2>4. CASE i = 1
    <3>1. f[i] = x
      BY <2>4
    <3>2. x <= f[j] /\ x # f[j] /\ x \in Nat /\ f[j] \in Nat
      BY <1>5, <1>7, <2>3
    <3>3. QED
      BY <3>1, <3>2
  <2>5. CASE i # 1
    <3>1. i - 1 \in 1 .. k - 1 /\ f[i] = g[i - 1] /\ i - 1 < j - 1
      BY <1>12, <2>2, <2>5
    <3>2. QED
      BY <1>11, <2>3, <3>1
  <2>6. QED
    BY <2>4, <2>5
<1>15. Rising(f, R)
  BY <1>5, <1>13, <1>14 DEF Rising
<1>16. QED
  BY <1>5, <1>15

\* Frames picked from a queue.
LEMMA OnlyIs ==
  ASSUME NEW T, NEW q \in Seq(T), NEW S \in SUBSET DOMAIN q
  PROVE  /\ Only(q, S) \in Seq(T) /\ Len(Only(q, S)) = Cardinality(S)
         /\ IsFiniteSet(S) /\ Cardinality(S) \in Nat
         /\ \E f : Rising(f, S) /\ \A i \in 1 .. Cardinality(S) : Only(q, S)[i] = q[f[i]]
<1>1. S \in SUBSET (1 .. Len(q)) /\ Len(q) \in Nat /\ S \in SUBSET Nat
  OBVIOUS
<1>2. IsFiniteSet(S) /\ Cardinality(S) \in Nat
  <2>1. IsFiniteSet(1 .. Len(q))
    BY <1>1, FS_Interval
  <2>2. QED
    BY <1>1, <2>1, FS_Subset, FS_CardinalityType
<1> DEFINE place == CHOOSE f \in [1 .. Cardinality(S) -> S] : \A i, j \in DOMAIN f : i < j => f[i] < f[j]
<1>3. \E f \in [1 .. Cardinality(S) -> S] : \A i, j \in DOMAIN f : i < j => f[i] < f[j]
  BY <1>1, <1>2, Rises DEF Rising
<1>4. Rising(place, S)
  BY <1>3, Zenon DEF Rising
<1>5. Only(q, S) = [n \in 1 .. Cardinality(S) |-> q[place[n]]]
  BY DEF Only
<1> HIDE DEF place
<1>6. \A n \in 1 .. Cardinality(S) : place[n] \in S
  BY <1>4 DEF Rising
<1>7. \A n \in 1 .. Cardinality(S) : q[place[n]] \in T
  BY <1>1, <1>6
<1>8. Only(q, S) \in Seq(T) /\ Len(Only(q, S)) = Cardinality(S)
  BY <1>2, <1>5, <1>7
<1>9. QED
  BY <1>2, <1>4, <1>5, <1>8

-----------------------------------------------------------------------------
(* Timers and frames.                                                       *)

\* A timer is scheduled: nothing else changes.
LEMMA StartIs ==
  ASSUME NEW s, NEW n, NEW m, Sound(s, n, m), NEW x \in Timers, NEW v \in Events
  PROVE  /\ Sound(Start(s, x, v), n, m)
         /\ Start(s, x, v).on[x] = v
         /\ \A y \in Timers \ {x} : Start(s, x, v).on[y] = s.on[y]
         /\ \A y \in Fields \ {"on"} : Start(s, x, v)[y] = s[y]
<1>1. Sound(Start(s, x, v), n, m)
  BY DEF Sound, Start, Fields, Timers
<1>2. DOMAIN s = Fields /\ s.on \in [Timers -> Events]
  BY DEF Sound
<1>3. QED
  BY <1>1, <1>2 DEF Start, Fields

\* A timer is deleted: nothing else changes.
LEMMA StopIs ==
  ASSUME NEW s, NEW n, NEW m, Sound(s, n, m), NEW x \in Timers
  PROVE  /\ Sound(Stop(s, x), n, m) /\ Stop(s, x).on[x] = "off"
         /\ \A y \in Timers \ {x} : Stop(s, x).on[y] = s.on[y]
         /\ \A y \in Fields \ {"on"} : Stop(s, x)[y] = s[y]
<1>1. Sound(Stop(s, x), n, m)
  BY DEF Sound, Stop, Fields, Timers, Events
<1>2. DOMAIN s = Fields /\ s.on \in [Timers -> Events]
  BY DEF Sound
<1>3. QED
  BY <1>1, <1>2 DEF Stop, Fields

\* A timer may be on for itself or for T200.
LEMMA AgainIs ==
  ASSUME NEW s, NEW n, NEW m, Sound(s, n, m), NEW x \in Timers
  PROVE  /\ Sound(Again(s, x), n, m) /\ Again(s, x).on[x] = x
         /\ \A y \in Timers \ {x} : Again(s, x).on[y] = s.on[y]
         /\ \A y \in Fields \ {"on"} : Again(s, x)[y] = s[y]
<1>1. x \in Events
  BY DEF Timers, Events
<1>2. QED
  BY <1>1, StartIs DEF Again

\* What a station makes are frames.
LEMMA FramesAre ==
  ASSUME NEW s, NEW n, NEW m, Sound(s, n, m), NEW p \in BOOLEAN, NEW cmd \in BOOLEAN
  PROVE  /\ SFrame("RR", s, p, cmd) \in Frame(n) /\ SFrame("RNR", s, p, cmd) \in Frame(n)
         /\ SFrame("REJ", s, p, cmd) \in Frame(n)
         /\ UFrame("SABME") \in Frame(n) /\ UFrame("UA") \in Frame(n)
         /\ UFrame("DM") \in Frame(n) /\ UFrame("DISC") \in Frame(n)
         /\ \A f \in Entry(n) : IFrame(s, f, p) \in Frame(n)
<1>1. s.v_r \in Num
  BY DEF Sound
<1>2. SFrame("RR", s, p, cmd) \in Frame(n) /\ SFrame("RNR", s, p, cmd) \in Frame(n)
      /\ SFrame("REJ", s, p, cmd) \in Frame(n)
  BY <1>1 DEF SFrame, Frame
<1>3. UFrame("SABME") \in Frame(n) /\ UFrame("UA") \in Frame(n)
      /\ UFrame("DM") \in Frame(n) /\ UFrame("DISC") \in Frame(n)
  BY DEF UFrame, Frame
<1>4. ASSUME NEW f \in Entry(n) PROVE IFrame(s, f, p) \in Frame(n)
  <2>1. f.ns \in Num /\ f.data \in 1 .. n
    BY DEF Entry
  <2>2. QED
    BY <1>1, <2>1 DEF IFrame, Frame
<1>5. QED
  BY <1>2, <1>3, <1>4

\* Transmission only adds to what is on its way out.
LEMMA TransmitIs ==
  ASSUME NEW s, NEW n, NEW m, Sound(s, n, m), NEW f \in Frame(n)
  PROVE  /\ Sound(Transmit(s, f), n, m)
         /\ \A y \in Fields \ {"out"} : Transmit(s, f)[y] = s[y]
<1>1. Sound(Transmit(s, f), n, m)
  BY DEF Sound, Transmit, Fields
<1>2. DOMAIN s = Fields
  BY DEF Sound
<1>3. QED
  BY <1>1, <1>2 DEF Transmit, Fields

\* An RR also carries the acknowledgement (v_na).
LEMMA SendRRIs ==
  ASSUME NEW s, NEW n, NEW m, Sound(s, n, m), NEW p \in BOOLEAN, NEW cmd \in BOOLEAN
  PROVE  /\ Sound(SendRR(s, p, cmd), n, m)
         /\ \A y \in Fields \ {"v_na", "out"} : SendRR(s, p, cmd)[y] = s[y]
<1> DEFINE t == [s EXCEPT !.v_na = s.v_r]
           f == SFrame("RR", s, p, cmd)
<1>1. Sound(t, n, m) /\ \A y \in Fields \ {"v_na"} : t[y] = s[y]
  BY DEF Sound, Fields
<1>2. f \in Frame(n)
  BY FramesAre
<1>3. SendRR(s, p, cmd) = Transmit(t, f)
  BY DEF SendRR
<1> HIDE DEF t, f
<1>4. QED
  BY <1>1, <1>2, <1>3, TransmitIs

\* A reject is noted, so that it is sent once.
LEMMA SendRejectIs ==
  ASSUME NEW s, NEW n, NEW m, Sound(s, n, m), NEW p \in BOOLEAN
  PROVE  /\ Sound(SendReject(s, p), n, m)
         /\ \A y \in Fields \ {"sentrej", "out"} : SendReject(s, p)[y] = s[y]
<1> DEFINE t == [s EXCEPT !.sentrej = TRUE]
           f == SFrame("REJ", s, p, FALSE)
<1>1. Sound(t, n, m) /\ \A y \in Fields \ {"sentrej"} : t[y] = s[y]
  BY DEF Sound, Fields
<1>2. f \in Frame(n)
  BY FramesAre
<1>3. SendReject(s, p) = Transmit(t, f)
  BY DEF SendReject
<1> HIDE DEF t, f
<1>4. QED
  BY <1>1, <1>2, <1>3, TransmitIs

-----------------------------------------------------------------------------
(* The link is set up, given up, set up anew.                               *)

\* q921_reset clears numbers, queue and timers.
LEMMA ResetIs ==
  ASSUME NEW s, NEW n \in Nat, NEW m, Sound(s, n, m)
  PROVE  /\ Sound(Reset(s), n, m)
         /\ Reset(s).state = "released" /\ \A x \in Timers : Reset(s).on[x] = "off"
         /\ Reset(s).queue = <<>> /\ Reset(s).out = s.out /\ Reset(s).up = s.up
         /\ Reset(s).v_s = 0 /\ Reset(s).v_a = 0 /\ Reset(s).v_r = 0 /\ Reset(s).v_na = 0
         /\ Reset(s).windowlen = 0 /\ ~Reset(s).busy /\ ~Reset(s).solicit
<1> DEFINE a == Stop(s, "sabme")
           b == Stop(a, "t203")
           t == Stop(b, "t200")
<1>1. /\ "sabme" \in Timers /\ "t203" \in Timers /\ "t200" \in Timers
      /\ "sabme" \in Timers \ {"t203"} /\ "sabme" \in Timers \ {"t200"} /\ "t203" \in Timers \ {"t200"}
      /\ "out" \in Fields \ {"on"} /\ "up" \in Fields \ {"on"}
  BY DEF Timers, Fields
<1>2. Sound(a, n, m) /\ a.on["sabme"] = "off" /\ a.out = s.out /\ a.up = s.up
  <2>1. /\ Sound(a, n, m) /\ a.on["sabme"] = "off"
        /\ \A y \in Fields \ {"on"} : a[y] = s[y]
    BY <1>1, StopIs
  <2> HIDE DEF a
  <2>2. QED
    BY <1>1, <2>1
<1> HIDE DEF a
<1>3. /\ Sound(b, n, m) /\ b.on["t203"] = "off" /\ b.on["sabme"] = "off"
      /\ b.out = s.out /\ b.up = s.up
  <2>1. /\ Sound(b, n, m) /\ b.on["t203"] = "off"
        /\ \A y \in Timers \ {"t203"} : b.on[y] = a.on[y]
        /\ \A y \in Fields \ {"on"} : b[y] = a[y]
    BY <1>1, <1>2, StopIs
  <2> HIDE DEF b
  <2>2. QED
    BY <1>1, <1>2, <2>1
<1> HIDE DEF b
<1>4. /\ Sound(t, n, m) /\ t.on["t200"] = "off" /\ t.on["t203"] = "off" /\ t.on["sabme"] = "off"
      /\ t.out = s.out /\ t.up = s.up
  <2>1. /\ Sound(t, n, m) /\ t.on["t200"] = "off"
        /\ \A y \in Timers \ {"t200"} : t.on[y] = b.on[y]
        /\ \A y \in Fields \ {"on"} : t[y] = b[y]
    BY <1>1, <1>3, StopIs
  <2> HIDE DEF t
  <2>2. QED
    BY <1>1, <1>3, <2>1
<1>5. \A x \in Timers : t.on[x] = "off"
  BY <1>4 DEF Timers
<1> DEFINE u == [t EXCEPT !.state = "released", !.v_s = 0, !.v_a = 0, !.v_r = 0, !.v_na = 0,
                  !.windowlen = 0, !.busy = FALSE, !.solicit = FALSE, !.retrans = 0,
                  !.sentrej = FALSE, !.queue = <<>>]
<1>6. Reset(s) = u
  BY DEF Reset, a, b
<1> HIDE DEF t
<1>7. DOMAIN t = Fields
  BY <1>4 DEF Sound
<1>8. /\ DOMAIN u = Fields /\ u.state = "released" /\ u.v_s = 0 /\ u.v_a = 0 /\ u.v_r = 0 /\ u.v_na = 0
      /\ u.windowlen = 0 /\ u.retrans = 0 /\ u.queue = <<>>
      /\ u.on = t.on /\ u.out = t.out /\ u.up = t.up /\ u.event = t.event
  <2>1. DOMAIN u = Fields
    BY <1>7
  <2>2. u.state = "released" /\ u.queue = <<>>
    BY <1>7 DEF Fields
  <2>3. u.v_s = 0 /\ u.v_a = 0 /\ u.v_r = 0 /\ u.v_na = 0
    BY <1>7 DEF Fields
  <2>4. u.windowlen = 0 /\ u.retrans = 0
    BY <1>7 DEF Fields
  <2>5. u.on = t.on /\ u.event = t.event
    BY <1>7 DEF Fields
  <2>6. u.out = t.out /\ u.up = t.up
    BY <1>7 DEF Fields
  <2>7. QED
    BY <2>1, <2>2, <2>3, <2>4, <2>5, <2>6
<1>9. u.busy = FALSE /\ u.solicit = FALSE /\ u.sentrej = FALSE
  BY <1>7 DEF Fields
<1> HIDE DEF u
<1>10. 0 \in Num /\ 0 \in 0 .. n + Mod - 1 /\ 0 \in 0 .. N200 /\ <<>> \in Seq(Entry(n))
  BY ConstantsAre
<1>11. Sound(u, n, m)
  <2>1. u.busy \in BOOLEAN /\ u.solicit \in BOOLEAN /\ u.sentrej \in BOOLEAN
    BY <1>9
  <2>2. /\ u.on \in [Timers -> Events] /\ u.out \in Seq(Frame(n)) /\ u.up \in Seq(1 .. m)
        /\ u.event \in {"none", "down"}
    BY <1>4, <1>8 DEF Sound
  <2>3. u.v_s \in 0 .. n + Mod - 1 /\ u.retrans \in 0 .. N200 /\ u.queue \in Seq(Entry(n))
    BY <1>8, <1>10
  <2>4. u.v_a \in Num /\ u.v_r \in Num /\ u.v_na \in Num /\ u.windowlen \in Int
    BY <1>8, <1>10
  <2>5. QED
    BY <1>8, <2>1, <2>2, <2>3, <2>4 DEF Sound
<1>12. QED
  BY <1>4, <1>5, <1>6, <1>8, <1>9, <1>11

\* q921_send_sabme schedules its timer, whether or not the frame goes out.
LEMMA SendSabmeIs ==
  ASSUME NEW s, NEW n, NEW m, Sound(s, n, m), NEW now \in BOOLEAN
  PROVE  LET t == SendSabme(s, now)
         IN  /\ Sound(t, n, m) /\ t.on["sabme"] = "sabme"
             /\ t.on["t200"] = s.on["t200"] /\ t.on["t203"] = s.on["t203"]
             /\ t.state = IF now THEN "awaiting" ELSE s.state
             /\ \A y \in Fields \ {"state", "on", "out"} : t[y] = s[y]
<1> DEFINE a == Again(s, "sabme")
           f == UFrame("SABME")
           b == Transmit(a, f)
           c == [b EXCEPT !.state = "awaiting"]
<1>1. "sabme" \in Timers /\ "t200" \in Timers \ {"sabme"} /\ "t203" \in Timers \ {"sabme"}
  BY DEF Timers
<1>2. /\ Sound(a, n, m) /\ a.on["sabme"] = "sabme" /\ a.on["t200"] = s.on["t200"]
      /\ a.on["t203"] = s.on["t203"] /\ \A y \in Fields \ {"on"} : a[y] = s[y]
  BY <1>1, AgainIs
<1>3. SendSabme(s, now) = IF now THEN c ELSE a
  BY DEF SendSabme
<1>4. f \in Frame(n)
  BY <1>2, FramesAre
<1> HIDE DEF a, f
<1>5. Sound(b, n, m) /\ \A y \in Fields \ {"out"} : b[y] = a[y]
  BY <1>2, <1>4, TransmitIs
<1> HIDE DEF b
<1>6. Sound(c, n, m) /\ c.state = "awaiting" /\ \A y \in Fields \ {"state"} : c[y] = b[y]
  BY <1>5 DEF Sound, Fields
<1> HIDE DEF c
<1>7. c.on = a.on /\ \A y \in Fields \ {"state", "on", "out"} : c[y] = s[y]
  BY <1>2, <1>5, <1>6 DEF Fields
<1>8. QED
  BY <1>2, <1>3, <1>6, <1>7 DEF Fields

\* However the link comes to be set up anew, SABME will be sent.
LEMMA LinkStartIs ==
  ASSUME NEW s, NEW n \in Nat, NEW m, Sound(s, n, m), NEW now \in BOOLEAN
  PROVE  LET t == LinkStart(s, now)
         IN  /\ Sound(t, n, m) /\ t.state # "established" /\ Half(t) /\ Watched(t)
             /\ t.queue = <<>> /\ t.up = s.up /\ t.on["t203"] = "off"
<1> DEFINE r == Reset(s)
           t == LinkStart(s, now)
<1>1. Sound(r, n, m) /\ r.state = "released" /\ r.on["t200"] = "off" /\ r.on["t203"] = "off"
      /\ r.queue = <<>> /\ r.up = s.up
  BY ResetIs DEF Timers
<1>2. t = SendSabme(r, now)
  BY DEF LinkStart
<1> HIDE DEF r, t
<1>3. /\ Sound(t, n, m) /\ t.on["sabme"] = "sabme" /\ t.on["t200"] = "off" /\ t.on["t203"] = "off"
      /\ t.state = IF now THEN "awaiting" ELSE "released"
      /\ t.queue = <<>> /\ t.up = s.up
  BY <1>1, <1>2, SendSabmeIs DEF Fields
<1>4. QED
  BY <1>3 DEF Half, Watched, t

\* The link given up, and the link ended by DM or DISC: SABME is scheduled, T200 off.
LEMMA GiveUpIs ==
  ASSUME NEW s, NEW n \in Nat, NEW m, Sound(s, n, m)
  PROVE  /\ Sound(GiveUp(s), n, m) /\ GiveUp(s).state # "established" /\ Half(GiveUp(s)) /\ Watched(GiveUp(s))
         /\ GiveUp(s).queue = <<>> /\ GiveUp(s).up = s.up
         /\ Sound(LinkDown(s), n, m) /\ LinkDown(s).state # "established" /\ Half(LinkDown(s))
         /\ LinkDown(s).up = s.up
<1> DEFINE r == Reset(s)
           d == [r EXCEPT !.event = "down"]
<1>1. Sound(r, n, m) /\ r.up = s.up
  BY ResetIs
<1>2. GiveUp(s) = LinkStart(d, TRUE) /\ LinkDown(s) = LinkStart(d, FALSE)
  BY DEF GiveUp, LinkDown
<1> HIDE DEF r
<1>3. Sound(d, n, m) /\ d.up = s.up
  BY <1>1 DEF Sound, Fields
<1> HIDE DEF d
<1>4. QED
  BY <1>2, <1>3, LinkStartIs

-----------------------------------------------------------------------------
(* The queue.                                                               *)

\* Frames made of the entries of a queue.
LEMMA IFramesAre ==
  ASSUME NEW s, NEW n, NEW m, Sound(s, n, m), NEW q \in Seq(Entry(n))
  PROVE  IFrames(s, q) \in Seq(Frame(n)) /\ Len(IFrames(s, q)) = Len(q)
<1>1. Len(q) \in Nat /\ \A i \in 1 .. Len(q) : q[i] \in Entry(n)
  OBVIOUS
<1> DEFINE g(i) == IFrame(s, q[i], FALSE)
<1>2. \A i \in 1 .. Len(q) : g(i) \in Frame(n)
  BY <1>1, FramesAre
<1>3. IFrames(s, q) = [i \in 1 .. Len(q) |-> g(i)]
  BY DEF IFrames
<1> HIDE DEF g
<1>4. QED
  BY <1>1, <1>2, <1>3

\* Places in the queue.
LEMMA UnsentAre ==
  ASSUME NEW s, NEW n, NEW m, Sound(s, n, m)
  PROVE  /\ Unsent(s) \subseteq DOMAIN s.queue /\ Room(s) \subseteq Unsent(s)
         /\ DOMAIN s.queue = 1 .. Len(s.queue) /\ Len(s.queue) \in Nat
         /\ \A i \in DOMAIN s.queue : s.queue[i] \in Entry(n)
<1>1. s.queue \in Seq(Entry(n))
  BY DEF Sound
<1>2. QED
  BY <1>1 DEF Unsent, Room

\* Marking as sent leaves the frames of a queue.
LEMMA MarkedAre ==
  ASSUME NEW n, NEW p \in Seq(Entry(n)), NEW S
  PROVE  LET q == Marked(p, S)
         IN  q \in Seq(Entry(n)) /\ DOMAIN q = DOMAIN p /\ Len(q) = Len(p)
<1> DEFINE q == Marked(p, S)
<1>0. Len(p) \in Nat /\ DOMAIN p = 1 .. Len(p) /\ \A i \in DOMAIN p : p[i] \in Entry(n)
  OBVIOUS
<1>1. ASSUME NEW i \in DOMAIN p PROVE q[i] \in Entry(n)
  <2> DEFINE b == p[i].sent \/ i \in S
  <2>1. q[i] = [p[i] EXCEPT !.sent = b]
    BY DEF Marked
  <2>2. b \in BOOLEAN
    OBVIOUS
  <2> HIDE DEF q, b
  <2>3. QED
    BY <1>0, <2>1, <2>2 DEF Entry
<1>2. DOMAIN q = DOMAIN p
  BY DEF Marked
<1>3. q = [i \in 1 .. Len(p) |-> q[i]]
  BY <1>0, <1>2, Zenon DEF Marked
<1>4. q \in Seq(Entry(n)) /\ DOMAIN q = DOMAIN p /\ Len(q) = Len(p)
  <2> HIDE DEF q
  <2>1. q \in [1 .. Len(p) -> Entry(n)]
    BY <1>0, <1>1, <1>2, <1>3, Zenon
  <2>2. QED
    BY <1>0, <1>2, <2>1
<1>5. QED
  BY <1>4, Zenon

\* q921_send_queued_iframes touches the window, the marks and the line only.
LEMMA SendQueuedIs ==
  ASSUME NEW s, NEW n, NEW m, Sound(s, n, m)
  PROVE  LET t == SendQueued(s)
         IN  /\ Sound(t, n, m) /\ DOMAIN t.queue = DOMAIN s.queue /\ Len(t.queue) = Len(s.queue)
             /\ \A y \in Fields \ {"windowlen", "queue", "out"} : t[y] = s[y]
<1> DEFINE now == Room(s)
           w == s.windowlen + Cardinality(now)
           q == Marked(s.queue, now)
           o == s.out \o IFrames(s, Only(s.queue, now))
           t == [s EXCEPT !.windowlen = w, !.queue = q, !.out = o]
<1>1. s.queue \in Seq(Entry(n)) /\ DOMAIN s = Fields /\ s.windowlen \in Int /\ s.out \in Seq(Frame(n))
  BY DEF Sound
<1>2. now \in SUBSET DOMAIN s.queue
  BY UnsentAre
<1>3. Only(s.queue, now) \in Seq(Entry(n)) /\ Cardinality(now) \in Nat
  BY <1>1, <1>2, OnlyIs
<1>4. w \in Int
  BY <1>1, <1>3
<1>5. o \in Seq(Frame(n))
  <2>1. IFrames(s, Only(s.queue, now)) \in Seq(Frame(n))
    BY <1>3, IFramesAre
  <2> HIDE DEF now
  <2>2. QED
    BY <1>1, <2>1
<1>6. q \in Seq(Entry(n)) /\ DOMAIN q = DOMAIN s.queue /\ Len(q) = Len(s.queue)
  BY <1>1, <1>2, MarkedAre
<1>7. SendQueued(s) = t
  BY DEF SendQueued
<1> HIDE DEF now, w, q, o
<1>8. Sound(t, n, m)
  BY <1>4, <1>5, <1>6 DEF Sound, Fields
<1>9. t.queue = q /\ \A y \in Fields \ {"windowlen", "queue", "out"} : t[y] = s[y]
  BY <1>1 DEF Fields
<1>10. QED
  BY <1>6, <1>7, <1>8, <1>9

\* What is acknowledged is some of the queue.
LEMMA AcknowledgeIs ==
  ASSUME NEW s, NEW n, NEW m, Sound(s, n, m), NEW ack
  PROVE  LET t == Acknowledge(s, ack)
         IN  /\ Sound(t, n, m)
             /\ \A y \in Fields \ {"v_a", "queue", "retrans", "windowlen"} : t[y] = s[y]
<1> DEFINE acked == Acked(s, ack)
<1>1. s.queue \in Seq(Entry(n)) /\ DOMAIN s = Fields /\ s.windowlen \in Int
  BY DEF Sound
<1>2. acked \in SUBSET DOMAIN s.queue /\ DOMAIN s.queue \ acked \in SUBSET DOMAIN s.queue
  BY DEF Acked
<1>3. CASE acked = {}
  <2>1. Acknowledge(s, ack) = s
    BY <1>3 DEF Acknowledge
  <2>2. QED
    BY <2>1
<1>4. CASE acked # {}
  <2> DEFINE top == CHOOSE i \in acked : \A j \in acked : j <= i
             v == s.queue[top].ns
             q == Only(s.queue, DOMAIN s.queue \ acked)
             w == s.windowlen - Cardinality(acked)
             t == [s EXCEPT !.v_a = v, !.queue = q, !.retrans = 0, !.windowlen = w]
  <2>1. Acknowledge(s, ack) = t
    BY <1>4 DEF Acknowledge
  <2> HIDE DEF acked
  <2>2. \E i \in acked : \A j \in acked : j <= i
    <3>1. Len(s.queue) \in Nat /\ acked \in SUBSET (1 .. Len(s.queue))
      BY <1>2, UnsentAre
    <3>2. QED
      BY <1>4, <3>1, Greatest
  <2>3. top \in acked
    BY <2>2, Zenon
  <2> HIDE DEF top
  <2>4. v \in Num
    <3>1. s.queue[top] \in Entry(n)
      BY <1>2, <2>3, UnsentAre
    <3>2. QED
      BY <3>1 DEF Entry
  <2>5. q \in Seq(Entry(n)) /\ w \in Int
    BY <1>1, <1>2, OnlyIs
  <2>6. 0 \in 0 .. N200
    BY ConstantsAre
  <2> HIDE DEF v, q, w
  <2>7. Sound(t, n, m)
    BY <2>4, <2>5, <2>6 DEF Sound, Fields
  <2>8. \A y \in Fields \ {"v_a", "queue", "retrans", "windowlen"} : t[y] = s[y]
    BY <1>1 DEF Fields
  <2>9. QED
    BY <2>1, <2>7, <2>8
<1>5. QED
  BY <1>3, <1>4

\* An acknowledgement leaves T200 or T203 on, and of the timers only those.
LEMMA AckRxIs ==
  ASSUME NEW s, NEW n, NEW m, Sound(s, n, m), NEW ack, NEW sendunsent \in BOOLEAN
  PROVE  LET t == AckRx(s, ack, sendunsent)
         IN  /\ Sound(t, n, m) /\ t.on["sabme"] = s.on["sabme"]
             /\ t.on["t200"] \in {"off", "t200", s.on["t200"]}
             /\ \A y \in Fields \ {"v_a", "queue", "retrans", "windowlen", "on", "out"} : t[y] = s[y]
<1> DEFINE a == Acknowledge(s, ack)
           b == IF a.queue = <<>> THEN Stop(a, "t200") ELSE a
           c == Stop(b, "t203")
           z == [c EXCEPT !.retrans = 0]
           d == IF ~c.busy /\ sendunsent THEN SendQueued(z) ELSE c
           t == IF c.queue = <<>> THEN Start(c, "t203", "t203") ELSE Again(d, "t200")
<1>0. /\ "sabme" \in Timers /\ "t203" \in Timers /\ "t200" \in Timers /\ "t203" \in Events
      /\ "sabme" \in Timers \ {"t203"} /\ "sabme" \in Timers \ {"t200"} /\ "t200" \in Timers \ {"t203"}
      /\ "on" \in Fields \ {"v_a", "queue", "retrans", "windowlen"}
      /\ "on" \in Fields \ {"windowlen", "queue", "out"}
      /\ 0 \in 0 .. N200
  BY ConstantsAre DEF Timers, Fields, Events
<1>1. AckRx(s, ack, sendunsent) = t
  BY DEF AckRx
<1>2. /\ Sound(a, n, m) /\ a.on = s.on
      /\ \A y \in Fields \ {"v_a", "queue", "retrans", "windowlen"} : a[y] = s[y]
  BY <1>0, AcknowledgeIs
<1> HIDE DEF a
<1>3. /\ Sound(b, n, m) /\ b.on["sabme"] = s.on["sabme"] /\ b.on["t200"] \in {"off", s.on["t200"]}
      /\ \A y \in Fields \ {"on"} : b[y] = a[y]
  BY <1>0, <1>2, StopIs, SMTT(30)
<1> HIDE DEF b
<1>4. /\ Sound(c, n, m) /\ c.on["sabme"] = s.on["sabme"] /\ c.on["t200"] = b.on["t200"]
      /\ \A y \in Fields \ {"on"} : c[y] = b[y]
  BY <1>0, <1>3, StopIs, SMTT(30)
<1> HIDE DEF c
<1>5. Sound(z, n, m) /\ \A y \in Fields \ {"retrans"} : z[y] = c[y]
  BY <1>0, <1>4 DEF Sound, Fields
<1> HIDE DEF z
<1>6. /\ Sound(d, n, m) /\ d.on = c.on
      /\ \A y \in Fields \ {"queue", "retrans", "windowlen", "out"} : d[y] = c[y]
  <2>1. Sound(SendQueued(z), n, m) /\ \A y \in Fields \ {"windowlen", "queue", "out"} : SendQueued(z)[y] = z[y]
    BY <1>5, SendQueuedIs
  <2>2. SendQueued(z).on = c.on
    BY <1>5, <2>1 DEF Fields
  <2>3. QED
    BY <1>4, <1>5, <2>1, <2>2
<1> HIDE DEF d
<1>7. /\ Sound(t, n, m) /\ t.on["sabme"] = s.on["sabme"]
      /\ t.on["t200"] \in {"off", "t200", s.on["t200"]}
  <2>1. CASE c.queue = <<>>
    <3>1. t = Start(c, "t203", "t203")
      BY <2>1
    <3>2. Sound(t, n, m) /\ t.on["sabme"] = c.on["sabme"] /\ t.on["t200"] = c.on["t200"]
      BY <1>0, <1>4, <3>1, StartIs
    <3> HIDE DEF t
    <3>3. QED
      BY <1>3, <1>4, <3>2
  <2>2. CASE c.queue # <<>>
    <3>1. t = Again(d, "t200")
      BY <2>2
    <3>2. Sound(t, n, m) /\ t.on["sabme"] = d.on["sabme"] /\ t.on["t200"] = "t200"
      BY <1>0, <1>6, <3>1, AgainIs
    <3> HIDE DEF t
    <3>3. QED
      BY <1>4, <1>6, <3>2
  <2>3. QED
    BY <2>1, <2>2
<1>8. \A y \in Fields \ {"v_a", "queue", "retrans", "windowlen", "on", "out"} : t[y] = s[y]
  <2>1. TAKE y \in Fields \ {"v_a", "queue", "retrans", "windowlen", "on", "out"}
  <2>2. c[y] = s[y] /\ d[y] = s[y]
    BY <1>2, <1>3, <1>4, <1>6, <2>1
  <2>3. CASE c.queue = <<>>
    BY <1>0, <1>4, <2>1, <2>2, <2>3, StartIs
  <2>4. CASE c.queue # <<>>
    BY <1>0, <1>6, <2>1, <2>2, <2>4, AgainIs
  <2>5. QED
    BY <2>3, <2>4
<1>9. QED
  BY <1>1, <1>7, <1>8

-----------------------------------------------------------------------------
(* Layer 3 has a message.                                                   *)

\* A station with messages 1 .. n is one with messages 1 .. n + 1.
LEMMA SoundGrows ==
  ASSUME NEW s, NEW n \in Nat, NEW m \in Nat, NEW k \in Nat, NEW l \in Nat, n <= k, m <= l, Sound(s, n, m)
  PROVE  Sound(s, k, l)
<1>1. (1 .. n) \subseteq (1 .. k) /\ (1 .. m) \subseteq (1 .. l)
  OBVIOUS
<1>2. (0 .. n + Mod - 1) \subseteq (0 .. k + Mod - 1)
  BY ConstantsAre
<1>3. Entry(n) \subseteq Entry(k)
  BY <1>1 DEF Entry
<1>4. Frame(n) \subseteq Frame(k)
  BY <1>1 DEF Frame
<1>5. /\ s.queue \in Seq(Entry(n)) /\ s.out \in Seq(Frame(n)) /\ s.up \in Seq(1 .. m)
      /\ s.v_s \in 0 .. n + Mod - 1
  BY DEF Sound
<1>6. s.queue \in Seq(Entry(k)) /\ s.out \in Seq(Frame(k)) /\ s.up \in Seq(1 .. l)
  <2>1. s.queue \in Seq(Entry(k))
    BY <1>3, <1>5
  <2>2. s.out \in Seq(Frame(k))
    BY <1>4, <1>5
  <2>3. s.up \in Seq(1 .. l)
    BY <1>1, <1>5
  <2>4. QED
    BY <2>1, <2>2, <2>3
<1>7. s.v_s \in 0 .. k + Mod - 1
  BY <1>2, <1>5
<1>8. QED
  BY <1>6, <1>7 DEF Sound

\* It is put into the queue, T200 goes on in the place of T203 if the link is up.
LEMMA TransmitIframeIs ==
  ASSUME NEW s, NEW n \in Nat, NEW m \in Nat, Sound(s, n, m)
  PROVE  LET t == TransmitIframe(s, n + 1)
         IN  /\ Sound(t, n + 1, m) /\ t.queue # <<>>
             /\ t.on["sabme"] = s.on["sabme"] /\ t.on["t203"] = "off"
             /\ t.on["t200"] = IF s.state = "established" THEN "t200" ELSE s.on["t200"]
             /\ t.state = s.state /\ t.up = s.up /\ t.event = s.event
<1> DEFINE k == n + 1
           up == s.state = "established"
           Now == up /\ s.retrans = 0 /\ ~s.busy /\ s.windowlen < K
           f == [ns |-> s.v_s % Mod, sent |-> Now, data |-> k]
           g == IFrame(s, f, FALSE)
           q == Append(s.queue, f)
           v == s.v_s + 1
           r == s.v_r
           w == s.windowlen + 1
           a == [s EXCEPT !.queue = q, !.v_s = v, !.v_na = r]
           b == [a EXCEPT !.windowlen = w]
           c == Transmit(b, g)
           d == IF Now THEN c ELSE a
           e == Stop(d, "t203")
           t == IF up THEN Again(e, "t200") ELSE e
<1>0. /\ "sabme" \in Timers /\ "t203" \in Timers /\ "t200" \in Timers
      /\ "sabme" \in Timers \ {"t203"} /\ "sabme" \in Timers \ {"t200"}
      /\ "t200" \in Timers \ {"t203"} /\ "t203" \in Timers \ {"t200"}
  BY DEF Timers
<1>1. Sound(s, k, m) /\ k \in Nat /\ k \in 1 .. k
  BY SoundGrows
<1>2. TransmitIframe(s, k) = t
  BY DEF TransmitIframe
<1>3. f \in Entry(k)
  <2>1. s.v_s \in Int
    <3>1. s.v_s \in 0 .. n + Mod - 1
      BY DEF Sound
    <3>2. QED
      BY <3>1, ConstantsAre
  <2>2. s.v_s % Mod \in Num
    BY <2>1, ConstantsAre
  <2>3. Now \in BOOLEAN
    OBVIOUS
  <2> HIDE DEF Now, k
  <2>4. QED
    BY <1>1, <2>2, <2>3 DEF Entry
<1>4. g \in Frame(k)
  <2> HIDE DEF f, k
  <2>1. QED
    BY <1>1, <1>3, FramesAre
<1>5. v \in 0 .. k + Mod - 1
  <2>1. s.v_s \in 0 .. n + Mod - 1
    BY DEF Sound
  <2>2. \A x \in 0 .. n + Mod - 1 : x + 1 \in 0 .. n + 1 + Mod - 1
    BY ConstantsAre
  <2>3. QED
    BY <2>1, <2>2
<1>6. w \in Int /\ r \in Num
  BY DEF Sound
<1>7. q \in Seq(Entry(k)) /\ q # <<>>
  <2>1. s.queue \in Seq(Entry(k))
    BY <1>1 DEF Sound
  <2> HIDE DEF f, k
  <2>2. QED
    BY <1>3, <2>1
<1>8. Now \in BOOLEAN
  OBVIOUS
<1> HIDE DEF f, k, g, q, v, r, w
<1>9. Sound(a, k, m) /\ a.queue = q /\ \A y \in {"on", "state", "up", "event"} : a[y] = s[y]
  BY <1>1, <1>5, <1>6, <1>7 DEF Sound, Fields
<1> HIDE DEF a
<1>10. Sound(b, k, m) /\ \A y \in {"queue", "on", "state", "up", "event"} : b[y] = a[y]
  BY <1>6, <1>9 DEF Sound, Fields
<1> HIDE DEF b
<1>11. Sound(c, k, m) /\ \A y \in Fields \ {"out"} : c[y] = b[y]
  BY <1>4, <1>10, TransmitIs
<1> HIDE DEF c
<1>12. /\ Sound(d, k, m) /\ d.queue = q /\ d.on = s.on
       /\ d.state = s.state /\ d.up = s.up /\ d.event = s.event
  <2>1. /\ c.queue = q /\ c.on = s.on /\ c.state = s.state /\ c.up = s.up /\ c.event = s.event
    BY <1>9, <1>10, <1>11 DEF Fields
  <2> HIDE DEF Now
  <2>2. QED
    BY <1>9, <1>11, <2>1
<1> HIDE DEF d
<1>13. /\ Sound(e, k, m) /\ e.on["t203"] = "off" /\ e.on["t200"] = s.on["t200"]
       /\ e.on["sabme"] = s.on["sabme"] /\ e.queue = q
       /\ e.state = s.state /\ e.up = s.up /\ e.event = s.event
  BY <1>0, <1>12, StopIs, SMTT(30) DEF Fields
<1> HIDE DEF e
<1>14. CASE up
  <2>1. t = Again(e, "t200")
    BY <1>14
  <2>2. /\ Sound(t, k, m) /\ t.on["t203"] = "off" /\ t.on["t200"] = "t200"
        /\ t.on["sabme"] = s.on["sabme"] /\ t.queue = q
        /\ t.state = s.state /\ t.up = s.up /\ t.event = s.event
    BY <1>0, <1>13, <2>1, AgainIs, SMTT(30) DEF Fields
  <2> HIDE DEF t
  <2>3. QED
    BY <1>2, <1>7, <1>14, <2>2 DEF k
<1>15. CASE ~up
  <2>1. t = e
    BY <1>15
  <2> HIDE DEF t
  <2>2. QED
    BY <1>2, <1>7, <1>13, <1>15, <2>1 DEF k
<1>16. QED
  BY <1>14, <1>15

\* A message never leaves the link without a timer.
LEMMA SubmitWatched ==
  ASSUME NEW s, NEW n \in Nat, NEW m \in Nat, Sound(s, n, m), Half(s)
  PROVE  LET t == TransmitIframe(s, n + 1)
         IN  Sound(t, n + 1, m) /\ Watched(t) /\ t.state = s.state
<1> DEFINE t == TransmitIframe(s, n + 1)
<1>1. /\ Sound(t, n + 1, m) /\ t.queue # <<>>
      /\ t.on["sabme"] = s.on["sabme"] /\ t.on["t203"] = "off"
      /\ t.on["t200"] = IF s.state = "established" THEN "t200" ELSE s.on["t200"]
      /\ t.state = s.state
  BY TransmitIframeIs
<1> HIDE DEF t
<1>2. Watched(t)
  BY <1>1 DEF Half, Watched
<1>3. QED
  BY <1>1, <1>2 DEF t

-----------------------------------------------------------------------------
(* A timer expires.                                                         *)

\* t is s with event v in timer x.
Timed(s, t, x, v) ==
    /\ t.on[x] = v /\ \A y \in Timers \ {x} : t.on[y] = s.on[y]
    /\ \A y \in Fields \ {"on"} : t[y] = s[y]

\* StartIs for a station that has a name.
LEMMA Starts ==
  ASSUME NEW s, NEW n, NEW m, Sound(s, n, m), NEW x \in Timers, NEW v \in Events, NEW t, t = Start(s, x, v)
  PROVE  Sound(t, n, m) /\ Timed(s, t, x, v)
<1>1. Sound(Start(s, x, v), n, m)
  BY StartIs
<1>2. Start(s, x, v).on[x] = v
  BY StartIs
<1>3. \A y \in Timers \ {x} : Start(s, x, v).on[y] = s.on[y]
  BY StartIs
<1>4. \A y \in Fields \ {"on"} : Start(s, x, v)[y] = s[y]
  BY StartIs
<1>5. QED
  BY <1>1, <1>2, <1>3, <1>4 DEF Timed

\* The frame that goes out again is one of the queue; timers stay.
LEMMA RetransmitLastIs ==
  ASSUME NEW s, NEW n, NEW m, Sound(s, n, m)
  PROVE  LET t == RetransmitLast(s)
         IN  Sound(t, n, m) /\ \A y \in Fields \ {"v_na", "out"} : t[y] = s[y]
<1> DEFINE S == {i \in DOMAIN s.queue : s.queue[i].sent}
           top == CHOOSE i \in S : \A j \in S : j <= i
           a == [s EXCEPT !.v_na = s.v_r]
           f == IFrame(s, s.queue[top], TRUE)
<1>1. CASE S = {}
  <2>1. RetransmitLast(s) = s
    BY <1>1 DEF RetransmitLast
  <2>2. QED
    BY <2>1
<1>2. CASE S # {}
  <2>1. RetransmitLast(s) = Transmit(a, f)
    BY <1>2 DEF RetransmitLast
  <2>2. S \in SUBSET (1 .. Len(s.queue)) /\ Len(s.queue) \in Nat
    BY UnsentAre
  <2> HIDE DEF S
  <2>3. top \in S
    <3>1. \E i \in S : \A j \in S : j <= i
      BY <1>2, <2>2, Greatest
    <3>2. QED
      BY <3>1, Zenon
  <2> HIDE DEF top
  <2>4. f \in Frame(n)
    <3>1. s.queue[top] \in Entry(n)
      BY <2>2, <2>3, UnsentAre
    <3>2. QED
      BY <3>1, FramesAre
  <2>5. Sound(a, n, m) /\ \A y \in Fields \ {"v_na"} : a[y] = s[y]
    BY DEF Sound, Fields
  <2> HIDE DEF a, f
  <2>6. QED
    BY <2>1, <2>4, <2>5, TransmitIs
<1>3. QED
  BY <1>1, <1>2

\* T200 in the place of timer x, which is off now: that can only be T203, after a poll.
LEMMA T200ExpireIs ==
  ASSUME NEW s, NEW n \in Nat, NEW m, Sound(s, n, m), Watched(s),
         NEW x \in Timers, s.on[x] = "t200"
  PROVE  LET t == T200Expire([s EXCEPT !.on[x] = "off"])
         IN  Sound(t, n, m) /\ Watched(t) /\ t.up = s.up
<1> DEFINE z == [s EXCEPT !.on[x] = "off"]
           t == T200Expire(z)
<1>0. /\ "sabme" \in Timers /\ "t203" \in Timers /\ "t200" \in Timers /\ "off" \in Events /\ "t200" \in Events
      /\ "sabme" \in Timers \ {"t200"} /\ "t203" \in Timers \ {"t200"}
      /\ "on" \in Fields \ {"v_na", "out"} /\ "queue" \in Fields \ {"on"}
  BY DEF Timers, Events, Fields
<1>1. s.state = "established" /\ s.on["sabme"] = "off" /\ (x = "t200" \/ (x = "t203" /\ s.solicit))
  <2>1. x \in {"t200", "t203", "sabme"}
    BY DEF Timers
  <2>2. x # "sabme"
    BY DEF Watched, Half
  <2>3. CASE x = "t200"
    BY <2>3 DEF Watched, Half
  <2>4. CASE x = "t203"
    BY <2>4 DEF Watched, Half
  <2>5. QED
    BY <2>1, <2>2, <2>3, <2>4
<1>2. z = Start(s, x, "off")
  BY DEF Start
<1> HIDE DEF z
<1>3. /\ Sound(z, n, m) /\ z.on[x] = "off" /\ \A y \in Timers \ {x} : z.on[y] = s.on[y]
      /\ \A y \in Fields \ {"on"} : z[y] = s[y]
  <2>1. Sound(z, n, m) /\ Timed(s, z, x, "off")
    BY <1>0, <1>2, Starts
  <2>2. QED
    BY <2>1 DEF Timed
<1>4. /\ z.state = "established" /\ z.queue = s.queue /\ z.solicit = s.solicit /\ z.up = s.up
      /\ z.on["sabme"] = "off" /\ z.on["t200"] \in {"off", "t200"}
      /\ z.on["t203"] \in {"off", "t203", "t200"}
  <2>1. z.state = "established" /\ z.queue = s.queue /\ z.solicit = s.solicit /\ z.up = s.up
    BY <1>1, <1>3 DEF Fields
  <2>2. z.on["sabme"] = "off"
    BY <1>0, <1>1, <1>3
  <2>3. z.on["t200"] \in {"off", "t200"} /\ z.on["t203"] \in {"off", "t203", "t200"}
    BY <1>0, <1>1, <1>3 DEF Watched, Half
  <2>4. QED
    BY <2>1, <2>2, <2>3
\* Nothing to do: then T203 is on.
<1>5. CASE z.queue = <<>> /\ ~z.solicit
  <2>1. t = [z EXCEPT !.on["t200"] = "off"]
    BY <1>5 DEF T200Expire
  <2>2. t = Start(z, "t200", "off")
    BY <2>1 DEF Start
  <2> HIDE DEF t
  <2>3. x = "t200" /\ s.on["t203"] \in {"t203", "off", "t200"} /\ s.on["t203"] # "off" /\ s.on["t203"] # "t200"
    BY <1>1, <1>4, <1>5 DEF Watched
  <2>4. z.on["t203"] = "t203"
    BY <1>0, <1>3, <2>3
  <2>5. /\ Sound(t, n, m) /\ t.on["t200"] = "off" /\ t.on["t203"] = "t203" /\ t.on["sabme"] = "off"
        /\ t.state = "established" /\ t.up = s.up
    <3>1. Sound(t, n, m) /\ Timed(z, t, "t200", "off")
      BY <1>0, <1>3, <2>2, Starts
    <3>2. QED
      BY <3>1, <1>4, <2>4 DEF Timed, Fields, Timers
  <2>6. Watched(t)
    BY <2>5 DEF Watched, Half
  <2>7. QED
    BY <2>5, <2>6 DEF t, z
<1>6. CASE ~(z.queue = <<>> /\ ~z.solicit) /\ z.retrans >= N200
  <2> DEFINE y == [z EXCEPT !.on["t200"] = "off"]
  <2>1. t = GiveUp(y)
    BY <1>6 DEF T200Expire
  <2>2. y = Start(z, "t200", "off")
    BY DEF Start
  <2> HIDE DEF y
  <2>3. Sound(y, n, m) /\ y.up = s.up
    <3>1. Sound(y, n, m) /\ Timed(z, y, "t200", "off")
      BY <1>0, <1>3, <2>2, Starts
    <3>2. QED
      BY <3>1, <1>4 DEF Timed, Fields, Timers
  <2>4. QED
    BY <2>1, <2>3, GiveUpIs DEF z
<1>7. CASE ~(z.queue = <<>> /\ ~z.solicit) /\ ~(z.retrans >= N200)
  <2> DEFINE k == z.retrans + 1
             a == [z EXCEPT !.solicit = TRUE, !.retrans = k]
             b == IF z.queue = <<>> \/ z.busy THEN SendRR(a, TRUE, TRUE) ELSE RetransmitLast(a)
  <2>1. t = Start(b, "t200", "t200")
    BY <1>7 DEF T200Expire
  <2>2. k \in 0 .. N200
    <3>1. z.retrans \in 0 .. N200
      BY <1>3 DEF Sound
    <3>2. \A i \in 0 .. N200 : ~(i >= N200) => i + 1 \in 0 .. N200
      BY ConstantsAre
    <3>3. QED
      BY <1>7, <3>1, <3>2
  <2> HIDE DEF k
  <2>3. /\ Sound(a, n, m) /\ a.solicit = TRUE /\ a.on = z.on /\ a.state = z.state /\ a.up = z.up
    BY <1>3, <2>2 DEF Sound, Fields
  <2> HIDE DEF a
  <2>4. Sound(b, n, m) /\ \A y \in Fields \ {"v_na", "out"} : b[y] = a[y]
    BY <2>3, SendRRIs, RetransmitLastIs
  <2> HIDE DEF b
  <2>5. b.on = z.on /\ b.solicit = TRUE /\ b.state = "established" /\ b.up = s.up
    BY <1>4, <2>3, <2>4 DEF Fields
  <2>6. /\ Sound(t, n, m) /\ t.on["t200"] = "t200" /\ t.on["t203"] = z.on["t203"] /\ t.on["sabme"] = "off"
        /\ t.solicit = TRUE /\ t.state = "established" /\ t.up = s.up
    <3>1. Sound(t, n, m) /\ Timed(b, t, "t200", "t200")
      BY <1>0, <2>1, <2>4, Starts
    <3>2. QED
      BY <3>1, <1>4, <2>5 DEF Timed, Fields, Timers
  <2>7. Watched(t)
    BY <1>4, <2>6 DEF Watched, Half
  <2>8. QED
    BY <2>6, <2>7 DEF t, z
<1>8. QED
  BY <1>5, <1>6, <1>7

\* T203 polls, and the guard of the poll takes its place.
LEMMA T203ExpireIs ==
  ASSUME NEW s, NEW n, NEW m, Sound(s, n, m), Watched(s), s.on["t203"] = "t203"
  PROVE  LET t == T203Expire([s EXCEPT !.on["t203"] = "off"])
         IN  Sound(t, n, m) /\ Watched(t) /\ t.up = s.up
<1> DEFINE z == [s EXCEPT !.on["t203"] = "off"]
           t == T203Expire(z)
<1>0. /\ "t203" \in Timers /\ "off" \in Events /\ "t200" \in Events
      /\ "sabme" \in Timers \ {"t203"} /\ "t200" \in Timers \ {"t203"}
      /\ 0 \in 0 .. N200
  BY ConstantsAre DEF Timers, Events
<1>1. z = Start(s, "t203", "off")
  BY DEF Start
<1> HIDE DEF z
<1>2. /\ Sound(z, n, m) /\ z.on["t203"] = "off" /\ z.on["t200"] = s.on["t200"]
      /\ z.on["sabme"] = s.on["sabme"] /\ z.state = s.state /\ z.up = s.up
  <2>1. Sound(z, n, m) /\ Timed(s, z, "t203", "off")
    BY <1>0, <1>1, Starts
  <2>2. QED
    BY <2>1, <1>0 DEF Timed, Fields, Timers
<1>3. CASE z.state # "established"
  <2>1. t = [z EXCEPT !.on["t203"] = "off"]
    BY <1>3 DEF T203Expire
  <2>2. t = Start(z, "t203", "off")
    BY <2>1 DEF Start
  <2> HIDE DEF t
  <2>3. /\ Sound(t, n, m) /\ t.on["t203"] = "off" /\ t.on["t200"] = s.on["t200"]
        /\ t.on["sabme"] = s.on["sabme"] /\ t.state = s.state /\ t.up = s.up
    <3>1. Sound(t, n, m) /\ Timed(z, t, "t203", "off")
      BY <1>0, <1>2, <2>2, Starts
    <3>2. QED
      BY <3>1, <1>2 DEF Timed, Fields, Timers
  <2>4. Watched(t)
    BY <1>2, <1>3, <2>3 DEF Watched, Half
  <2>5. QED
    BY <2>3, <2>4 DEF t, z
<1>4. CASE z.state = "established"
  <2> DEFINE a == [z EXCEPT !.solicit = TRUE, !.retrans = 0]
             b == SendRR(a, TRUE, TRUE)
  <2>1. t = Start(b, "t203", "t200")
    BY <1>4 DEF T203Expire
  <2>2. /\ Sound(a, n, m) /\ a.solicit = TRUE /\ a.on = z.on /\ a.state = z.state /\ a.up = z.up
    BY <1>0, <1>2 DEF Sound, Fields
  <2> HIDE DEF a
  <2>3. Sound(b, n, m) /\ \A y \in Fields \ {"v_na", "out"} : b[y] = a[y]
    BY <2>2, SendRRIs
  <2> HIDE DEF b
  <2>4. b.on = z.on /\ b.solicit = TRUE /\ b.state = "established" /\ b.up = s.up
    BY <1>2, <1>4, <2>2, <2>3 DEF Fields
  <2>5. /\ Sound(t, n, m) /\ t.on["t203"] = "t200" /\ t.on["t200"] = s.on["t200"]
        /\ t.on["sabme"] = s.on["sabme"] /\ t.solicit = TRUE /\ t.state = "established" /\ t.up = s.up
    <3>1. Sound(t, n, m) /\ Timed(b, t, "t203", "t200")
      BY <1>0, <2>1, <2>3, Starts
    <3>2. QED
      BY <3>1, <1>2, <2>4 DEF Timed, Fields, Timers
  <2>6. Watched(t)
    BY <1>2, <1>4, <2>5 DEF Watched, Half
  <2>7. QED
    BY <2>5, <2>6 DEF t, z
<1>5. QED
  BY <1>3, <1>4

\* Whatever timer expires, a timer is on afterwards that will do something.
LEMMA FireIs ==
  ASSUME NEW s, NEW n \in Nat, NEW m, Sound(s, n, m), Watched(s), NEW x \in Timers, s.on[x] # "off"
  PROVE  LET t == Fire(s, x)
         IN  Sound(t, n, m) /\ Watched(t) /\ t.up = s.up
<1> DEFINE z == [s EXCEPT !.on[x] = "off"]
           t == Fire(s, x)
<1>0. /\ "sabme" \in Timers /\ "off" \in Events
      /\ "t203" \in Timers \ {"sabme"} /\ "t200" \in Timers \ {"sabme"}
  BY DEF Timers, Events
<1>1. s.on[x] \in {"t200", "t203", "sabme"} /\ x \in {"t200", "t203", "sabme"}
  BY DEF Sound, Events, Timers
<1>2. CASE s.on[x] = "t200"
  <2>1. t = T200Expire(z)
    BY <1>2 DEF Fire
  <2>2. QED
    BY <1>2, <2>1, T200ExpireIs
<1>3. CASE s.on[x] = "t203"
  <2>1. t = T203Expire(z)
    BY <1>3 DEF Fire
  <2>2. x = "t203"
    BY <1>1, <1>3 DEF Watched, Half
  <2>3. QED
    BY <1>3, <2>1, <2>2, T203ExpireIs
<1>4. CASE s.on[x] = "sabme"
  <2>1. t = SendSabme(z, TRUE)
    BY <1>4 DEF Fire
  <2>2. x = "sabme"
    BY <1>1, <1>4 DEF Watched, Half
  <2>3. z = Start(s, x, "off")
    BY DEF Start
  <2>4. s.state # "established" /\ s.on["t200"] = "off" /\ s.on["t203"] \in {"off", "t203"}
    BY <1>4, <2>2 DEF Watched, Half
  <2> HIDE DEF z
  <2>5. Sound(z, n, m) /\ z.on["t203"] = s.on["t203"] /\ z.on["t200"] = s.on["t200"] /\ z.up = s.up
    <3>1. Sound(z, n, m) /\ Timed(s, z, x, "off")
      BY <1>0, <2>3, Starts
    <3>2. QED
      BY <3>1, <2>2 DEF Timed, Fields, Timers
  <2> HIDE DEF t
  <2>6. /\ Sound(t, n, m) /\ t.on["sabme"] = "sabme" /\ t.on["t200"] = "off"
        /\ t.on["t203"] \in {"off", "t203"} /\ t.state = "awaiting" /\ t.up = s.up
    <3>1. LET r == SendSabme(z, TRUE)
          IN  /\ Sound(r, n, m) /\ r.on["sabme"] = "sabme"
              /\ r.on["t200"] = z.on["t200"] /\ r.on["t203"] = z.on["t203"]
              /\ r.state = IF TRUE THEN "awaiting" ELSE z.state
              /\ \A y \in Fields \ {"state", "on", "out"} : r[y] = z[y]
      BY <2>5, SendSabmeIs
    <3>2. /\ Sound(t, n, m) /\ t.on["sabme"] = "sabme" /\ t.state = "awaiting"
          /\ t.on["t200"] = z.on["t200"] /\ t.on["t203"] = z.on["t203"]
      BY <2>1, <3>1
    <3>3. t.up = z.up
      BY <2>1, <3>1 DEF Fields
    <3>4. QED
      BY <2>4, <2>5, <3>2, <3>3
  <2>7. Watched(t)
    BY <2>6 DEF Watched, Half
  <2>8. QED
    BY <2>6, <2>7 DEF t
<1>5. QED
  BY <1>1, <1>2, <1>3, <1>4

-----------------------------------------------------------------------------
(* A frame arrives.                                                         *)

\* The link comes up: the SABME timer goes off.
LEMMA DchannelUpIs ==
  ASSUME NEW s, NEW n, NEW m, Sound(s, n, m), Half(s)
  PROVE  LET t == DchannelUp(s)
         IN  Sound(t, n, m) /\ Half(t) /\ t.up = s.up
<1> DEFINE a == Stop(s, "sabme")
           b == [a EXCEPT !.sentrej = FALSE, !.state = "established"]
           c == Start(b, "t203", "t203")
           t == SendQueued(c)
<1>0. /\ "t203" \in Timers /\ "t203" \in Events /\ "sabme" \in Timers
      /\ "sabme" \in Timers \ {"t203"} /\ "t200" \in Timers \ {"t203"} /\ "t200" \in Timers \ {"sabme"}
  BY DEF Timers, Events
<1>1. DchannelUp(s) = t
  BY DEF DchannelUp
<1>2. /\ Sound(a, n, m) /\ a.on["sabme"] = "off" /\ a.on["t200"] = s.on["t200"] /\ a.up = s.up
  BY <1>0, StopIs DEF Fields
<1> HIDE DEF a
<1>3. Sound(b, n, m) /\ b.state = "established" /\ b.on = a.on /\ b.up = a.up
  BY <1>2 DEF Sound, Fields
<1> HIDE DEF b
<1>4. /\ Sound(c, n, m) /\ c.on["sabme"] = "off" /\ c.on["t200"] = s.on["t200"] /\ c.up = s.up
      /\ c.state = "established"
  <2>1. Sound(c, n, m) /\ Timed(b, c, "t203", "t203")
    BY <1>0, <1>3, Starts
  <2>2. QED
    BY <2>1, <1>2, <1>3 DEF Timed, Fields, Timers
<1> HIDE DEF c
<1>5. /\ Sound(t, n, m) /\ t.on = c.on /\ t.up = s.up /\ t.state = "established"
  BY <1>4, SendQueuedIs DEF Fields
<1> HIDE DEF t
<1>6. Half(t)
  BY <1>4, <1>5 DEF Half
<1>7. QED
  BY <1>1, <1>5, <1>6

\* A station whose link is up, while it works on a frame.
Up(s, n, m) == Sound(s, n, m) /\ Half(s) /\ s.state = "established"

\* Half is about timers and state only.
LEMMA HalfStays ==
  ASSUME NEW s, NEW t, Half(s), t.on = s.on, t.state = s.state
  PROVE  Half(t)
BY DEF Half

\* Supervisory frames sent leave the link up.
LEMMA RRStaysUp ==
  ASSUME NEW s, NEW n, NEW m, Up(s, n, m), NEW p \in BOOLEAN, NEW cmd \in BOOLEAN
  PROVE  Up(SendRR(s, p, cmd), n, m) /\ Up(SendReject(s, p), n, m)
<1> DEFINE t == SendRR(s, p, cmd)
           u == SendReject(s, p)
<1>1. Sound(s, n, m) /\ Half(s) /\ s.state = "established"
  BY DEF Up
<1>2. Sound(t, n, m) /\ \A y \in Fields \ {"v_na", "out"} : t[y] = s[y]
  BY <1>1, SendRRIs
<1>3. Sound(u, n, m) /\ \A y \in Fields \ {"sentrej", "out"} : u[y] = s[y]
  BY <1>1, SendRejectIs
<1> HIDE DEF t, u
<1>4. t.on = s.on /\ t.state = s.state /\ u.on = s.on /\ u.state = s.state
  BY <1>2, <1>3 DEF Fields
<1>5. Up(t, n, m) /\ Up(u, n, m)
  BY <1>1, <1>2, <1>3, <1>4, HalfStays DEF Up
<1>6. QED
  BY <1>5 DEF t, u

\* An acknowledgement taken leaves the link up.
LEMMA AckStaysUp ==
  ASSUME NEW s, NEW n, NEW m, Up(s, n, m), NEW ack, NEW sendunsent \in BOOLEAN
  PROVE  Up(AckRx(s, ack, sendunsent), n, m)
<1> DEFINE t == AckRx(s, ack, sendunsent)
<1>1. Sound(s, n, m) /\ Half(s) /\ s.state = "established"
  BY DEF Up
<1>2. /\ Sound(t, n, m) /\ t.on["sabme"] = s.on["sabme"]
      /\ t.on["t200"] \in {"off", "t200", s.on["t200"]}
  BY <1>1, AckRxIs
<1>3. \A y \in Fields \ {"v_a", "queue", "retrans", "windowlen", "on", "out"} : t[y] = s[y]
  BY <1>1, AckRxIs
<1> HIDE DEF t
<1>4. t.state = "established"
  BY <1>1, <1>3 DEF Fields
<1>5. Half(t)
  BY <1>1, <1>2, <1>4 DEF Half
<1>6. QED
  BY <1>2, <1>4, <1>5 DEF Up, t

\* What a frame carries depends on its type.
LEMMA FrameIs ==
  ASSUME NEW m, NEW f \in Frame(m)
  PROVE  /\ f.type \in {"I", "RR", "RNR", "REJ", "SABME", "UA", "DM", "DISC"}
         /\ f.type = "I" => f.nr \in Num /\ f.p \in BOOLEAN /\ f.data \in 1 .. m
         /\ f.type \in {"RR", "RNR", "REJ"} => f.nr \in Num /\ f.p \in BOOLEAN /\ f.cmd \in BOOLEAN
<1>1. CASE f \in [type : {"I"}, ns : Num, nr : Num, p : BOOLEAN, data : 1 .. m]
  BY <1>1
<1>2. CASE f \in [type : {"RR", "RNR", "REJ"}, nr : Num, p : BOOLEAN, cmd : BOOLEAN]
  BY <1>2
<1>3. CASE f \in [type : {"SABME", "UA", "DM", "DISC"}]
  BY <1>3
<1>4. QED
  BY <1>1, <1>2, <1>3 DEF Frame

\* What layer 3 hands down while it works on a message: then there are k messages.
Told(replies, n, k) == (replies = <<>> /\ k = n) \/ (replies = <<n + 1>> /\ k = n + 1)

\* What layer 3 handed down only adds messages.
LEMMA ToldIs ==
  ASSUME NEW s, NEW n \in Nat, NEW m \in Nat, NEW k, NEW replies, Told(replies, n, k)
  PROVE  k \in Nat /\ n <= k /\ (Sound(s, n, m) => Sound(s, k, m))
<1>1. k \in Nat /\ n <= k
  BY DEF Told
<1>2. QED
  BY <1>1, SoundGrows

\* A message goes to layer 3, which may answer at once.
LEMMA DeliverIs ==
  ASSUME NEW s, NEW n \in Nat, NEW m \in Nat, Up(s, n, m), NEW data \in 1 .. m,
         NEW k, NEW replies, Told(replies, n, k)
  PROVE  Up(Deliver(s, data, replies), k, m)
<1> DEFINE p == Append(s.up, data)
           u == [s EXCEPT !.up = p]
           t == IF replies = <<>> THEN u ELSE TransmitIframe(u, Head(replies))
<1>1. Sound(s, n, m) /\ Half(s) /\ s.state = "established"
  BY DEF Up
<1>2. p \in Seq(1 .. m)
  <2>1. s.up \in Seq(1 .. m)
    BY <1>1 DEF Sound
  <2>2. QED
    BY <2>1
<1>3. Deliver(s, data, replies) = IF t.v_na # t.v_r THEN SendRR(t, FALSE, FALSE) ELSE t
  BY DEF Deliver
<1> HIDE DEF p
<1>4. Sound(u, n, m) /\ u.on = s.on /\ u.state = "established"
  BY <1>1, <1>2 DEF Sound, Fields
<1> HIDE DEF u
<1>5. Up(t, k, m)
  <2>1. CASE replies = <<>>
    <3>1. t = u /\ k = n
      BY <2>1 DEF Told
    <3> HIDE DEF t
    <3>2. QED
      BY <1>1, <1>4, <3>1 DEF Up, Half
  <2>2. CASE replies = <<n + 1>>
    <3>1. k = n + 1 /\ replies # <<>> /\ Head(replies) = n + 1
      BY <2>2 DEF Told
    <3>2. t = TransmitIframe(u, n + 1)
      BY <3>1
    <3> HIDE DEF t
    <3>3. Half(u)
      BY <1>1, <1>4, HalfStays
    <3>4. Sound(t, n + 1, m) /\ Watched(t) /\ t.state = u.state
      BY <1>4, <3>2, <3>3, SubmitWatched
    <3>5. QED
      BY <1>4, <3>1, <3>4 DEF Up, Watched
  <2>3. QED
    BY <2>1, <2>2 DEF Told
<1> HIDE DEF t
<1>6. CASE t.v_na # t.v_r
  <2>1. FALSE \in BOOLEAN
    OBVIOUS
  <2>2. QED
    BY <1>3, <1>5, <1>6, <2>1, RRStaysUp
<1>7. CASE ~(t.v_na # t.v_r)
  BY <1>3, <1>5, <1>7
<1>8. QED
  BY <1>6, <1>7

\* An I-frame in the established state: rejected, acknowledged, delivered, or the link given up.
LEMMA HandleIframeIs ==
  ASSUME NEW s, NEW n \in Nat, NEW m \in Nat, Up(s, n, m), NEW f \in Frame(m), f.type = "I",
         NEW k, NEW replies, Told(replies, n, k)
  PROVE  Sound(HandleIframe(s, f, replies), k, m) /\ Half(HandleIframe(s, f, replies))
<1> DEFINE v == (s.v_r + 1) % Mod
           c == [s EXCEPT !.solicit = FALSE]
           b == [c EXCEPT !.v_r = v, !.sentrej = FALSE]
           a == AckRx(b, f.nr, FALSE)
           r == IF f.p THEN SendRR(a, TRUE, FALSE)
                ELSE IF a.busy \/ a.retrans > 0 THEN SendRR(a, FALSE, FALSE) ELSE a
           t == HandleIframe(s, f, replies)
<1>0. f.p \in BOOLEAN /\ f.data \in 1 .. m /\ TRUE \in BOOLEAN /\ FALSE \in BOOLEAN
  BY FrameIs
<1>1. Sound(s, n, m) /\ Half(s) /\ s.state = "established"
  BY DEF Up
<1>2. v \in Num
  <2>1. s.v_r \in Num
    BY <1>1 DEF Sound
  <2>2. s.v_r + 1 \in Int
    BY <2>1 DEF Num
  <2>3. QED
    BY <2>2, ConstantsAre
<1>3. t = IF ~Expected(s, f)
          THEN IF ~s.sentrej THEN SendReject(c, f.p)
               ELSE IF f.p THEN SendRR(c, TRUE, FALSE) ELSE c
          ELSE IF ~InWindow(b, f.nr) THEN GiveUp(b) ELSE Deliver(r, f.data, replies)
  BY DEF HandleIframe
<1> HIDE DEF t, v
<1>4. Sound(c, n, m) /\ c.on = s.on /\ c.state = s.state
  BY <1>1 DEF Sound, Fields
<1> HIDE DEF c
<1>5. Up(c, n, m)
  BY <1>1, <1>4, HalfStays DEF Up
<1>6. Sound(b, n, m) /\ b.on = c.on /\ b.state = c.state
  BY <1>2, <1>4 DEF Sound, Fields
<1> HIDE DEF b
<1>7. Up(b, n, m)
  BY <1>1, <1>4, <1>6, HalfStays DEF Up
<1>8. Up(a, n, m)
  BY <1>0, <1>7, AckStaysUp
<1> HIDE DEF a
<1>9. Up(r, n, m)
  BY <1>0, <1>8, RRStaysUp
<1> HIDE DEF r
<1>10. Up(t, n, m) => Sound(t, k, m) /\ Half(t)
  BY ToldIs DEF Up
<1>11. CASE ~Expected(s, f)
  <2>1. Up(SendReject(c, f.p), n, m) /\ Up(SendRR(c, TRUE, FALSE), n, m)
    BY <1>0, <1>5, RRStaysUp
  <2>2. QED
    BY <1>3, <1>5, <1>10, <1>11, <2>1 DEF t
<1>12. CASE Expected(s, f) /\ ~InWindow(b, f.nr)
  <2>1. t = GiveUp(b)
    BY <1>3, <1>12
  <2>2. Sound(t, n, m) /\ Half(t)
    BY <1>6, <2>1, GiveUpIs
  <2>3. QED
    BY <2>2, ToldIs DEF t
<1>13. CASE Expected(s, f) /\ InWindow(b, f.nr)
  <2>1. t = Deliver(r, f.data, replies)
    BY <1>3, <1>13
  <2>2. Up(t, k, m)
    BY <1>0, <1>9, <2>1, DeliverIs
  <2>3. QED
    BY <2>2 DEF Up, t
<1>14. QED
  BY <1>11, <1>12, <1>13

\* An RR in the established state.
LEMMA ReceiveRRIs ==
  ASSUME NEW s, NEW n \in Nat, NEW m \in Nat, Up(s, n, m), NEW f \in Frame(m), f.type = "RR"
  PROVE  Sound(ReceiveRR(s, f), n, m) /\ Half(ReceiveRR(s, f))
<1> DEFINE b == [s EXCEPT !.busy = FALSE]
           a == AckRx(b, f.nr, TRUE)
           q == [a EXCEPT !.solicit = FALSE]
           c == IF f.cmd THEN q ELSE a
           d == [c EXCEPT !.retrans = 0]
           t == ReceiveRR(s, f)
<1>0. f.p \in BOOLEAN /\ f.cmd \in BOOLEAN /\ TRUE \in BOOLEAN /\ FALSE \in BOOLEAN /\ 0 \in 0 .. N200
  BY FrameIs, ConstantsAre
<1>1. Sound(s, n, m) /\ Half(s) /\ s.state = "established"
  BY DEF Up
<1>2. t = IF ~InWindow(b, f.nr) THEN GiveUp(b)
          ELSE IF ~f.p THEN c ELSE IF f.cmd THEN SendRR(c, TRUE, FALSE) ELSE d
  BY DEF ReceiveRR
<1> HIDE DEF t
<1>3. Sound(b, n, m) /\ b.on = s.on /\ b.state = s.state
  BY <1>1 DEF Sound, Fields
<1> HIDE DEF b
<1>4. Up(b, n, m)
  BY <1>1, <1>3, HalfStays DEF Up
<1>5. Up(a, n, m)
  BY <1>0, <1>4, AckStaysUp
<1> HIDE DEF a
<1>6. Sound(a, n, m) /\ Half(a) /\ a.state = "established"
  BY <1>5 DEF Up
<1>7. Sound(q, n, m) /\ q.on = a.on /\ q.state = a.state
  BY <1>6 DEF Sound, Fields
<1> HIDE DEF q
<1>8. Up(c, n, m)
  BY <1>5, <1>6, <1>7, HalfStays DEF Up
<1> HIDE DEF c
<1>9. Sound(c, n, m) /\ Half(c) /\ c.state = "established"
  BY <1>8 DEF Up
<1>10. Sound(d, n, m) /\ d.on = c.on /\ d.state = c.state
  BY <1>0, <1>9 DEF Sound, Fields
<1> HIDE DEF d
<1>11. Up(d, n, m) /\ Up(SendRR(c, TRUE, FALSE), n, m)
  BY <1>0, <1>8, <1>9, <1>10, HalfStays, RRStaysUp DEF Up
<1>12. Sound(GiveUp(b), n, m) /\ Half(GiveUp(b))
  BY <1>3, GiveUpIs
<1>13. QED
  BY <1>0, <1>2, <1>8, <1>11, <1>12 DEF Up, t

\* An RNR in the established state: T200 polls the busy peer.
LEMMA ReceiveRNRIs ==
  ASSUME NEW s, NEW n \in Nat, NEW m \in Nat, Up(s, n, m), NEW f \in Frame(m), f.type = "RNR"
  PROVE  Sound(ReceiveRNR(s, f), n, m) /\ Half(ReceiveRNR(s, f))
<1> DEFINE b == [s EXCEPT !.busy = TRUE]
           a == AckRx(b, f.nr, FALSE)
           r == IF f.p /\ f.cmd THEN SendRR(a, TRUE, FALSE) ELSE a
           q == [r EXCEPT !.solicit = TRUE, !.retrans = 0]
           d == Stop(q, "t203")
           g == Again(d, "t200")
           t == ReceiveRNR(s, f)
<1>0. /\ f.p \in BOOLEAN /\ f.cmd \in BOOLEAN /\ TRUE \in BOOLEAN /\ FALSE \in BOOLEAN /\ 0 \in 0 .. N200
      /\ "t203" \in Timers /\ "t200" \in Timers /\ "t200" \in Events /\ "off" \in Events
      /\ "sabme" \in Timers \ {"t203"} /\ "sabme" \in Timers \ {"t200"}
      /\ "state" \in Fields \ {"on"}
  BY FrameIs, ConstantsAre DEF Timers, Events, Fields
<1>1. Sound(s, n, m) /\ Half(s) /\ s.state = "established"
  BY DEF Up
<1>2. t = IF ~InWindow(b, f.nr) THEN GiveUp(b) ELSE g
  BY DEF ReceiveRNR
<1> HIDE DEF t
<1>3. Sound(b, n, m) /\ b.on = s.on /\ b.state = s.state
  BY <1>1 DEF Sound, Fields
<1> HIDE DEF b
<1>4. Up(b, n, m)
  BY <1>1, <1>3, HalfStays DEF Up
<1>5. Up(a, n, m)
  BY <1>0, <1>4, AckStaysUp
<1> HIDE DEF a
<1>6. Up(r, n, m)
  BY <1>0, <1>5, RRStaysUp
<1> HIDE DEF r
<1>7. Sound(r, n, m) /\ Half(r) /\ r.state = "established"
  BY <1>6 DEF Up
<1>8. Sound(q, n, m) /\ q.on = r.on /\ q.state = r.state
  BY <1>0, <1>7 DEF Sound, Fields
<1> HIDE DEF q
<1>9. d = Start(q, "t203", "off")
  BY DEF Stop, Start
<1>10. g = Start(d, "t200", "t200")
  BY DEF Again
<1> HIDE DEF d, g
<1>11. Sound(d, n, m) /\ Timed(q, d, "t203", "off")
  BY <1>0, <1>8, <1>9, Starts
<1>12. Sound(g, n, m) /\ Timed(d, g, "t200", "t200")
  BY <1>0, <1>10, <1>11, Starts
<1>13. g.on["t200"] = "t200" /\ g.on["sabme"] = r.on["sabme"] /\ g.state = "established"
  BY <1>0, <1>7, <1>8, <1>11, <1>12 DEF Timed
<1>14. Half(g)
  BY <1>7, <1>13 DEF Half
<1>15. Sound(GiveUp(b), n, m) /\ Half(GiveUp(b))
  BY <1>3, GiveUpIs
<1>16. QED
  BY <1>2, <1>12, <1>14, <1>15 DEF t

\* What is sent again after a reject leaves timers and queue.
LEMMA ResendIs ==
  ASSUME NEW s, NEW n, NEW m, Sound(s, n, m), NEW nr
  PROVE  LET t == Resend(s, nr)
         IN  Sound(t, n, m) /\ t.on = s.on /\ t.state = s.state
<1> DEFINE again == Resent(s, nr)
           w == s.windowlen + Cardinality(again \cap Unsent(s))
           o == s.out \o IFrames(s, Only(s.queue, again))
           t == [s EXCEPT !.windowlen = w, !.out = o]
<1>1. s.queue \in Seq(Entry(n)) /\ DOMAIN s = Fields /\ s.windowlen \in Int /\ s.out \in Seq(Frame(n))
  BY DEF Sound
<1>2. again \in SUBSET DOMAIN s.queue /\ (again \cap Unsent(s)) \in SUBSET DOMAIN s.queue
  BY DEF Resent
<1>3. Resend(s, nr) = t
  BY DEF Resend
<1> HIDE DEF again
<1>4. Only(s.queue, again) \in Seq(Entry(n)) /\ Cardinality(again \cap Unsent(s)) \in Nat
  BY <1>1, <1>2, OnlyIs
<1>5. w \in Int
  BY <1>1, <1>4
<1>6. o \in Seq(Frame(n))
  <2>1. IFrames(s, Only(s.queue, again)) \in Seq(Frame(n))
    BY <1>4, IFramesAre
  <2>2. QED
    BY <1>1, <2>1
<1> HIDE DEF w, o
<1>7. Sound(t, n, m) /\ t.on = s.on /\ t.state = s.state
  BY <1>5, <1>6 DEF Sound, Fields
<1>8. QED
  BY <1>3, <1>7

\* A reject that acknowledges too much: the link is given up, and yet the rest done.
LEMMA ReceiveREJIs ==
  ASSUME NEW s, NEW n \in Nat, NEW m \in Nat, Up(s, n, m), NEW f \in Frame(m), f.type = "REJ"
  PROVE  Sound(ReceiveREJ(s, f), n, m) /\ Half(ReceiveREJ(s, f))
<1> DEFINE Sol == s.solicit /\ ~(s.busy /\ ~f.cmd)
           b == [s EXCEPT !.solicit = Sol, !.busy = FALSE]
           r == IF f.cmd /\ f.p THEN SendRR(b, TRUE, FALSE) ELSE b
           a == IF InWindow(r, f.nr) THEN AckRx(r, f.nr, FALSE) ELSE GiveUp(r)
           c == [a EXCEPT !.solicit = FALSE, !.retrans = 0]
           h == [c EXCEPT !.v_a = f.nr, !.v_s = f.nr]
           e == IF c.queue = <<>> THEN h ELSE Resend(c, f.nr)
           d == Stop(e, "t200")
           g == Again(d, "t203")
           t == ReceiveREJ(s, f)
<1>0. /\ f.p \in BOOLEAN /\ f.cmd \in BOOLEAN /\ TRUE \in BOOLEAN /\ FALSE \in BOOLEAN /\ 0 \in 0 .. N200
      /\ "t203" \in Timers /\ "t200" \in Timers /\ "t203" \in Events /\ "off" \in Events
      /\ "sabme" \in Timers \ {"t203"} /\ "sabme" \in Timers \ {"t200"}
      /\ "t200" \in Timers \ {"t203"} /\ "state" \in Fields \ {"on"}
      /\ f.nr \in Num
  BY FrameIs, ConstantsAre DEF Timers, Events, Fields
<1>1. Sound(s, n, m) /\ Half(s) /\ s.state = "established"
  BY DEF Up
<1>2. t = IF a.solicit /\ (f.cmd \/ ~f.p) THEN a ELSE g
  BY DEF ReceiveREJ
<1>3. Sol \in BOOLEAN
  OBVIOUS
<1> HIDE DEF t, Sol
<1>4. Sound(b, n, m) /\ b.on = s.on /\ b.state = s.state
  BY <1>1, <1>3 DEF Sound, Fields
<1> HIDE DEF b
<1>5. Up(b, n, m)
  BY <1>1, <1>4, HalfStays DEF Up
<1>6. Up(r, n, m)
  BY <1>0, <1>5, RRStaysUp
<1> HIDE DEF r
<1>7. Sound(a, n, m) /\ Half(a)
  <2>1. Up(AckRx(r, f.nr, FALSE), n, m)
    BY <1>0, <1>6, AckStaysUp
  <2>2. Sound(GiveUp(r), n, m) /\ Half(GiveUp(r))
    BY <1>6, GiveUpIs DEF Up
  <2>3. QED
    BY <2>1, <2>2 DEF Up
<1> HIDE DEF a
<1>8. Sound(c, n, m) /\ c.on = a.on /\ c.state = a.state
  BY <1>0, <1>7 DEF Sound, Fields
<1> HIDE DEF c
<1>9. f.nr \in 0 .. n + Mod - 1
  <2>1. Num \subseteq 0 .. n + Mod - 1
    BY ConstantsAre DEF Num
  <2>2. QED
    BY <1>0, <2>1
<1>10. Sound(h, n, m) /\ h.on = c.on /\ h.state = c.state
  <2> DEFINE nr == f.nr
  <2>1. nr \in Num /\ nr \in 0 .. n + Mod - 1
    BY <1>0, <1>9
  <2> HIDE DEF nr
  <2>2. h = [c EXCEPT !.v_a = nr, !.v_s = nr]
    BY DEF nr
  <2>3. QED
    BY <1>8, <2>1, <2>2 DEF Sound, Fields
<1> HIDE DEF h
<1>11. Sound(e, n, m) /\ e.on = a.on /\ e.state = a.state
  BY <1>8, <1>10, ResendIs
<1> HIDE DEF e
<1>12. d = Start(e, "t200", "off")
  BY DEF Stop, Start
<1>13. g = Start(d, "t203", "t203")
  BY DEF Again
<1> HIDE DEF d, g
<1>14. Sound(d, n, m) /\ Timed(e, d, "t200", "off")
  BY <1>0, <1>11, <1>12, Starts
<1>15. Sound(g, n, m) /\ Timed(d, g, "t203", "t203")
  BY <1>0, <1>13, <1>14, Starts
<1>16. g.on["t200"] = "off" /\ g.on["sabme"] = a.on["sabme"] /\ g.state = a.state
  BY <1>0, <1>11, <1>14, <1>15 DEF Timed
<1>17. Half(g)
  BY <1>7, <1>16 DEF Half
<1>18. QED
  BY <1>2, <1>7, <1>15, <1>17 DEF t

\* Any frame in any state.
LEMMA QualifiedIs ==
  ASSUME NEW s, NEW n \in Nat, NEW m \in Nat, Sound(s, n, m), Half(s), NEW f \in Frame(m),
         NEW k, NEW replies, Told(replies, n, k)
  PROVE  Sound(Qualified(s, f, replies), k, m) /\ Half(Qualified(s, f, replies))
<1> DEFINE t == Qualified(s, f, replies)
           u == Transmit(s, UFrame("UA"))
<1>1. f.type \in {"I", "RR", "RNR", "REJ", "SABME", "UA", "DM", "DISC"}
  BY FrameIs
<1>2. Sound(u, n, m) /\ Half(u)
  <2>1. UFrame("UA") \in Frame(n) /\ TRUE \in BOOLEAN
    BY FramesAre
  <2>2. Sound(u, n, m) /\ \A y \in Fields \ {"out"} : u[y] = s[y]
    BY <2>1, TransmitIs
  <2> HIDE DEF u
  <2>3. u.on = s.on /\ u.state = s.state
    BY <2>2 DEF Fields
  <2>4. QED
    BY <2>2, <2>3, HalfStays
<1>3. \A x : Sound(x, n, m) => Sound(x, k, m)
  BY ToldIs
<1> HIDE DEF u
<1>4. CASE f.type \in {"I", "RR", "RNR", "REJ"} /\ s.state # "established"
  <2>1. t = s
    BY <1>4 DEF Qualified
  <2>2. QED
    BY <1>3, <2>1
<1>5. CASE f.type \in {"I", "RR", "RNR", "REJ"} /\ s.state = "established"
  <2>0. Up(s, n, m)
    BY <1>5 DEF Up
  <2>1. CASE f.type = "I"
    <3>1. t = HandleIframe(s, f, replies)
      BY <1>5, <2>1 DEF Qualified
    <3>2. QED
      BY <2>0, <2>1, <3>1, HandleIframeIs
  <2>2. CASE f.type = "RR"
    <3>1. t = ReceiveRR(s, f)
      BY <1>5, <2>2 DEF Qualified
    <3>2. QED
      BY <1>3, <2>0, <2>2, <3>1, ReceiveRRIs
  <2>3. CASE f.type = "RNR"
    <3>1. t = ReceiveRNR(s, f)
      BY <1>5, <2>3 DEF Qualified
    <3>2. QED
      BY <1>3, <2>0, <2>3, <3>1, ReceiveRNRIs
  <2>4. CASE f.type = "REJ"
    <3>1. t = ReceiveREJ(s, f)
      BY <1>5, <2>4 DEF Qualified
    <3>2. QED
      BY <1>3, <2>0, <2>4, <3>1, ReceiveREJIs
  <2>5. QED
    BY <1>5, <2>1, <2>2, <2>3, <2>4
<1>6. CASE f.type = "SABME"
  <2>1. t = DchannelUp(u)
    BY <1>6 DEF Qualified, u
  <2>2. QED
    BY <1>2, <1>3, <2>1, DchannelUpIs
<1>7. CASE f.type = "UA"
  <2>1. t = IF s.state = "awaiting" THEN DchannelUp(s) ELSE s
    BY <1>7 DEF Qualified
  <2>2. Sound(DchannelUp(s), n, m) /\ Half(DchannelUp(s))
    BY DchannelUpIs
  <2>3. QED
    BY <1>3, <2>1, <2>2
<1>8. CASE f.type = "DM"
  <2>1. t = LinkDown(s)
    BY <1>8 DEF Qualified
  <2>2. QED
    BY <1>3, <2>1, GiveUpIs
<1>9. CASE f.type = "DISC"
  <2>1. t = LinkDown(u)
    BY <1>9 DEF Qualified, u
  <2>2. QED
    BY <1>2, <1>3, <2>1, GiveUpIs
<1>10. QED
  BY <1>1, <1>4, <1>5, <1>6, <1>7, <1>8, <1>9

\* After every frame some timer is on.
LEMMA ReceiveIs ==
  ASSUME NEW s, NEW n \in Nat, NEW m \in Nat, Sound(s, n, m), Half(s), NEW f \in Frame(m),
         NEW k, NEW replies, Told(replies, n, k)
  PROVE  Sound(Receive(s, f, replies), k, m) /\ Watched(Receive(s, f, replies))
<1> DEFINE q == Qualified(s, f, replies)
           t == Receive(s, f, replies)
<1>0. "t203" \in Timers /\ "t203" \in Events
      /\ "sabme" \in Timers \ {"t203"} /\ "t200" \in Timers \ {"t203"} /\ "state" \in Fields \ {"on"}
  BY DEF Timers, Events, Fields
<1>1. Sound(q, k, m) /\ Half(q)
  BY QualifiedIs
<1>2. t = Start(q, "t203", "t203")
  BY DEF Receive, Again
<1> HIDE DEF q, t
<1>3. Sound(t, k, m) /\ Timed(q, t, "t203", "t203")
  BY <1>0, <1>1, <1>2, Starts
<1>4. /\ t.on["t203"] = "t203" /\ t.on["t200"] = q.on["t200"] /\ t.on["sabme"] = q.on["sabme"]
      /\ t.state = q.state
  BY <1>0, <1>3 DEF Timed
<1>5. Watched(t)
  BY <1>1, <1>4 DEF Watched, Half
<1>6. QED
  BY <1>3, <1>5 DEF t

-----------------------------------------------------------------------------
(* The two ends.                                                            *)

\* There are two ends.
LEMMA PeerIs ==
  ASSUME NEW e \in Ends
  PROVE  Peer(e) \in Ends /\ Peer(e) # e /\ Peer(Peer(e)) = e /\ \A x \in Ends : x = e \/ x = Peer(e)
BY DEF Ends, Peer

\* Taking away what a step transmitted leaves the timers.
LEMMA SettledIs ==
  ASSUME NEW s, NEW n, NEW m, Sound(s, n, m), Watched(s)
  PROVE  LET t == Settled(s)
         IN  Sound(t, n, m) /\ Watched(t) /\ t.out = <<>> /\ t.up = <<>> /\ t.event = "none"
<1> DEFINE t == [s EXCEPT !.out = <<>>, !.up = <<>>, !.event = "none"]
<1>1. <<>> \in Seq(Frame(n)) /\ <<>> \in Seq(1 .. m)
  OBVIOUS
<1>2. Sound(t, n, m)
  BY <1>1 DEF Sound, Fields
<1>3. /\ t.on = s.on /\ t.state = s.state /\ t.queue = s.queue /\ t.solicit = s.solicit
      /\ t.out = <<>> /\ t.up = <<>> /\ t.event = "none"
  BY DEF Sound, Fields
<1> HIDE DEF t
<1>4. Watched(t)
  BY <1>3, HalfStays DEF Watched
<1>5. QED
  BY <1>2, <1>3, <1>4 DEF Settled, t

\* The line holds frames of the sender, MaxWire at most.
LEMMA OnLineIs ==
  ASSUME NEW m, NEW q \in Seq(Frame(m)), NEW o \in Seq(Frame(m))
  PROVE  OnLine(q \o o) \in Seq(Frame(m)) /\ Len(OnLine(q \o o)) <= MaxWire
<1> DEFINE l == q \o o
           k == IF Len(l) < MaxWire THEN Len(l) ELSE MaxWire
<1>1. l \in Seq(Frame(m)) /\ Len(l) \in Nat
  OBVIOUS
<1>2. MaxWire \in Nat
  BY LinkAssumption
<1>3. OnLine(l) = SubSeq(l, 1, k)
  BY DEF OnLine
<1> HIDE DEF l
<1>4. k \in 0 .. Len(l) /\ k <= MaxWire
  BY <1>1, <1>2
<1> HIDE DEF k
<1>5. SubSeq(l, 1, k) \in Seq(Frame(m)) /\ Len(SubSeq(l, 1, k)) = k
  BY <1>1, <1>4
<1>6. QED
  BY <1>3, <1>4, <1>5 DEF l

\* End e becomes s, and has k messages submitted.
LEMMA BecomesKeeps ==
  ASSUME IInv, NEW e \in Ends, NEW s, NEW rest, NEW k \in Nat, submitted[e] <= k,
         Sound(s, k, submitted[Peer(e)]), Watched(s),
         rest \in Seq(Frame(submitted[Peer(e)])), Len(rest) <= MaxWire,
         Becomes(e, s, rest), submitted' = [submitted EXCEPT ![e] = k],
         foreign' \in Nat, stale' \in BOOLEAN, Within(submitted', foreign')
  PROVE  IInv'
<1> DEFINE p == Peer(e)
           t == Settled(s)
<1>0. /\ p \in Ends /\ p # e /\ Peer(p) = e /\ \A x \in Ends : x = e \/ x = p
  BY PeerIs
<1>1. /\ DOMAIN station = Ends /\ DOMAIN wire = Ends /\ submitted \in [Ends -> Nat] /\ DOMAIN last = Ends
      /\ EndInv(e) /\ EndInv(p)
      /\ downs \in 0 .. MaxDown
  BY <1>0 DEF IInv
<1>2. /\ submitted[e] \in Nat /\ submitted[p] \in Nat
      /\ submitted'[e] = k /\ submitted'[p] = submitted[p] /\ submitted' \in [Ends -> Nat]
  BY <1>0, <1>1
<1>3. /\ station' = [station EXCEPT ![e] = t]
      /\ wire' = [wire EXCEPT ![e] = rest, ![p] = OnLine(wire[p] \o s.out)]
      /\ last' = [last EXCEPT ![e] = IF s.up = <<>> THEN last[e] ELSE Head(s.up)]
      /\ downs' = IF s.event = "down" THEN downs + 1 ELSE downs
      /\ downs' <= MaxDown
  <2>1. wire' = [wire EXCEPT ![e] = rest, ![p] = OnLine(wire[p] \o s.out)]
    BY <1>0, <1>1 DEF Becomes
  <2>2. QED
    BY <2>1 DEF Becomes
<1>4. /\ station'[e] = t /\ station'[p] = station[p] /\ DOMAIN station' = Ends
      /\ wire'[e] = rest /\ wire'[p] = OnLine(wire[p] \o s.out) /\ DOMAIN wire' = Ends
      /\ last'[e] = (IF s.up = <<>> THEN last[e] ELSE Head(s.up)) /\ last'[p] = last[p]
      /\ DOMAIN last' = Ends
  BY <1>0, <1>1, <1>3
<1>5. Sound(t, k, submitted[p]) /\ Watched(t) /\ t.out = <<>> /\ t.up = <<>> /\ t.event = "none"
  BY SettledIs
<1> HIDE DEF t
<1>6. EndInv(e)'
  <2>1. last'[e] \in 0 .. submitted[p]
    <3>1. s.up \in Seq(1 .. submitted[p])
      BY DEF Sound
    <3>2. s.up # <<>> => Head(s.up) \in 1 .. submitted[p]
      BY <3>1, HeadTailProperties
    <3>3. last[e] \in 0 .. submitted[p]
      BY <1>1 DEF EndInv
    <3>4. (1 .. submitted[p]) \subseteq (0 .. submitted[p])
      BY <1>2
    <3>5. QED
      BY <1>4, <3>2, <3>3, <3>4
  <2>2. QED
    BY <1>2, <1>4, <1>5, <2>1 DEF EndInv
<1>7. EndInv(p)'
  <2>1. /\ Sound(station[p], submitted[p], submitted[e]) /\ Watched(station[p])
        /\ station[p].out = <<>> /\ station[p].up = <<>> /\ station[p].event = "none"
        /\ wire[p] \in Seq(Frame(submitted[e])) /\ Len(wire[p]) <= MaxWire
        /\ last[p] \in 0 .. submitted[e]
    BY <1>0, <1>1 DEF EndInv
  <2>2. Sound(station[p], submitted[p], k)
    BY <1>2, <2>1, SoundGrows
  <2>3. wire[p] \in Seq(Frame(k))
    <3>1. Frame(submitted[e]) \subseteq Frame(k)
      <4>1. (1 .. submitted[e]) \subseteq (1 .. k)
        BY <1>2
      <4>2. QED
        BY <4>1 DEF Frame
    <3>2. QED
      BY <2>1, <3>1
  <2>4. s.out \in Seq(Frame(k))
    BY DEF Sound
  <2>5. wire'[p] \in Seq(Frame(k)) /\ Len(wire'[p]) <= MaxWire
    BY <1>4, <2>3, <2>4, OnLineIs
  <2>6. last'[p] \in 0 .. k
    <3>1. (0 .. submitted[e]) \subseteq (0 .. k)
      BY <1>2
    <3>2. QED
      BY <1>4, <2>1, <3>1
  <2>7. QED
    BY <1>0, <1>2, <1>4, <2>1, <2>2, <2>5, <2>6 DEF EndInv
<1>8. \A x \in Ends : EndInv(x)'
  BY <1>0, <1>6, <1>7
<1>9. downs' \in 0 .. MaxDown
  <2>1. MaxDown \in Nat
    BY LinkAssumption
  <2>2. QED
    BY <1>1, <1>3, <2>1
<1>10. QED
  BY <1>2, <1>4, <1>8, <1>9 DEF IInv

-----------------------------------------------------------------------------
(* The steps.                                                               *)

\* What the invariant says of one end.
LEMMA EndIs ==
  ASSUME IInv, NEW e \in Ends
  PROVE  /\ submitted[e] \in Nat /\ submitted[Peer(e)] \in Nat
         /\ Sound(station[e], submitted[e], submitted[Peer(e)]) /\ Watched(station[e]) /\ Half(station[e])
         /\ wire[e] \in Seq(Frame(submitted[Peer(e)])) /\ Len(wire[e]) <= MaxWire
         /\ submitted \in [Ends -> Nat] /\ foreign \in Nat /\ Within(submitted, foreign) /\ stale \in BOOLEAN
<1>1. EndInv(e) /\ EndInv(Peer(e))
  BY PeerIs DEF IInv
<1>2. QED
  BY <1>1 DEF EndInv, IInv, Watched, Ends, Peer

\* Layer 3 hands down a message.
LEMMA SubmitKeeps ==
  ASSUME IInv, NEW e \in Ends, Submit(e)
  PROVE  IInv'
<1> DEFINE n == submitted[e]
           s == TransmitIframe(station[e], n + 1)
<1>1. /\ Becomes(e, s, wire[e]) /\ submitted' = [submitted EXCEPT ![e] = n + 1]
      /\ foreign' = foreign /\ stale' = stale /\ Within([submitted EXCEPT ![e] = n + 1], foreign)
  BY DEF Submit, HasMessage
<1>2. n \in Nat /\ n + 1 \in Nat /\ n <= n + 1
  BY EndIs
<1>3. Sound(s, n + 1, submitted[Peer(e)]) /\ Watched(s)
  BY EndIs, SubmitWatched
<1>4. Within(submitted', foreign') /\ foreign' \in Nat /\ stale' \in BOOLEAN
  BY <1>1, EndIs
<1>5. wire[e] \in Seq(Frame(submitted[Peer(e)])) /\ Len(wire[e]) <= MaxWire
  BY EndIs
<1> HIDE DEF s
<1>6. QED
  BY <1>1, <1>2, <1>3, <1>4, <1>5, BecomesKeeps

\* A timer expires.
LEMMA ExpireKeeps ==
  ASSUME IInv, NEW e \in Ends, NEW timer \in Timers, Expire(e, timer)
  PROVE  IInv'
<1> DEFINE n == submitted[e]
           s == Fire(station[e], timer)
<1>1. /\ Becomes(e, s, wire[e]) /\ submitted' = submitted /\ foreign' = foreign /\ stale' = stale
      /\ station[e].on[timer] # "off"
  BY DEF Expire
<1>2. n \in Nat /\ n <= n
  BY EndIs
<1>3. Sound(s, n, submitted[Peer(e)]) /\ Watched(s)
  BY <1>1, EndIs, FireIs
<1>4. Within(submitted', foreign') /\ foreign' \in Nat /\ stale' \in BOOLEAN
      /\ submitted' = [submitted EXCEPT ![e] = n]
  BY <1>1, EndIs
<1>5. wire[e] \in Seq(Frame(submitted[Peer(e)])) /\ Len(wire[e]) <= MaxWire
  BY EndIs
<1> HIDE DEF s, n
<1>6. QED
  BY <1>1, <1>2, <1>3, <1>4, <1>5, BecomesKeeps DEF n

\* A frame is lost.
LEMMA LoseKeeps ==
  ASSUME IInv, NEW e \in Ends, Lose(e)
  PROVE  IInv'
<1> DEFINE w == Tail(wire[e])
<1>1. /\ wire' = [wire EXCEPT ![e] = w] /\ wire[e] # <<>>
      /\ UNCHANGED <<station, submitted, last, downs, foreign, stale>>
  BY DEF Lose
<1>2. w \in Seq(Frame(submitted[Peer(e)])) /\ Len(w) <= MaxWire
  <2>1. wire[e] \in Seq(Frame(submitted[Peer(e)])) /\ Len(wire[e]) <= MaxWire /\ MaxWire \in Nat
    BY EndIs, LinkAssumption
  <2>2. Tail(wire[e]) \in Seq(Frame(submitted[Peer(e)])) /\ Len(Tail(wire[e])) = Len(wire[e]) - 1
    BY <1>1, <2>1, HeadTailProperties
  <2>3. Len(wire[e]) \in Nat
    BY <2>1
  <2>4. QED
    BY <2>1, <2>2, <2>3
<1> HIDE DEF w
<1>3. DOMAIN wire' = Ends /\ wire'[e] = w /\ \A x \in Ends \ {e} : wire'[x] = wire[x]
  BY <1>1 DEF IInv
<1>4. ASSUME NEW x \in Ends PROVE EndInv(x)'
  <2>1. EndInv(x)
    BY DEF IInv
  <2>2. wire'[x] \in Seq(Frame(submitted[Peer(x)])) /\ Len(wire'[x]) <= MaxWire
    BY <1>2, <1>3, <2>1 DEF EndInv
  <2>3. QED
    BY <1>1, <2>1, <2>2 DEF EndInv
<1>5. DOMAIN station' = Ends /\ submitted' \in [Ends -> Nat] /\ DOMAIN last' = Ends
      /\ downs' \in 0 .. MaxDown /\ foreign' \in Nat /\ stale' \in BOOLEAN
  BY <1>1 DEF IInv
<1>6. Within(submitted', foreign')
  BY <1>1, EndIs
<1>7. QED
  BY <1>3, <1>4, <1>5, <1>6 DEF IInv

\* A frame arrives, and layer 3 may answer.
LEMMA HearKeeps ==
  ASSUME IInv, NEW e \in Ends, NEW replies, Hear(e, replies), NEW k,
         Told(replies, submitted[e], k), Within([submitted EXCEPT ![e] = k], foreign)
  PROVE  IInv'
<1> DEFINE f == Head(wire[e])
           w == Tail(wire[e])
           s == Receive(station[e], f, replies)
<1>1. /\ wire[e] # <<>> /\ Becomes(e, s, w)
      /\ submitted' = [submitted EXCEPT ![e] = submitted[e] + Len(replies)]
      /\ foreign' = foreign
  BY DEF Hear
<1>2. f \in Frame(submitted[Peer(e)]) /\ w \in Seq(Frame(submitted[Peer(e)])) /\ Len(w) <= MaxWire
  <2>1. wire[e] \in Seq(Frame(submitted[Peer(e)])) /\ Len(wire[e]) <= MaxWire /\ MaxWire \in Nat
    BY EndIs, LinkAssumption
  <2>2. f \in Frame(submitted[Peer(e)]) /\ Tail(wire[e]) \in Seq(Frame(submitted[Peer(e)])) /\ Len(Tail(wire[e])) = Len(wire[e]) - 1
    BY <1>1, <2>1, HeadTailProperties
  <2>3. Len(wire[e]) \in Nat
    BY <2>1
  <2>4. QED
    BY <2>1, <2>2, <2>3
<1> HIDE DEF f, w
<1>3. Sound(s, k, submitted[Peer(e)]) /\ Watched(s)
  BY <1>2, EndIs, ReceiveIs
<1>4. k \in Nat /\ submitted[e] <= k /\ k = submitted[e] + Len(replies)
  <2>1. submitted[e] \in Nat
    BY EndIs
  <2>2. CASE replies = <<>> /\ k = submitted[e]
    BY <2>1, <2>2
  <2>3. CASE replies = <<submitted[e] + 1>> /\ k = submitted[e] + 1
    <3>1. Len(replies) = 1
      BY <2>3
    <3>2. QED
      BY <2>1, <2>3, <3>1
  <2>4. QED
    BY <2>2, <2>3 DEF Told
<1>5. submitted' = [submitted EXCEPT ![e] = k] /\ Within(submitted', foreign')
  BY <1>1, <1>4
<1>6. foreign' \in Nat /\ stale' \in BOOLEAN
  BY <1>1, EndIs DEF Hear
<1> HIDE DEF s
<1>7. QED
  BY <1>1, <1>2, <1>3, <1>4, <1>5, <1>6, BecomesKeeps

\* A frame of other equipment arrives.
LEMMA HearForeignKeeps ==
  ASSUME IInv, NEW e \in Ends, HearForeign(e)
  PROVE  IInv'
<1> DEFINE n == submitted[e]
<1>1. PICK f \in ForeignFrames(e) : Becomes(e, Receive(station[e], f, <<>>), wire[e])
  BY DEF HearForeign
<1>2. f \in Frame(submitted[Peer(e)])
  <2>1. Peer(e) \in Ends /\ Peer(Peer(e)) = e
    BY PeerIs
  <2>2. Sound(station[Peer(e)], submitted[Peer(e)], submitted[e])
    BY <2>1, EndIs
  <2>3. \A p \in BOOLEAN, cmd \in BOOLEAN :
          /\ SFrame("RNR", station[Peer(e)], p, cmd) \in Frame(submitted[Peer(e)])
          /\ UFrame("DM") \in Frame(submitted[Peer(e)]) /\ UFrame("DISC") \in Frame(submitted[Peer(e)])
    BY <2>2, FramesAre
  <2>4. f \in {UFrame("DM"), UFrame("DISC")}
        \/ \E p \in BOOLEAN, cmd \in BOOLEAN : f = SFrame("RNR", station[Peer(e)], p, cmd)
    BY <1>1 DEF ForeignFrames
  <2>5. QED
    BY <2>3, <2>4
<1> DEFINE s == Receive(station[e], f, <<>>)
<1>3. Told(<<>>, n, n)
  BY DEF Told
<1>4. Sound(s, n, submitted[Peer(e)]) /\ Watched(s)
  BY <1>2, <1>3, EndIs, ReceiveIs
<1>5. /\ submitted' = submitted /\ foreign' = foreign + 1 /\ stale' = stale
      /\ Within(submitted, foreign + 1)
  BY DEF HearForeign
<1>6. /\ submitted' = [submitted EXCEPT ![e] = n] /\ foreign' \in Nat /\ stale' \in BOOLEAN
      /\ Within(submitted', foreign') /\ n \in Nat /\ n <= n
  BY <1>5, EndIs
<1>7. wire[e] \in Seq(Frame(submitted[Peer(e)])) /\ Len(wire[e]) <= MaxWire
  BY EndIs
<1> HIDE DEF s, n
<1>8. QED
  BY <1>1, <1>4, <1>6, <1>7, BecomesKeeps DEF s, n

\* Both ends start, the user by SABME.
LEMMA InitHolds ==
  Init => IInv
<1> SUFFICES ASSUME Init PROVE IInv
  OBVIOUS
<1>1. Sound(Fresh, 0, 0)
  <2> DEFINE o == [t \in Timers |-> "off"]
  <2>1. o \in [Timers -> Events]
    BY DEF Events
  <2>2. /\ 0 \in 0 .. 0 + Mod - 1 /\ 0 \in Num /\ 0 \in 0 .. N200
        /\ <<>> \in Seq(Entry(0)) /\ <<>> \in Seq(Frame(0)) /\ <<>> \in Seq(1 .. 0)
    BY ConstantsAre
  <2> HIDE DEF o
  <2>3. Fresh = [state |-> "released", v_s |-> 0, v_a |-> 0, v_r |-> 0, v_na |-> 0, windowlen |-> 0,
          busy |-> FALSE, solicit |-> FALSE, retrans |-> 0, sentrej |-> FALSE, queue |-> <<>>,
          on |-> o, out |-> <<>>, up |-> <<>>, event |-> "none"]
    BY DEF Fresh, o
  <2>4. QED
    BY <2>1, <2>2, <2>3 DEF Sound, Fields
<1>2. ASSUME NEW e \in Ends PROVE Sound(Begin(e), 0, 0) /\ Watched(Begin(e)) /\ Len(Begin(e).out) <= MaxWire
  <2> DEFINE Now == e = "user"
             r == Reset(Fresh)
             a == Again(r, "sabme")
             f == UFrame("SABME")
             b == Transmit(a, f)
  <2>1. Sound(Begin(e), 0, 0) /\ Watched(Begin(e))
    <3>1. Now \in BOOLEAN /\ Begin(e) = LinkStart(Fresh, Now)
      BY DEF Begin
    <3> HIDE DEF Now
    <3>2. QED
      BY <1>1, <3>1, LinkStartIs
  <2>2. Sound(r, 0, 0) /\ r.out = <<>>
    <3>1. Fresh.out = <<>>
      BY DEF Fresh
    <3>2. QED
      BY <1>1, <3>1, ResetIs
  <2>3. Sound(a, 0, 0) /\ a.out = <<>>
    <3>1. "sabme" \in Timers /\ "out" \in Fields \ {"on"}
      BY DEF Timers, Fields
    <3> HIDE DEF r
    <3>2. QED
      BY <2>2, <3>1, AgainIs
  <2>4. Begin(e).out = IF Now THEN <<f>> ELSE <<>>
    <3>1. Begin(e) = SendSabme(r, Now)
      BY DEF Begin, LinkStart
    <3>2. SendSabme(r, Now) = IF Now THEN [b EXCEPT !.state = "awaiting"] ELSE a
      BY DEF SendSabme
    <3> HIDE DEF a, f
    <3>3. b.out = <<f>> /\ DOMAIN b = Fields
      BY <2>3 DEF Transmit, Sound, Fields
    <3> HIDE DEF b
    <3>4. [b EXCEPT !.state = "awaiting"].out = <<f>>
      BY <3>3 DEF Fields
    <3>5. QED
      BY <2>3, <3>1, <3>2, <3>4
  <2>5. MaxWire \in Nat /\ MaxWire > 0
    BY LinkAssumption
  <2>6. Len(<<f>>) = 1 /\ Len(<<>>) = 0
    OBVIOUS
  <2> HIDE DEF f, Now
  <2>7. QED
    BY <2>1, <2>4, <2>5, <2>6
<1>3. ASSUME NEW e \in Ends PROVE EndInv(e)
  <2>1. /\ station[e] = Settled(Begin(e)) /\ wire[e] = Begin(Peer(e)).out
        /\ submitted[e] = 0 /\ submitted[Peer(e)] = 0 /\ last[e] = 0
    BY PeerIs DEF Init
  <2>2. /\ Sound(station[e], 0, 0) /\ Watched(station[e])
        /\ station[e].out = <<>> /\ station[e].up = <<>> /\ station[e].event = "none"
    BY <1>2, <2>1, SettledIs
  <2>3. wire[e] \in Seq(Frame(0)) /\ Len(wire[e]) <= MaxWire
    BY <1>2, <2>1, PeerIs DEF Sound
  <2>4. QED
    BY <2>1, <2>2, <2>3 DEF EndInv
<1>4. Within(submitted, foreign)
  <2>1. PICK m \in Loads : m \in [network : Nat, user : Nat, foreign : Nat]
    BY LinkAssumption
  <2>2. m.foreign >= 0 /\ m["network"] >= 0 /\ m["user"] >= 0
    BY <2>1
  <2>3. QED
    BY <2>2 DEF Within, Init, Ends
<1>5. downs \in 0 .. MaxDown
  BY LinkAssumption DEF Init
<1>6. /\ DOMAIN station = Ends /\ DOMAIN wire = Ends /\ submitted \in [Ends -> Nat] /\ DOMAIN last = Ends
      /\ foreign \in Nat /\ stale \in BOOLEAN
  BY DEF Init
<1>7. QED
  BY <1>3, <1>4, <1>5, <1>6 DEF IInv

\* Every step keeps the invariant.
LEMMA NextKeeps ==
  IInv /\ [Next]_vars => IInv'
<1> SUFFICES ASSUME IInv, [Next]_vars PROVE IInv'
  OBVIOUS
<1>1. ASSUME NEW e \in Ends, Submit(e) PROVE IInv'
  BY <1>1, SubmitKeeps
<1>2. ASSUME NEW e \in Ends, NEW timer \in Timers, Expire(e, timer) PROVE IInv'
  BY <1>2, ExpireKeeps
<1>3. ASSUME NEW e \in Ends, Lose(e) PROVE IInv'
  BY <1>3, LoseKeeps
<1>4. ASSUME NEW e \in Ends, HearSilently(e) PROVE IInv'
  <2>1. Told(<<>>, submitted[e], submitted[e]) /\ Hear(e, <<>>)
    BY <1>4 DEF Told, HearSilently
  <2>2. submitted = [submitted EXCEPT ![e] = submitted[e]] /\ Within(submitted, foreign)
    BY EndIs
  <2>3. QED
    BY <2>1, <2>2, HearKeeps
<1>5. ASSUME NEW e \in Ends, HearAndReply(e) PROVE IInv'
  <2> DEFINE k == submitted[e] + 1
  <2>1. Told(<<k>>, submitted[e], k) /\ Hear(e, <<k>>) /\ Within([submitted EXCEPT ![e] = k], foreign)
    BY <1>5 DEF Told, HearAndReply, HasMessage
  <2> HIDE DEF k
  <2>2. QED
    BY <2>1, HearKeeps
<1>6. ASSUME NEW e \in Ends, HearForeign(e) PROVE IInv'
  BY <1>6, HearForeignKeeps
<1>7. ASSUME UNCHANGED vars PROVE IInv'
  BY <1>7 DEF vars, IInv, EndInv, Sound, Watched, Half, Within
<1>8. QED
  BY <1>1, <1>2, <1>3, <1>4, <1>5, <1>6, <1>7 DEF Next

\* The inductive invariant holds of every behaviour (q921.c with the timers of prisched.c).
THEOREM Invariant == Spec => []IInv
<1>1. Init => IInv
  BY InitHolds
<1>2. IInv /\ [Next]_vars => IInv'
  BY NextKeeps
<1>3. QED
  BY <1>1, <1>2, PTL DEF Spec

\* Counters and timers keep to their ranges for every Mod, K and N200; in particular
\* nothing is retransmitted more than N200 times in a row (t200_expire gives up).
THEOREM TypeCorrect == Spec => []TypeOK
<1>1. IInv => TypeOK
  <2> SUFFICES ASSUME IInv PROVE TypeOK
    OBVIOUS
  <2>1. ASSUME NEW e \in Ends
        PROVE  LET s == station[e]
               IN  /\ s.state \in {"released", "awaiting", "established"}
                   /\ {s.v_a, s.v_r, s.v_na} \subseteq 0 .. Mod - 1
                   /\ s.v_s \in 0 .. submitted[e] + Mod
                   /\ s.retrans \in 0 .. N200
                   /\ s.on \in [Timers -> {"off", "t200", "t203", "sabme"}]
                   /\ Len(wire[e]) <= MaxWire
                   /\ last[e] \in 0 .. submitted[Peer(e)]
    <3> DEFINE s == station[e]
    <3>1. Sound(s, submitted[e], submitted[Peer(e)]) /\ submitted[e] \in Nat /\ Len(wire[e]) <= MaxWire
      BY EndIs
    <3>2. last[e] \in 0 .. submitted[Peer(e)]
      BY DEF IInv, EndInv
    <3> HIDE DEF s
    <3>3. /\ s.v_a \in Num /\ s.v_r \in Num /\ s.v_na \in Num
          /\ s.state \in {"released", "awaiting", "established"} /\ s.retrans \in 0 .. N200
          /\ s.on \in [Timers -> Events] /\ s.v_s \in 0 .. submitted[e] + Mod - 1
      BY <3>1 DEF Sound
    <3>4. s.v_s \in 0 .. submitted[e] + Mod
      <4>1. \A a, i \in Nat : i \in 0 .. a + Mod - 1 => i \in 0 .. a + Mod
        BY ConstantsAre
      <4>2. s.v_s \in Nat
        BY <3>1, <3>3, ConstantsAre
      <4>3. QED
        BY <3>1, <3>3, <4>1, <4>2
    <3>5. QED
      BY <3>1, <3>2, <3>3, <3>4 DEF Num, Events, s
  <2>2. downs \in 0 .. MaxDown /\ Within(submitted, foreign) /\ stale \in BOOLEAN
    BY DEF IInv
  <2>3. QED
    BY <2>1, <2>2 DEF TypeOK
<1>2. QED
  BY <1>1, Invariant, PTL

\* A station whose link is up always has T200 or T203 on, one whose link is not up
\* always has the SABME timer on: t200_expire, t203_expire and __q921_receive never
\* leave a link that nothing will ever move again.
THEOREM StaysSupervised == Spec => []Supervised
<1>1. IInv => Supervised
  BY DEF IInv, EndInv, Watched, Half, Supervised
<1>2. QED
  BY <1>1, Invariant, PTL

-----------------------------------------------------------------------------
(* Numbers modulo Mod.                                                      *)

\* Quotient and remainder.
LEMMA Divided ==
  ASSUME NEW x \in Int
  PROVE  \E q \in Int : x = (Mod * q) + (x % Mod) /\ x % Mod \in Num
<1>1. x = (Mod * (x \div Mod)) + (x % Mod) /\ x \div Mod \in Int /\ x % Mod \in 0 .. Mod - 1
  BY ConstantsAre
<1>2. QED
  BY <1>1 DEF Num

\* The remainder is the one number below Mod that differs by a multiple of it.
LEMMA Remains ==
  ASSUME NEW x \in Int, NEW q \in Int, NEW r \in Num, x = (Mod * q) + r
  PROVE  x % Mod = r
BY ConstantsAre DEF Num

\* Numbers may be reduced before they are added, and less than Mod apart they
\* differ by what they differ by unreduced.
LEMMA Reduced ==
  ASSUME NEW x \in Int, NEW y \in Int
  PROVE  /\ ((x % Mod) + y) % Mod = (x + y) % Mod
         /\ ((x % Mod) - (y % Mod)) % Mod = (x - y) % Mod
         /\ x \in Num => x % Mod = x
<1>1. Mod \in Nat
  BY ConstantsAre
<1>2. PICK a \in Int : x = (Mod * a) + (x % Mod) /\ x % Mod \in Num
  BY Divided
<1>3. PICK b \in Int : y = (Mod * b) + (y % Mod) /\ y % Mod \in Num
  BY Divided
<1> DEFINE r == x % Mod
           s == y % Mod
<1>4. r \in Int /\ s \in Int
  BY <1>2, <1>3, ConstantsAre DEF Num
<1>5. (r + y) % Mod = (x + y) % Mod
  <2> HIDE DEF r
  <2>1. PICK c \in Int : r + y = (Mod * c) + ((r + y) % Mod) /\ (r + y) % Mod \in Num
    BY <1>4, Divided
  <2> DEFINE t == (r + y) % Mod
  <2>2. t \in Int
    BY <2>1, <1>1 DEF Num
  <2>3. x + y = (Mod * (a + c)) + t
    <3>1. x = (Mod * a) + r /\ r + y = (Mod * c) + t
      BY <1>2, <2>1 DEF r
    <3> HIDE DEF t
    <3>2. Mod * (a + c) = (Mod * a) + (Mod * c)
      BY <1>1
    <3>3. Mod * a \in Int /\ Mod * c \in Int
      BY <1>1
    <3>4. QED
      BY <3>1, <3>2, <3>3, <1>4, <2>2
  <2>4. t \in Num /\ a + c \in Int /\ x + y \in Int
    BY <2>1
  <2> HIDE DEF t
  <2>5. (x + y) % Mod = t
    BY <2>3, <2>4, Remains
  <2>6. QED
    BY <2>5 DEF t
<1>6. (r - s) % Mod = (x - y) % Mod
  <2> HIDE DEF r, s
  <2>1. PICK c \in Int : r - s = (Mod * c) + ((r - s) % Mod) /\ (r - s) % Mod \in Num
    BY <1>4, Divided
  <2> DEFINE t == (r - s) % Mod
  <2>2. t \in Int
    BY <2>1, <1>1 DEF Num
  <2>3. x - y = (Mod * ((a - b) + c)) + t
    <3>1. x = (Mod * a) + r /\ y = (Mod * b) + s /\ r - s = (Mod * c) + t
      BY <1>2, <1>3, <2>1 DEF r, s
    <3> HIDE DEF t
    <3>2. Mod * ((a - b) + c) = ((Mod * a) - (Mod * b)) + (Mod * c)
      BY <1>1
    <3>3. Mod * a \in Int /\ Mod * c \in Int /\ Mod * b \in Int
      BY <1>1
    <3>4. QED
      BY <3>1, <3>2, <3>3, <1>4, <2>2
  <2>4. t \in Num /\ (a - b) + c \in Int /\ x - y \in Int
    BY <2>1
  <2> HIDE DEF t
  <2>5. (x - y) % Mod = t
    BY <2>3, <2>4, Remains
  <2>6. QED
    BY <2>5 DEF t
<1>7. x \in Num => x % Mod = x
  BY <1>1 DEF Num
<1>8. QED
  BY <1>5, <1>6, <1>7 DEF r, s

-----------------------------------------------------------------------------
(* The numbers of a station.                                                *)

\* The number of message d, of n submitted, in the queue of s or not: v_s is that of message
\* n + 1, reduced or not, so that the numbers are those q921_transmit_iframe gave.
At(s, n, d) == ((s.v_s - n) + (d - 1)) % Mod

\* The message at the head of the queue, or the next one if the queue is empty.
Oldest(s, n) == (n - Len(s.queue)) + 1

\* The link is up.
Live(s) == s.state = "established"

\* The queue holds the messages Oldest .. n with their numbers, fewer than Mod.  v_a is the number
\* of the last message acknowledged, as q921_ack_packet leaves it, or, before there is one and after
\* a reject that finds the queue empty, of the oldest.  A link that is not up starts from 0.
Numbered(s, n) ==
    LET a == Oldest(s, n)
    IN  /\ a >= 1 /\ Len(s.queue) <= s.v_s /\ Len(s.queue) < Mod
        /\ \A i \in DOMAIN s.queue : /\ s.queue[i].data = a + (i - 1)
                                     /\ s.queue[i].ns = At(s, n, a + (i - 1))
        /\ s.v_a \in {At(s, n, a), At(s, n, a - 1)}
        /\ s.v_s = Len(s.queue) => s.v_a = 0
        /\ ~Live(s) => s.v_s = Len(s.queue) /\ s.v_r = 0 /\ s.windowlen = 0

\* Consecutive messages have consecutive numbers, and those less than Mod apart different ones.
LEMMA AtIs ==
  ASSUME NEW s, s.v_s \in Int, NEW n \in Int
  PROVE  /\ \A d \in Int : At(s, n, d) \in Num /\ (At(s, n, d) + 1) % Mod = At(s, n, d + 1)
         /\ \A a, b \in Int : a <= b /\ b < a + Mod => (At(s, n, b) - At(s, n, a)) % Mod = b - a
         /\ \A a, b \in Int : At(s, n, a) = At(s, n, b) /\ b < a + Mod /\ a < b + Mod => a = b
         /\ At(s, n, n + 1) = s.v_s % Mod
<1>1. Mod \in Nat /\ Mod > 1
  BY ConstantsAre
<1> DEFINE x(d) == (s.v_s - n) + (d - 1)
<1>2. \A d \in Int : x(d) \in Int /\ x(d + 1) = x(d) + 1 /\ At(s, n, d) = x(d) % Mod
  BY DEF At
<1>3. x(n + 1) = s.v_s
  OBVIOUS
<1>4. \A a, b \in Int : x(b) - x(a) = b - a
  OBVIOUS
<1> HIDE DEF x
<1>5. ASSUME NEW d \in Int PROVE At(s, n, d) \in Num /\ (At(s, n, d) + 1) % Mod = At(s, n, d + 1)
  <2>1. x(d) \in Int /\ x(d + 1) = x(d) + 1 /\ At(s, n, d) = x(d) % Mod /\ d + 1 \in Int
    BY <1>2
  <2>2. At(s, n, d + 1) = x(d + 1) % Mod
    BY <1>2, <2>1
  <2>3. ((x(d) % Mod) + 1) % Mod = (x(d) + 1) % Mod
    BY <2>1, Reduced
  <2>4. x(d) % Mod \in Num
    BY <2>1, ConstantsAre
  <2>5. QED
    BY <2>1, <2>2, <2>3, <2>4
<1>6. ASSUME NEW a \in Int, NEW b \in Int, a <= b, b < a + Mod
      PROVE  (At(s, n, b) - At(s, n, a)) % Mod = b - a
  <2>1. x(a) \in Int /\ x(b) \in Int /\ At(s, n, a) = x(a) % Mod /\ At(s, n, b) = x(b) % Mod
    BY <1>2
  <2>2. (At(s, n, b) - At(s, n, a)) % Mod = (x(b) - x(a)) % Mod
    BY <2>1, Reduced
  <2>3. x(b) - x(a) = b - a /\ b - a \in Num /\ b - a \in Int
    BY <1>1, <1>4, <1>6 DEF Num
  <2>4. (b - a) % Mod = b - a
    BY <2>3, Reduced
  <2>5. QED
    BY <2>2, <2>3, <2>4
<1>7. ASSUME NEW a \in Int, NEW b \in Int, At(s, n, a) = At(s, n, b), b < a + Mod, a < b + Mod
      PROVE  a = b
  <2>1. At(s, n, a) \in Int /\ At(s, n, b) \in Int
    BY <1>1, <1>5 DEF Num
  <2>2. (At(s, n, b) - At(s, n, a)) % Mod = 0 /\ (At(s, n, a) - At(s, n, b)) % Mod = 0
    BY <1>1, <1>7, <2>1
  <2>3. CASE a <= b
    BY <1>6, <1>7, <2>2, <2>3
  <2>4. CASE b <= a
    BY <1>6, <1>7, <2>2, <2>4
  <2>5. QED
    BY <2>3, <2>4
<1>8. At(s, n, n + 1) = s.v_s % Mod
  BY <1>2, <1>3
<1>9. QED
  BY <1>5, <1>6, <1>7, <1>8

\* q921_ack_packet, given the number of the m-th message from the oldest, takes m messages out.
LEMMA AckedAre ==
  ASSUME NEW s, NEW n \in Nat, NEW o, Sound(s, n, o), Numbered(s, n),
         NEW m \in 0 .. Len(s.queue), m + 1 < Mod
  PROVE  LET ack == At(s, n, Oldest(s, n) + m)
         IN  InWindow(s, ack) /\ Acked(s, ack) = 1 .. m
<1> DEFINE a == Oldest(s, n)
           l == Len(s.queue)
           at(d) == At(s, n, d)
           ack == at(a + m)
<1>1. /\ Mod \in Nat /\ Mod > 1 /\ s.v_s \in Nat /\ l \in Nat /\ DOMAIN s.queue = 1 .. l
      /\ a = (n - l) + 1 /\ a \in Int /\ m \in Nat /\ m <= l
  <2>1. s.v_s \in Nat
    BY ConstantsAre DEF Sound
  <2>2. l \in Nat /\ DOMAIN s.queue = 1 .. l
    BY UnsentAre
  <2> HIDE DEF l
  <2>3. a = (n - l) + 1
    BY DEF Oldest, l
  <2> HIDE DEF a
  <2>4. a \in Int
    BY <2>2, <2>3
  <2>5. m \in Nat /\ m <= l
    BY <2>2 DEF l
  <2>6. QED
    BY <2>1, <2>2, <2>3, <2>4, <2>5, ConstantsAre
<1>2. /\ \A d \in Int : at(d) \in Num
      /\ \A x, y \in Int : x <= y /\ y < x + Mod => (at(y) - at(x)) % Mod = y - x
      /\ at(n + 1) = s.v_s % Mod
  <2>1. s.v_s \in Int /\ n \in Int
    BY <1>1
  <2>2. /\ \A d \in Int : At(s, n, d) \in Num /\ (At(s, n, d) + 1) % Mod = At(s, n, d + 1)
        /\ \A x, y \in Int : x <= y /\ y < x + Mod => (At(s, n, y) - At(s, n, x)) % Mod = y - x
        /\ At(s, n, n + 1) = s.v_s % Mod
    BY <2>1, AtIs
  <2>3. QED
    BY <2>2, Zenon
<1>3. /\ l <= s.v_s /\ l < Mod /\ s.v_a \in {at(a), at(a - 1)} /\ (s.v_s = l => s.v_a = 0)
      /\ \A i \in 1 .. l : s.queue[i].ns = at(a + (i - 1))
  BY <1>1 DEF Numbered
<1>4. s.v_s = l => s.v_a = at(a)
  <2>1. ASSUME s.v_s = l PROVE at(a) = 0
    <3> HIDE DEF a, l
    <3>1. (s.v_s - n) + (a - 1) = 0
      BY <1>1, <2>1
    <3>2. 0 % Mod = 0
      BY <1>1
    <3>3. QED
      BY <3>1, <3>2 DEF At
  <2>2. QED
    BY <1>3, <2>1
<1> HIDE DEF a, l, at
<1>5. CASE s.v_a = at(a)
  <2>1. (ack - s.v_a) % Mod = m
    <3>1. (at(a + m) - at(a)) % Mod = (a + m) - a
      BY <1>1, <1>2
    <3>2. QED
      BY <1>1, <1>5, <3>1
  <2>2. ASSUME NEW i \in 1 .. l PROVE (s.queue[i].ns - s.v_a) % Mod = i - 1
    <3>1. (at(a + (i - 1)) - at(a)) % Mod = (a + (i - 1)) - a
      BY <1>1, <1>2, <1>3
    <3>2. QED
      BY <1>1, <1>3, <1>5, <3>1
  <2>3. Acked(s, ack) = 1 .. m
    <3> HIDE DEF ack
    <3>1. Acked(s, ack) = {i \in 1 .. l : (s.queue[i].ns - s.v_a) % Mod < m}
      BY <1>1, <2>1 DEF Acked
    <3>2. \A i \in 1 .. l : (s.queue[i].ns - s.v_a) % Mod < m <=> i \in 1 .. m
      BY <1>1, <2>2
    <3>3. 1 .. m \subseteq 1 .. l
      BY <1>1
    <3>4. QED
      BY <3>1, <3>2, <3>3
  <2>4. ASSUME s.v_s < Mod PROVE m <= (s.v_s - s.v_a) % Mod
    <3>1. s.v_s % Mod = s.v_s
      BY <1>1, <2>4
    <3>2. n + 1 = a + l
      BY <1>1
    <3>3. (at(a + l) - at(a)) % Mod = l
      BY <1>1, <1>2, <1>3
    <3>4. QED
      BY <1>1, <1>2, <1>5, <3>1, <3>2, <3>3
  <2>5. InWindow(s, ack)
    BY <1>1, <2>1, <2>4 DEF InWindow
  <2>6. QED
    BY <2>3, <2>5 DEF at, a
<1>6. CASE s.v_a = at(a - 1) /\ s.v_s # l
  <2>1. (ack - s.v_a) % Mod = m + 1
    <3>1. (at(a + m) - at(a - 1)) % Mod = (a + m) - (a - 1)
      BY <1>1, <1>2
    <3>2. QED
      BY <1>1, <1>6, <3>1
  <2>2. ASSUME NEW i \in 1 .. l PROVE (s.queue[i].ns - s.v_a) % Mod = i
    <3>1. (at(a + (i - 1)) - at(a - 1)) % Mod = (a + (i - 1)) - (a - 1)
      BY <1>1, <1>2, <1>3
    <3>2. QED
      BY <1>1, <1>3, <1>6, <3>1
  <2>3. Acked(s, ack) = 1 .. m
    <3> HIDE DEF ack
    <3>1. Acked(s, ack) = {i \in 1 .. l : (s.queue[i].ns - s.v_a) % Mod < m + 1}
      BY <1>1, <2>1 DEF Acked
    <3>2. \A i \in 1 .. l : (s.queue[i].ns - s.v_a) % Mod < m + 1 <=> i \in 1 .. m
      BY <1>1, <2>2
    <3>3. 1 .. m \subseteq 1 .. l
      BY <1>1
    <3>4. QED
      BY <3>1, <3>2, <3>3
  <2>4. ASSUME s.v_s < Mod PROVE m + 1 <= (s.v_s - s.v_a) % Mod
    <3>1. s.v_s % Mod = s.v_s /\ l + 1 < Mod
      <4>1. s.v_s % Mod = s.v_s
        BY <1>1, <2>4
      <4>2. QED
        BY <4>1, <1>1, <1>3, <1>6, <2>4
    <3>2. n + 1 = a + l
      BY <1>1
    <3>3. (at(a + l) - at(a - 1)) % Mod = (a + l) - (a - 1)
      BY <1>1, <1>2, <3>1
    <3>4. QED
      BY <1>1, <1>2, <1>6, <3>1, <3>2, <3>3
  <2>5. InWindow(s, ack)
    BY <1>1, <2>1, <2>4 DEF InWindow
  <2>6. QED
    BY <2>3, <2>5 DEF at, a
<1>7. QED
  BY <1>3, <1>4, <1>5, <1>6

\* The members of an interval, in order, are what one expects.
LEMMA RisesFrom ==
  ASSUME NEW m \in Nat, NEW l \in Nat, m <= l, NEW f, Rising(f, (m + 1) .. l)
  PROVE  Cardinality((m + 1) .. l) = l - m /\ \A i \in 1 .. l - m : f[i] = m + i
<1>1. Cardinality((m + 1) .. l) = l - m
  <2> DEFINE k == m + 1
  <2>1. k \in Int /\ l \in Int /\ k = m + 1
    OBVIOUS
  <2> HIDE DEF k
  <2>2. Cardinality(k .. l) = IF k > l THEN 0 ELSE (l - k) + 1
    BY <2>1, FS_Interval
  <2>3. Cardinality(k .. l) = l - m
    BY <2>1, <2>2
  <2>4. QED
    BY <2>3, Zenon DEF k
<1>2. /\ \A i \in 1 .. l - m : f[i] \in (m + 1) .. l
      /\ \A i, j \in 1 .. l - m : i < j => f[i] < f[j]
  BY <1>1 DEF Rising
<1>3. ASSUME NEW i \in 1 .. l - m PROVE f[i] >= m + i
  <2> DEFINE low == {j \in 1 .. l - m : f[j] < m + j}
  <2>1. SUFFICES ASSUME low # {} PROVE FALSE
    BY <1>2
  <2>2. PICK k \in low : \A j \in low : k <= j
    <3>1. low \in SUBSET Nat
      OBVIOUS
    <3> HIDE DEF low
    <3>2. QED
      BY <2>1, <3>1, Least
  <2>3. k \in 1 .. l - m /\ f[k] < m + k /\ f[k] \in (m + 1) .. l
    BY <1>2, <2>2
  <2>4. k - 1 \in 1 .. l - m
    BY <2>3
  <2>5. f[k - 1] >= m + (k - 1)
    <3>1. k - 1 \notin low
      BY <2>2, <2>3
    <3>2. f[k - 1] \in (m + 1) .. l
      BY <1>2, <2>4
    <3>3. QED
      BY <2>4, <3>1, <3>2
  <2>6. f[k - 1] < f[k] /\ f[k - 1] \in (m + 1) .. l
    BY <1>2, <2>3, <2>4
  <2>7. QED
    BY <2>3, <2>5, <2>6
<1>4. ASSUME NEW i \in 1 .. l - m PROVE f[i] <= m + i
  <2> DEFINE high == {j \in 1 .. l - m : f[j] > m + j}
  <2>1. SUFFICES ASSUME high # {} PROVE FALSE
    BY <1>2
  <2>2. PICK k \in high : \A j \in high : j <= k
    <3>1. high \in SUBSET (1 .. l - m) /\ l - m \in Nat
      OBVIOUS
    <3> HIDE DEF high
    <3>2. QED
      BY <2>1, <3>1, Greatest
  <2>3. k \in 1 .. l - m /\ f[k] > m + k /\ f[k] \in (m + 1) .. l
    BY <1>2, <2>2
  <2>4. k + 1 \in 1 .. l - m
    BY <2>3
  <2>5. f[k + 1] <= m + (k + 1)
    <3>1. k + 1 \notin high
      BY <2>2, <2>3
    <3>2. f[k + 1] \in (m + 1) .. l
      BY <1>2, <2>4
    <3>3. QED
      BY <2>4, <3>1, <3>2
  <2>6. f[k] < f[k + 1] /\ f[k + 1] \in (m + 1) .. l
    BY <1>2, <2>3, <2>4
  <2>7. QED
    BY <2>3, <2>5, <2>6
<1>5. QED
  <2>1. \A i \in 1 .. l - m : f[i] = m + i
    <3>1. TAKE i \in 1 .. l - m
    <3>2. f[i] \in (m + 1) .. l /\ f[i] >= m + i /\ f[i] <= m + i
      BY <1>2, <1>3, <1>4
    <3>3. f[i] \in Int
      BY <3>2
    <3>4. QED
      BY <3>2, <3>3
  <2>2. QED
    BY <1>1, <2>1

\* The frames from place m + 1 on.
LEMMA OnlyTail ==
  ASSUME NEW T, NEW q \in Seq(T), NEW m \in 0 .. Len(q)
  PROVE  LET p == Only(q, (m + 1) .. Len(q))
         IN  p \in Seq(T) /\ Len(p) = Len(q) - m /\ \A i \in 1 .. Len(q) - m : p[i] = q[m + i]
<1> DEFINE S == (m + 1) .. Len(q)
<1>1. Len(q) \in Nat /\ DOMAIN q = 1 .. Len(q) /\ m \in Nat /\ m <= Len(q)
  OBVIOUS
<1>2. S \in SUBSET DOMAIN q
  BY <1>1
<1>3. Cardinality(S) = Len(q) - m /\ \A f : Rising(f, S) => \A i \in 1 .. Len(q) - m : f[i] = m + i
  <2>1. CASE \E f : Rising(f, S)
    BY <1>1, <2>1, RisesFrom
  <2>2. CASE ~ \E f : Rising(f, S)
    BY <1>2, <2>2, OnlyIs
  <2>3. QED
    BY <2>1, <2>2
<1> HIDE DEF S
<1>4. /\ Only(q, S) \in Seq(T) /\ Len(Only(q, S)) = Cardinality(S)
      /\ \E f : Rising(f, S) /\ \A i \in 1 .. Cardinality(S) : Only(q, S)[i] = q[f[i]]
  BY <1>2, OnlyIs
<1>5. \A i \in 1 .. Len(q) - m : Only(q, S)[i] = q[m + i]
  <2>1. PICK f : Rising(f, S) /\ \A i \in 1 .. Cardinality(S) : Only(q, S)[i] = q[f[i]]
    BY <1>4
  <2>2. QED
    BY <1>3, <2>1
<1>6. QED
  BY <1>3, <1>4, <1>5 DEF S

-----------------------------------------------------------------------------
(* A station that runs: its queue, its window, what it transmits.           *)

\* The frames with N(R).
NrTypes == {"I", "RR", "RNR", "REJ"}

\* The frames that open the link.
Opens == {"SABME", "UA"}

\* The messages that frames carry.
Carried(frames) == {frames[k].data : k \in {j \in DOMAIN frames : frames[j].type = "I"}}

\* The places in the queue of what was sent: by the mark, or by S, what reached the peer and what is
\* on the line.  The mark alone does not tell: after a reject frames go out, and are counted in
\* windowlen, that are never marked.
Outstanding(s, S) == {i \in DOMAIN s.queue : s.queue[i].sent \/ s.queue[i].data \in S}

\* windowlen counts them all.
Counted(s, S) == s.windowlen \in 0 .. K /\ Cardinality(Outstanding(s, S)) <= s.windowlen

\* What a step of s transmits: frames of the queue with their numbers, N(R) as it is, U besides.
Emitted(s, n, U) ==
    \A k \in DOMAIN s.out :
        /\ s.out[k].type \in NrTypes \cup U
        /\ s.out[k].type \in NrTypes => Live(s) /\ s.out[k].nr = s.v_r
        /\ s.out[k].type = "I" => /\ s.out[k].data \in Oldest(s, n) .. n
                                  /\ s.out[k].ns = At(s, n, s.out[k].data)

\* The station s, that submitted n messages and whose peer submitted o: S are the messages that left
\* before, U the types of what it may transmit besides frames with N(R), b the number of message 0,
\* a the oldest message in the queue, v the number wanted.
Runs(s, n, o, S, U, b, a, v) ==
    /\ Sound(s, n, o) /\ Numbered(s, n) /\ Counted(s, S \cup Carried(s.out)) /\ Emitted(s, n, U)
    /\ \A d \in Int : At(s, n, d) = (b + d) % Mod
    /\ Oldest(s, n) = a /\ s.v_r = v

\* nr is the number of message d, if b is that of message 0.
Names(nr, b, d) == nr = (b + d) % Mod

\* The fields that numbers and the window are about.
Core == {"state", "v_s", "v_a", "v_r", "windowlen", "queue", "out"}

\* No message is transmitted.
Silent(s) == \A k \in DOMAIN s.out : s.out[k].type # "I"

\* The rest of the fields, busy, solicit, timers, do not matter.
LEMMA LikeRuns ==
  ASSUME NEW s, NEW n, NEW o, NEW S, NEW U, NEW b, NEW a, NEW v, Runs(s, n, o, S, U, b, a, v),
         NEW t, Sound(t, n, o), \A y \in Core : t[y] = s[y]
  PROVE  /\ Runs(t, n, o, S, U, b, a, v)
         /\ t.out = s.out /\ t.queue = s.queue /\ t.state = s.state /\ (Silent(s) => Silent(t))
<1>1. /\ t.state = s.state /\ t.v_s = s.v_s /\ t.v_a = s.v_a /\ t.v_r = s.v_r
      /\ t.windowlen = s.windowlen /\ t.queue = s.queue /\ t.out = s.out
  BY DEF Core
<1>2. Oldest(t, n) = Oldest(s, n) /\ Live(t) = Live(s)
  BY <1>1 DEF Oldest, Live
<1>3. \A d : At(t, n, d) = At(s, n, d)
  BY <1>1 DEF At
<1>4. Numbered(t, n)
  <2>1. Numbered(s, n)
    BY DEF Runs
  <2>2. QED
    BY <1>1, <1>2, <1>3, <2>1 DEF Numbered
<1>5. Emitted(t, n, U)
  <2>1. Emitted(s, n, U)
    BY DEF Runs
  <2>2. QED
    BY <1>1, <1>2, <1>3, <2>1 DEF Emitted
<1>6. Counted(t, S \cup Carried(t.out))
  <2>1. Counted(s, S \cup Carried(s.out))
    BY DEF Runs
  <2>2. Outstanding(t, S \cup Carried(t.out)) = Outstanding(s, S \cup Carried(s.out))
    BY <1>1 DEF Outstanding
  <2>3. QED
    BY <1>1, <2>1, <2>2 DEF Counted
<1>7. \A d \in Int : At(t, n, d) = (b + d) % Mod
  BY <1>3 DEF Runs
<1>8. Silent(s) => Silent(t)
  BY <1>1 DEF Silent
<1>9. Oldest(t, n) = a /\ t.v_r = v
  BY <1>1, <1>2 DEF Runs
<1>10. QED
  BY <1>1, <1>4, <1>5, <1>6, <1>7, <1>8, <1>9 DEF Runs

\* What Runs says of the queue, in one piece.
Shape(s, n, a, v) ==
    /\ Mod \in Nat /\ Mod > 1 /\ K \in Nat /\ K + 1 < Mod
    /\ Len(s.queue) \in Nat /\ DOMAIN s.queue = 1 .. Len(s.queue)
    /\ a = (n - Len(s.queue)) + 1 /\ a \in Int /\ a >= 1
    /\ Len(s.queue) <= s.v_s /\ Len(s.queue) < Mod /\ s.v_s \in Nat
    /\ s.v_r = v /\ v \in Num /\ s.windowlen \in 0 .. K
    /\ \A i \in DOMAIN s.queue : /\ s.queue[i].data = a + (i - 1)
                                 /\ s.queue[i].ns = At(s, n, a + (i - 1))

\* It follows from Runs.
LEMMA RunsAre ==
  ASSUME NEW s, NEW n \in Nat, NEW o, NEW S, NEW U, NEW b, NEW a, NEW v, Runs(s, n, o, S, U, b, a, v)
  PROVE  Shape(s, n, a, v)
<1> DEFINE l == Len(s.queue)
<1>1. Sound(s, n, o) /\ Numbered(s, n) /\ s.windowlen \in 0 .. K /\ Oldest(s, n) = a /\ s.v_r = v
  BY DEF Runs, Counted
<1>2. l \in Nat /\ DOMAIN s.queue = 1 .. l
  BY <1>1, UnsentAre
<1>3. s.v_s \in Nat /\ v \in Num
  BY <1>1, ConstantsAre DEF Sound
<1> HIDE DEF l
<1>4. a = (n - l) + 1
  BY <1>1 DEF Oldest, l
<1>5. /\ l <= s.v_s /\ l < Mod /\ a >= 1
      /\ \A i \in DOMAIN s.queue : s.queue[i].data = a + (i - 1) /\ s.queue[i].ns = At(s, n, a + (i - 1))
  BY <1>1, <1>2 DEF Numbered, l
<1>6. a \in Int
  BY <1>2, <1>4
<1>7. Mod \in Nat /\ Mod > 1 /\ K \in Nat /\ K + 1 < Mod
  BY ConstantsAre
<1>8. QED
  BY <1>1, <1>2, <1>3, <1>4, <1>5, <1>6, <1>7 DEF l, Shape

\* Each message has one place in the queue.
LEMMA PlacesAre ==
  ASSUME NEW s, NEW n \in Nat, NEW a, NEW v, Shape(s, n, a, v)
  PROVE  /\ \A i \in DOMAIN s.queue : s.queue[i].data \in a .. n
         /\ \A i, j \in DOMAIN s.queue : s.queue[i].data = s.queue[j].data => i = j
<1> DEFINE l == Len(s.queue)
<1>1. /\ DOMAIN s.queue = 1 .. l /\ l \in Nat /\ a \in Int /\ n = (a + l) - 1
      /\ \A i \in DOMAIN s.queue : s.queue[i].data = a + (i - 1)
  <2>1. DOMAIN s.queue = 1 .. l /\ l \in Nat /\ a \in Int /\ a = (n - l) + 1
    BY DEF Shape
  <2>2. \A i \in DOMAIN s.queue : s.queue[i].data = a + (i - 1)
    BY DEF Shape
  <2> HIDE DEF l
  <2>3. n = (a + l) - 1
    BY <2>1
  <2>4. QED
    BY <2>1, <2>2, <2>3
<1> HIDE DEF l
<1>2. ASSUME NEW i \in DOMAIN s.queue
      PROVE  s.queue[i].data \in a .. n /\ s.queue[i].data = a + (i - 1) /\ i \in Int
  <2>1. i \in 1 .. l /\ s.queue[i].data = a + (i - 1)
    BY <1>1
  <2>2. QED
    BY <1>1, <2>1
<1>3. ASSUME NEW i \in DOMAIN s.queue, NEW j \in DOMAIN s.queue, s.queue[i].data = s.queue[j].data
      PROVE  i = j
  <2>1. a + (i - 1) = a + (j - 1) /\ i \in Int /\ j \in Int
    BY <1>2, <1>3
  <2>2. QED
    BY <1>1, <2>1
<1>4. QED
  BY <1>2, <1>3

\* Of two lists of frames.
LEMMA CarriedTwice ==
  ASSUME NEW T, NEW x \in Seq(T), NEW y \in Seq(T)
  PROVE  Carried(x \o y) = Carried(x) \cup Carried(y)
<1>1. /\ DOMAIN x = 1 .. Len(x) /\ DOMAIN y = 1 .. Len(y) /\ Len(x) \in Nat /\ Len(y) \in Nat
      /\ DOMAIN (x \o y) = 1 .. Len(x) + Len(y)
      /\ \A k \in 1 .. Len(x) : (x \o y)[k] = x[k]
      /\ \A k \in 1 .. Len(y) : (x \o y)[Len(x) + k] = y[k]
  <2>1. Len(x \o y) = Len(x) + Len(y) /\ DOMAIN (x \o y) = 1 .. Len(x \o y)
    OBVIOUS
  <2>2. QED
    BY <2>1
<1>2. ASSUME NEW d \in Carried(x \o y) PROVE d \in Carried(x) \cup Carried(y)
  <2>1. PICK k \in DOMAIN (x \o y) : (x \o y)[k].type = "I" /\ (x \o y)[k].data = d
    BY DEF Carried
  <2>2. CASE k <= Len(x)
    BY <1>1, <2>1, <2>2 DEF Carried
  <2>3. CASE k > Len(x)
    <3>1. k - Len(x) \in 1 .. Len(y) /\ Len(x) + (k - Len(x)) = k
      BY <1>1, <2>1, <2>3
    <3>2. (x \o y)[k] = y[k - Len(x)]
      BY <1>1, <3>1
    <3>3. QED
      BY <1>1, <2>1, <3>1, <3>2 DEF Carried
  <2>4. QED
    BY <1>1, <2>1, <2>2, <2>3
<1>3. ASSUME NEW d \in Carried(x) PROVE d \in Carried(x \o y)
  <2>1. PICK k \in DOMAIN x : x[k].type = "I" /\ x[k].data = d
    BY DEF Carried
  <2>2. k \in DOMAIN (x \o y) /\ (x \o y)[k] = x[k]
    BY <1>1, <2>1
  <2>3. QED
    BY <2>1, <2>2 DEF Carried
<1>4. ASSUME NEW d \in Carried(y) PROVE d \in Carried(x \o y)
  <2>1. PICK k \in DOMAIN y : y[k].type = "I" /\ y[k].data = d
    BY DEF Carried
  <2>2. Len(x) + k \in DOMAIN (x \o y) /\ (x \o y)[Len(x) + k] = y[k]
    BY <1>1, <2>1
  <2>3. QED
    BY <2>1, <2>2 DEF Carried
<1>5. QED
  BY <1>2, <1>3, <1>4

\* What leaves the queue or comes to be marked changes the count by as many at most.
LEMMA CountedLess ==
  ASSUME NEW s, NEW n, NEW o, Sound(s, n, o), NEW S, NEW t, NEW T, NEW R, IsFiniteSet(R),
         Outstanding(t, T) \subseteq Outstanding(s, S) \cup R
  PROVE  /\ Cardinality(Outstanding(t, T)) <= Cardinality(Outstanding(s, S)) + Cardinality(R)
         /\ Cardinality(Outstanding(t, T)) \in Nat /\ Cardinality(Outstanding(s, S)) \in Nat
         /\ Cardinality(R) \in Nat /\ IsFiniteSet(Outstanding(s, S)) /\ IsFiniteSet(R)
<1> DEFINE p == Outstanding(s, S)
           q == Outstanding(t, T)
<1>1. DOMAIN s.queue = 1 .. Len(s.queue) /\ Len(s.queue) \in Nat
  BY UnsentAre
<1>2. IsFiniteSet(DOMAIN s.queue)
  <2>1. IsFiniteSet(1 .. Len(s.queue))
    BY <1>1, FS_Interval
  <2>2. QED
    BY <1>1, <2>1
<1>3. p \in SUBSET DOMAIN s.queue
  BY DEF Outstanding
<1>4. q \in SUBSET (p \cup R)
  OBVIOUS
<1> HIDE DEF p, q
<1>5. IsFiniteSet(p) /\ IsFiniteSet(R) /\ IsFiniteSet(p \cap R)
  <2>1. p \cap R \in SUBSET DOMAIN s.queue
    BY <1>3
  <2>2. QED
    BY <1>2, <1>3, <2>1, FS_Subset
<1>6. IsFiniteSet(p \cup R) /\ Cardinality(p \cup R) = Cardinality(p) + Cardinality(R) - Cardinality(p \cap R)
  BY <1>5, FS_Union
<1>7. IsFiniteSet(q) /\ Cardinality(q) <= Cardinality(p \cup R)
  BY <1>4, <1>6, FS_Subset
<1>8. /\ Cardinality(p) \in Nat /\ Cardinality(R) \in Nat /\ Cardinality(p \cap R) \in Nat
      /\ Cardinality(q) \in Nat
  BY <1>5, <1>7, FS_CardinalityType
<1>9. Cardinality(q) <= Cardinality(p) + Cardinality(R)
  BY <1>6, <1>7, <1>8
<1>10. QED
  BY <1>5, <1>8, <1>9 DEF p, q

-----------------------------------------------------------------------------
(* What is sent.                                                            *)

\* A frame is transmitted that says what the station knows.
LEMMA SaysRuns ==
  ASSUME NEW s, NEW n \in Nat, NEW o, NEW S, NEW U, NEW b, NEW a, NEW v, Runs(s, n, o, S, U, b, a, v),
         NEW t, Sound(t, n, o), \A y \in Core \ {"out"} : t[y] = s[y],
         NEW f, t.out = Append(s.out, f), f \in Frame(n),
         f.type \in NrTypes \cup U,
         f.type \in NrTypes => Live(s) /\ f.nr = s.v_r,
         f.type = "I" => \E i \in DOMAIN s.queue : /\ s.queue[i].sent
                                                   /\ f.data = s.queue[i].data /\ f.ns = s.queue[i].ns
  PROVE  Runs(t, n, o, S, U, b, a, v) /\ t.queue = s.queue /\ t.state = s.state
<1>1. /\ t.state = s.state /\ t.v_s = s.v_s /\ t.v_a = s.v_a /\ t.v_r = s.v_r
      /\ t.windowlen = s.windowlen /\ t.queue = s.queue
  BY DEF Core
<1>2. Oldest(t, n) = Oldest(s, n) /\ Live(t) = Live(s)
  BY <1>1 DEF Oldest, Live
<1>3. \A d : At(t, n, d) = At(s, n, d)
  BY <1>1 DEF At
<1>4. Numbered(t, n)
  <2>1. Numbered(s, n)
    BY DEF Runs
  <2>2. QED
    BY <1>1, <1>2, <1>3, <2>1 DEF Numbered
<1>5. /\ Mod \in Nat /\ Mod > 1 /\ K \in Nat /\ K + 1 < Mod
      /\ Len(s.queue) \in Nat /\ DOMAIN s.queue = 1 .. Len(s.queue)
      /\ a = (n - Len(s.queue)) + 1 /\ a \in Int /\ a >= 1
      /\ Len(s.queue) <= s.v_s /\ Len(s.queue) < Mod /\ s.v_s \in Nat
      /\ s.v_r = v /\ v \in Num /\ s.windowlen \in 0 .. K
      /\ \A i \in DOMAIN s.queue : s.queue[i].data = a + (i - 1) /\ s.queue[i].ns = At(s, n, a + (i - 1))
  <2>1. Shape(s, n, a, v)
    BY RunsAre
  <2>2. QED
    BY <2>1 DEF Shape
<1>6. /\ \A i \in DOMAIN s.queue : s.queue[i].data \in a .. n
      /\ \A i, j \in DOMAIN s.queue : s.queue[i].data = s.queue[j].data => i = j
  <2>1. Shape(s, n, a, v)
    BY RunsAre
  <2>2. QED
    BY <2>1, PlacesAre
<1>7. s.out \in Seq(Frame(n)) /\ Oldest(s, n) = a
  BY DEF Runs, Sound
<1>8. Emitted(t, n, U)
  <2>1. Emitted(s, n, U)
    BY DEF Runs
  <2>2. SUFFICES ASSUME NEW k \in DOMAIN t.out
                 PROVE  /\ t.out[k].type \in NrTypes \cup U
                        /\ t.out[k].type \in NrTypes => Live(s) /\ t.out[k].nr = s.v_r
                        /\ t.out[k].type = "I" => /\ t.out[k].data \in Oldest(s, n) .. n
                                                  /\ t.out[k].ns = At(s, n, t.out[k].data)
    BY <1>1, <1>2, <1>3 DEF Emitted
  <2>3. (k \in DOMAIN s.out /\ t.out[k] = s.out[k]) \/ t.out[k] = f
    BY <1>7
  <2>4. CASE k \in DOMAIN s.out /\ t.out[k] = s.out[k]
    BY <2>1, <2>4 DEF Emitted
  <2>5. CASE t.out[k] = f
    <3>1. f.type = "I" => f.data \in a .. n /\ f.ns = At(s, n, f.data)
      <4>1. SUFFICES ASSUME f.type = "I" PROVE f.data \in a .. n /\ f.ns = At(s, n, f.data)
        OBVIOUS
      <4>2. PICK i \in DOMAIN s.queue : f.data = s.queue[i].data /\ f.ns = s.queue[i].ns
        BY <4>1
      <4>3. f.ns = At(s, n, f.data)
        BY <1>5, <4>2
      <4>4. QED
        BY <1>6, <4>2, <4>3
    <3>2. QED
      BY <1>7, <2>5, <3>1
  <2>6. QED
    BY <2>3, <2>4, <2>5
<1>9. Counted(t, S \cup Carried(t.out))
  <2>1. Counted(s, S \cup Carried(s.out))
    BY DEF Runs
  <2>2. Outstanding(t, S \cup Carried(t.out)) \subseteq Outstanding(s, S \cup Carried(s.out)) \cup {}
    <3>1. SUFFICES ASSUME NEW i \in DOMAIN s.queue, s.queue[i].data \in Carried(t.out)
                   PROVE  s.queue[i].sent \/ s.queue[i].data \in Carried(s.out)
      BY <1>1 DEF Outstanding
    <3>2. PICK k \in DOMAIN t.out : t.out[k].type = "I" /\ t.out[k].data = s.queue[i].data
      BY <3>1 DEF Carried
    <3>3. (k \in DOMAIN s.out /\ t.out[k] = s.out[k]) \/ t.out[k] = f
      BY <1>7
    <3>4. CASE k \in DOMAIN s.out /\ t.out[k] = s.out[k]
      BY <3>2, <3>4 DEF Carried
    <3>5. CASE t.out[k] = f
      <4>1. PICK j \in DOMAIN s.queue : s.queue[j].sent /\ f.data = s.queue[j].data
        BY <3>2, <3>5
      <4>2. i = j
        BY <1>6, <3>2, <3>5, <4>1
      <4>3. QED
        BY <4>1, <4>2
    <3>6. QED
      BY <3>3, <3>4, <3>5
  <2>3. Sound(s, n, o)
    BY DEF Runs
  <2> DEFINE x == Cardinality(Outstanding(t, S \cup Carried(t.out)))
             y == Cardinality(Outstanding(s, S \cup Carried(s.out)))
  <2>4. x <= y + Cardinality({}) /\ x \in Nat /\ y \in Nat
    BY <2>2, <2>3, FS_EmptySet, CountedLess
  <2>5. Cardinality({}) = 0
    BY FS_EmptySet
  <2>6. y <= s.windowlen /\ s.windowlen \in 0 .. K /\ K \in Nat
    BY <2>1, ConstantsAre DEF Counted
  <2> HIDE DEF x, y
  <2>7. x <= s.windowlen
    BY <2>4, <2>5, <2>6
  <2>8. QED
    BY <1>1, <2>6, <2>7 DEF Counted, x
<1>10. \A d \in Int : At(t, n, d) = (b + d) % Mod
  BY <1>3 DEF Runs
<1>11. Oldest(t, n) = a /\ t.v_r = v
  BY <1>1, <1>2 DEF Runs
<1>12. QED
  BY <1>1, <1>4, <1>8, <1>9, <1>10, <1>11 DEF Runs

\* The window is not exceeded.
LEMMA RoomLeft ==
  ASSUME NEW s, NEW n, NEW o, Sound(s, n, o), s.windowlen \in 0 .. K, NEW R \in SUBSET Room(s)
  PROVE  /\ Cardinality(R) \in Nat /\ IsFiniteSet(R) /\ s.windowlen + Cardinality(R) <= K
         /\ R \in SUBSET DOMAIN s.queue
<1> DEFINE L == Len(s.queue)
<1>1. /\ R \in SUBSET (1 .. L) /\ L \in Nat /\ R \in SUBSET DOMAIN s.queue
      /\ Unsent(s) \in SUBSET (1 .. L)
  BY UnsentAre
<1>2. IsFiniteSet(1 .. L)
  BY <1>1, FS_Interval
<1>3. IsFiniteSet(R) /\ Cardinality(R) \in Nat
  BY <1>1, <1>2, FS_Subset, FS_CardinalityType
<1>4. K \in Nat /\ s.windowlen \in Nat /\ s.windowlen <= K
  BY ConstantsAre
<1>5. CASE R = {}
  BY <1>1, <1>3, <1>4, <1>5, FS_EmptySet
<1>6. CASE R # {}
  <2>1. PICK m \in R : \A j \in R : j <= m
    BY <1>1, <1>6, Greatest
  <2> DEFINE B == {j \in Unsent(s) : j < m}
  <2>2. m \in Room(s) /\ m \in 1 .. L /\ Cardinality(B) < K - s.windowlen
    BY <1>1, <2>1 DEF Room
  <2>3. R \ {m} \in SUBSET B
    <3>1. R \subseteq Unsent(s)
      BY UnsentAre
    <3>2. \A j \in R \ {m} : j < m
      BY <1>1, <2>1, <2>2
    <3>3. QED
      BY <3>1, <3>2
  <2>4. B \in SUBSET (1 .. L)
    BY <1>1
  <2> HIDE DEF B
  <2>5. IsFiniteSet(B) /\ Cardinality(B) \in Nat
    BY <1>2, <2>4, FS_Subset, FS_CardinalityType
  <2>6. Cardinality(R \ {m}) <= Cardinality(B)
    BY <2>3, <2>5, FS_Subset
  <2>7. Cardinality(R \ {m}) = Cardinality(R) - 1
    BY <1>3, <2>1, FS_RemoveElement
  <2>8. s.windowlen + Cardinality(R) <= K
    BY <1>3, <1>4, <2>2, <2>5, <2>6, <2>7
  <2>9. QED
    BY <1>1, <1>3, <2>8
<1>7. QED
  BY <1>5, <1>6

\* Frames of the queue go out, those not sent before within the window.
LEMMA BatchRuns ==
  ASSUME NEW s, NEW n \in Nat, NEW o, NEW S, NEW U, NEW b, NEW a, NEW v, Runs(s, n, o, S, U, b, a, v),
         Live(s), NEW R \in SUBSET Room(s), NEW X \in SUBSET DOMAIN s.queue,
         \A i \in X : s.queue[i].sent \/ i \in R,
         NEW t, Sound(t, n, o), \A y \in Core \ {"windowlen", "queue", "out"} : t[y] = s[y],
         t.windowlen = s.windowlen + Cardinality(R),
         t.out = s.out \o IFrames(s, Only(s.queue, X)),
         DOMAIN t.queue = DOMAIN s.queue, Len(t.queue) = Len(s.queue),
         \A i \in DOMAIN s.queue : /\ t.queue[i].data = s.queue[i].data /\ t.queue[i].ns = s.queue[i].ns
                                   /\ t.queue[i].sent => s.queue[i].sent \/ i \in R
  PROVE  Runs(t, n, o, S, U, b, a, v)
<1>1. t.state = s.state /\ t.v_s = s.v_s /\ t.v_a = s.v_a /\ t.v_r = s.v_r
  BY DEF Core
<1>2. Oldest(t, n) = Oldest(s, n) /\ Live(t)
  BY <1>1 DEF Oldest, Live
<1>3. \A d : At(t, n, d) = At(s, n, d)
  BY <1>1 DEF At
<1>4. Numbered(t, n)
  <2>1. Numbered(s, n)
    BY DEF Runs
  <2>2. QED
    BY <1>1, <1>2, <1>3, <2>1 DEF Numbered
<1>5. /\ Mod \in Nat /\ Mod > 1 /\ K \in Nat /\ K + 1 < Mod
      /\ Len(s.queue) \in Nat /\ DOMAIN s.queue = 1 .. Len(s.queue)
      /\ a = (n - Len(s.queue)) + 1 /\ a \in Int /\ a >= 1
      /\ Len(s.queue) <= s.v_s /\ Len(s.queue) < Mod /\ s.v_s \in Nat
      /\ s.v_r = v /\ v \in Num /\ s.windowlen \in 0 .. K
      /\ \A i \in DOMAIN s.queue : s.queue[i].data = a + (i - 1) /\ s.queue[i].ns = At(s, n, a + (i - 1))
  <2>1. Shape(s, n, a, v)
    BY RunsAre
  <2>2. QED
    BY <2>1 DEF Shape
<1>6. /\ \A i \in DOMAIN s.queue : s.queue[i].data \in a .. n
      /\ \A i, j \in DOMAIN s.queue : s.queue[i].data = s.queue[j].data => i = j
  <2>1. Shape(s, n, a, v)
    BY RunsAre
  <2>2. QED
    BY <2>1, PlacesAre
<1>7. /\ s.out \in Seq(Frame(n)) /\ Oldest(s, n) = a /\ s.queue \in Seq(Entry(n)) /\ Sound(s, n, o)
  BY DEF Runs, Sound
<1> DEFINE q == Only(s.queue, X)
           g == IFrames(s, q)
<1>8. /\ q \in Seq(Entry(n)) /\ Len(q) = Cardinality(X) /\ Cardinality(X) \in Nat
      /\ \E h : Rising(h, X) /\ \A i \in 1 .. Cardinality(X) : q[i] = s.queue[h[i]]
  BY <1>7, OnlyIs
<1>9. g \in Seq(Frame(n)) /\ Len(g) = Len(q)
  BY <1>7, <1>8, IFramesAre
<1>10. \A k \in 1 .. Len(q) : g[k] = IFrame(s, q[k], FALSE)
  BY DEF IFrames
<1> HIDE DEF q, g
<1>11. ASSUME NEW k \in DOMAIN g
       PROVE  /\ g[k].type = "I" /\ g[k].nr = s.v_r
              /\ \E i \in X : g[k].data = s.queue[i].data /\ g[k].ns = s.queue[i].ns
  <2>1. PICK h : Rising(h, X) /\ \A i \in 1 .. Cardinality(X) : q[i] = s.queue[h[i]]
    BY <1>8
  <2>2. k \in 1 .. Cardinality(X) /\ k \in 1 .. Len(q)
    BY <1>8, <1>9
  <2>3. h[k] \in X
    BY <2>1, <2>2 DEF Rising
  <2>4. g[k] = IFrame(s, s.queue[h[k]], FALSE)
    BY <1>10, <2>1, <2>2
  <2>5. QED
    BY <2>3, <2>4 DEF IFrame
<1>12. t.out = s.out \o g
  BY DEF g, q
<1>13. Emitted(t, n, U)
  <2>1. Emitted(s, n, U)
    BY DEF Runs
  <2>2. SUFFICES ASSUME NEW k \in DOMAIN t.out
                 PROVE  /\ t.out[k].type \in NrTypes \cup U
                        /\ t.out[k].type \in NrTypes => t.out[k].nr = s.v_r
                        /\ t.out[k].type = "I" => /\ t.out[k].data \in a .. n
                                                  /\ t.out[k].ns = At(s, n, t.out[k].data)
    BY <1>1, <1>2, <1>3, <1>7 DEF Emitted
  <2>3. (k \in DOMAIN s.out /\ t.out[k] = s.out[k]) \/ \E j \in DOMAIN g : t.out[k] = g[j]
    BY <1>7, <1>9, <1>12
  <2>4. CASE k \in DOMAIN s.out /\ t.out[k] = s.out[k]
    BY <1>7, <2>1, <2>4 DEF Emitted
  <2>5. CASE \E j \in DOMAIN g : t.out[k] = g[j]
    <3>1. PICK j \in DOMAIN g : t.out[k] = g[j]
      BY <2>5
    <3>2. PICK i \in X : g[j].data = s.queue[i].data /\ g[j].ns = s.queue[i].ns
      BY <1>11
    <3>3. g[j].ns = At(s, n, g[j].data)
      BY <1>5, <3>2
    <3>4. g[j].data \in a .. n
      BY <1>6, <3>2
    <3>5. g[j].type = "I" /\ g[j].nr = s.v_r /\ "I" \in NrTypes
      BY <1>11 DEF NrTypes
    <3>6. QED
      BY <3>1, <3>3, <3>4, <3>5
  <2>6. QED
    BY <2>3, <2>4, <2>5
<1>14. Counted(t, S \cup Carried(t.out))
  <2>1. Counted(s, S \cup Carried(s.out))
    BY DEF Runs
  <2>2. Carried(t.out) = Carried(s.out) \cup Carried(g)
    BY <1>7, <1>9, <1>12, CarriedTwice
  <2>3. Outstanding(t, S \cup Carried(t.out)) \subseteq Outstanding(s, S \cup Carried(s.out)) \cup R
    <3>1. SUFFICES ASSUME NEW i \in DOMAIN s.queue, s.queue[i].data \in Carried(g)
                   PROVE  s.queue[i].sent \/ i \in R
      BY <2>2 DEF Outstanding
    <3>2. PICK k \in DOMAIN g : g[k].data = s.queue[i].data
      BY <3>1 DEF Carried
    <3>3. PICK j \in X : g[k].data = s.queue[j].data
      BY <1>11
    <3>4. i = j
      BY <1>6, <3>2, <3>3
    <3>5. QED
      BY <3>3, <3>4
  <2>4. /\ Cardinality(R) \in Nat /\ s.windowlen + Cardinality(R) <= K /\ IsFiniteSet(R)
    BY <1>5, <1>7, RoomLeft
  <2> DEFINE x == Cardinality(Outstanding(t, S \cup Carried(t.out)))
             y == Cardinality(Outstanding(s, S \cup Carried(s.out)))
  <2>5. x <= y + Cardinality(R) /\ x \in Nat /\ y \in Nat
    BY <1>7, <2>3, <2>4, CountedLess
  <2>6. y <= s.windowlen /\ s.windowlen \in 0 .. K /\ K \in Nat
    BY <2>1, ConstantsAre DEF Counted
  <2> HIDE DEF x, y
  <2>7. x <= t.windowlen /\ t.windowlen \in 0 .. K
    BY <2>4, <2>5, <2>6
  <2>8. QED
    BY <2>7 DEF Counted, x
<1>15. \A d \in Int : At(t, n, d) = (b + d) % Mod
  BY <1>3 DEF Runs
<1>16. Oldest(t, n) = a /\ t.v_r = v
  BY <1>1, <1>2 DEF Runs
<1>17. QED
  BY <1>4, <1>13, <1>14, <1>15, <1>16 DEF Runs

\* q921_send_queued_iframes sends within the window, and counts what it sends.
LEMMA SendQueuedRuns ==
  ASSUME NEW s, NEW n \in Nat, NEW o, NEW S, NEW U, NEW b, NEW a, NEW v, Runs(s, n, o, S, U, b, a, v),
         Live(s)
  PROVE  Runs(SendQueued(s), n, o, S, U, b, a, v)
<1> DEFINE t == SendQueued(s)
           now == Room(s)
<1>1. Sound(s, n, o)
  BY DEF Runs
<1>2. /\ Sound(t, n, o) /\ DOMAIN t.queue = DOMAIN s.queue /\ Len(t.queue) = Len(s.queue)
      /\ \A y \in Fields \ {"windowlen", "queue", "out"} : t[y] = s[y]
  BY <1>1, SendQueuedIs
<1>3. DOMAIN s = Fields
  BY <1>1 DEF Sound
<1>4. /\ t.windowlen = s.windowlen + Cardinality(now)
      /\ t.queue = Marked(s.queue, now)
      /\ t.out = s.out \o IFrames(s, Only(s.queue, now))
  <2> DEFINE w == s.windowlen + Cardinality(now)
             q == Marked(s.queue, now)
             p == s.out \o IFrames(s, Only(s.queue, now))
  <2>1. t = [s EXCEPT !.windowlen = w, !.queue = q, !.out = p]
    BY DEF SendQueued
  <2> HIDE DEF t, w, q, p
  <2>2. t.windowlen = w /\ t.queue = q /\ t.out = p
    BY <1>3, <2>1 DEF Fields
  <2>3. QED
    BY <2>2 DEF w, q, p
<1>5. now \in SUBSET DOMAIN s.queue /\ now \in SUBSET Room(s)
  BY <1>1, UnsentAre
<1>6. \A i \in DOMAIN s.queue : s.queue[i] \in Entry(n)
  BY <1>1, UnsentAre
<1> HIDE DEF t
<1>7. \A y \in Core \ {"windowlen", "queue", "out"} : t[y] = s[y]
  BY <1>2 DEF Core, Fields
<1>8. \A i \in DOMAIN s.queue : /\ t.queue[i].data = s.queue[i].data /\ t.queue[i].ns = s.queue[i].ns
                                /\ t.queue[i].sent => s.queue[i].sent \/ i \in now
  <2>1. TAKE i \in DOMAIN s.queue
  <2> DEFINE x == s.queue[i]
             z == x.sent \/ i \in now
  <2>2. t.queue[i] = [x EXCEPT !.sent = z]
    BY <1>4 DEF Marked
  <2>3. x \in Entry(n)
    BY <1>6
  <2> HIDE DEF x, z
  <2>4. t.queue[i].data = x.data /\ t.queue[i].ns = x.ns /\ t.queue[i].sent = z
    BY <2>2, <2>3 DEF Entry
  <2>5. QED
    BY <2>4 DEF x, z
<1>9. \A i \in now : s.queue[i].sent \/ i \in now
  OBVIOUS
<1>10. t.out = s.out \o IFrames(s, Only(s.queue, now)) /\ t.windowlen = s.windowlen + Cardinality(now)
  BY <1>4
<1> HIDE DEF now
<1>11. Runs(t, n, o, S, U, b, a, v)
  BY <1>2, <1>5, <1>7, <1>8, <1>9, <1>10, BatchRuns
<1>12. QED
  BY <1>11 DEF t

\* After a reject frames go out again, and for the first time as far as the window allows.
LEMMA ResendRuns ==
  ASSUME NEW s, NEW n \in Nat, NEW o, NEW S, NEW U, NEW b, NEW a, NEW v, Runs(s, n, o, S, U, b, a, v),
         Live(s), NEW nr
  PROVE  Runs(Resend(s, nr), n, o, S, U, b, a, v)
<1> DEFINE t == Resend(s, nr)
           again == Resent(s, nr)
           R == again \cap Unsent(s)
<1>1. Sound(s, n, o)
  BY DEF Runs
<1>2. Sound(t, n, o)
  BY <1>1, ResendIs
<1>3. DOMAIN s = Fields
  BY <1>1 DEF Sound
<1>4. /\ t.windowlen = s.windowlen + Cardinality(R)
      /\ t.out = s.out \o IFrames(s, Only(s.queue, again))
      /\ \A y \in Fields \ {"windowlen", "out"} : t[y] = s[y]
  <2> DEFINE w == s.windowlen + Cardinality(R)
             p == s.out \o IFrames(s, Only(s.queue, again))
  <2>1. t = [s EXCEPT !.windowlen = w, !.out = p]
    BY DEF Resend
  <2> HIDE DEF t, w, p
  <2>2. t.windowlen = w /\ t.out = p /\ \A y \in Fields \ {"windowlen", "out"} : t[y] = s[y]
    BY <1>3, <2>1 DEF Fields
  <2>3. QED
    BY <2>2 DEF w, p
<1>5. again \in SUBSET DOMAIN s.queue /\ R \in SUBSET Room(s)
  <2>1. \A i \in R : i \in Room(s)
    <3>1. TAKE i \in R
    <3>2. i \in DOMAIN s.queue /\ ~s.queue[i].sent /\ (s.queue[i].sent \/ i \in Room(s))
      BY <3>1 DEF Resent, Unsent
    <3>3. QED
      BY <3>2
  <2>2. QED
    BY <2>1 DEF Resent
<1>6. \A i \in again : s.queue[i].sent \/ i \in R
  BY DEF Resent, Unsent
<1> HIDE DEF t, again, R
<1>7. \A y \in Core \ {"windowlen", "queue", "out"} : t[y] = s[y]
  BY <1>4 DEF Core, Fields
<1>8. t.queue = s.queue
  BY <1>4 DEF Fields
<1>9. Runs(t, n, o, S, U, b, a, v)
  BY <1>2, <1>4, <1>5, <1>6, <1>7, <1>8, BatchRuns
<1>10. QED
  BY <1>9 DEF t

\* m messages that arrived are acknowledged.
LEMMA AcknowledgeRuns ==
  ASSUME NEW s, NEW n \in Nat, NEW o, NEW S, NEW U, NEW b, NEW a, NEW v, Runs(s, n, o, S, U, b, a, v),
         Live(s), Silent(s),
         NEW m \in 0 .. Len(s.queue), \A d \in a .. (a + m) - 1 : d \in S,
         NEW ack, Names(ack, b, a + m)
  PROVE  /\ InWindow(s, ack) /\ Runs(Acknowledge(s, ack), n, o, S, U, b, a + m, v)
         /\ Acknowledge(s, ack).out = s.out
<1> DEFINE t == Acknowledge(s, ack)
           l == Len(s.queue)
           acked == Acked(s, ack)
           p == Outstanding(s, S)
<1>1. Sound(s, n, o) /\ Numbered(s, n) /\ Oldest(s, n) = a
  BY DEF Runs
<1>2. Shape(s, n, a, v)
  BY RunsAre
<1>3. /\ Mod \in Nat /\ Mod > 1 /\ K \in Nat /\ K + 1 < Mod
      /\ l \in Nat /\ DOMAIN s.queue = 1 .. l /\ a \in Int /\ a >= 1 /\ l <= s.v_s /\ l < Mod /\ s.v_s \in Nat
      /\ s.windowlen \in 0 .. K /\ m \in Nat /\ m <= l
      /\ \A i \in DOMAIN s.queue : /\ s.queue[i].data = a + (i - 1)
                                   /\ s.queue[i].ns = At(s, n, a + (i - 1))
  <2>1. /\ l \in Nat /\ DOMAIN s.queue = 1 .. l /\ a \in Int /\ a >= 1 /\ l <= s.v_s /\ l < Mod
        /\ s.v_s \in Nat /\ s.windowlen \in 0 .. K
        /\ \A i \in DOMAIN s.queue : /\ s.queue[i].data = a + (i - 1)
                                     /\ s.queue[i].ns = At(s, n, a + (i - 1))
    BY <1>2 DEF Shape
  <2>2. m \in 0 .. l
    OBVIOUS
  <2> HIDE DEF l
  <2>3. m \in Nat /\ m <= l
    BY <2>1, <2>2
  <2>4. QED
    BY <2>1, <2>3, ConstantsAre
<1>4. Carried(s.out) = {}
  BY DEF Silent, Carried
<1>5. Counted(s, S)
  <2>1. S \cup Carried(s.out) = S
    BY <1>4
  <2>2. Counted(s, S \cup Carried(s.out))
    BY DEF Runs
  <2>3. QED
    BY <2>1, <2>2
<1>6. Cardinality(p) <= s.windowlen /\ IsFiniteSet(p) /\ Cardinality(p) \in Nat
  <2>1. IsFiniteSet({}) /\ Outstanding(s, S) \subseteq Outstanding(s, S) \cup {}
    BY FS_EmptySet
  <2>2. IsFiniteSet(p) /\ Cardinality(p) \in Nat
    BY <1>1, <2>1, CountedLess
  <2>3. QED
    BY <1>5, <2>2 DEF Counted
<1>7. 1 .. m \in SUBSET p
  <2>1. SUFFICES ASSUME NEW i \in 1 .. m PROVE i \in p
    OBVIOUS
  <2> HIDE DEF l
  <2>2. i \in DOMAIN s.queue /\ a + (i - 1) \in a .. (a + m) - 1
    BY <1>3
  <2>3. i \in DOMAIN s.queue /\ s.queue[i].data = a + (i - 1) /\ a + (i - 1) \in a .. (a + m) - 1
    BY <1>3, <2>2
  <2>4. QED
    BY <2>3 DEF Outstanding
<1> HIDE DEF p, l
<1>8. IsFiniteSet(1 .. m) /\ Cardinality(1 .. m) = m
  <2>1. 1 \in Int /\ m \in Int
    BY <1>3
  <2>2. IsFiniteSet(1 .. m) /\ Cardinality(1 .. m) = IF 1 > m THEN 0 ELSE (m - 1) + 1
    BY <2>1, FS_Interval
  <2>3. QED
    BY <1>3, <2>2
<1>9. m <= Cardinality(p)
  BY <1>6, <1>7, <1>8, FS_Subset
<1>10. m + 1 < Mod
  BY <1>3, <1>6, <1>9
<1>11. InWindow(s, ack) /\ acked = 1 .. m
  <2>1. a + m \in Int
    BY <1>3
  <2>2. ack = At(s, n, a + m)
    BY <2>1 DEF Runs, Names
  <2>3. ack = At(s, n, Oldest(s, n) + m) /\ m \in 0 .. Len(s.queue)
    BY <1>1, <2>2
  <2>4. QED
    BY <1>1, <1>10, <2>3, AckedAre
<1> HIDE DEF acked
<1>12. CASE m = 0
  <2>1. acked = {} /\ a + m = a
    BY <1>3, <1>11, <1>12
  <2>2. t = s
    BY <2>1 DEF Acknowledge, acked
  <2>3. QED
    BY <1>11, <2>1, <2>2
<1>13. CASE m > 0
  <2> DEFINE top == CHOOSE i \in acked : \A j \in acked : j <= i
             w == s.windowlen - Cardinality(acked)
             q == Only(s.queue, DOMAIN s.queue \ acked)
             x == s.queue[top].ns
  <2>1. acked # {} /\ m \in acked /\ \A j \in acked : j <= m
    BY <1>3, <1>11, <1>13
  <2>2. top = m
    <3>1. top \in acked /\ \A j \in acked : j <= top
      BY <2>1, Zenon
    <3> HIDE DEF top
    <3>2. top \in 1 .. m /\ m <= top
      BY <1>11, <2>1, <3>1
    <3>3. QED
      BY <1>3, <3>2
  <2> HIDE DEF top
  <2>3. t = [s EXCEPT !.v_a = x, !.queue = q, !.retrans = 0, !.windowlen = w]
    BY <2>1 DEF Acknowledge, acked, top
  <2>4. /\ Sound(t, n, o)
        /\ \A y \in Fields \ {"v_a", "queue", "retrans", "windowlen"} : t[y] = s[y]
    BY <1>1, AcknowledgeIs
  <2> HIDE DEF x, q, w
  <2>5. t.v_a = x /\ t.queue = q /\ t.windowlen = w
    <3>1. DOMAIN s = Fields
      BY <1>1 DEF Sound
    <3> HIDE DEF t
    <3>2. QED
      BY <2>3, <3>1 DEF Fields
  <2> HIDE DEF t
  <2>6. t.state = s.state /\ t.v_s = s.v_s /\ t.v_r = s.v_r /\ t.out = s.out
    BY <2>4 DEF Fields
  <2>7. Len(q) = l - m /\ DOMAIN q = 1 .. l - m /\ \A i \in 1 .. l - m : q[i] = s.queue[m + i]
    <3>1. DOMAIN s.queue \ acked = (m + 1) .. l
      BY <1>3, <1>11
    <3>2. s.queue \in Seq(Entry(n))
      BY <1>1 DEF Sound
    <3>3. m \in 0 .. Len(s.queue)
      OBVIOUS
    <3>4. /\ q \in Seq(Entry(n)) /\ Len(q) = l - m
          /\ \A i \in 1 .. l - m : q[i] = s.queue[m + i]
      <4> DEFINE z == Only(s.queue, (m + 1) .. Len(s.queue))
      <4>1. q = z
        BY <3>1 DEF l, q
      <4>2. /\ z \in Seq(Entry(n)) /\ Len(z) = Len(s.queue) - m
            /\ \A i \in 1 .. Len(s.queue) - m : z[i] = s.queue[m + i]
        BY <3>2, <3>3, OnlyTail
      <4> HIDE DEF z
      <4>3. QED
        BY <4>1, <4>2 DEF l
    <3>5. DOMAIN q = 1 .. Len(q)
      BY <3>4
    <3>6. QED
      BY <3>4, <3>5
  <2>8. Oldest(t, n) = a + m /\ Live(t)
    <3>1. a = (n - l) + 1
      BY <1>1 DEF Oldest, l
    <3>2. Oldest(t, n) = (n - (l - m)) + 1
      BY <2>5, <2>7 DEF Oldest
    <3>3. QED
      BY <1>3, <3>1, <3>2, <2>6 DEF Live
  <2>9. \A d : At(t, n, d) = At(s, n, d)
    BY <2>6 DEF At
  <2>10. Numbered(t, n)
    <3>1. a + m >= 1 /\ l - m <= t.v_s /\ l - m < Mod
      BY <1>3, <2>6
    <3>2. ASSUME NEW i \in 1 .. l - m
          PROVE  /\ q[i].data = (a + m) + (i - 1)
                 /\ q[i].ns = At(t, n, (a + m) + (i - 1))
      <4>1. m + i \in DOMAIN s.queue /\ q[i] = s.queue[m + i]
        BY <1>3, <2>7
      <4>2. a + ((m + i) - 1) = (a + m) + (i - 1)
        BY <1>3
      <4>3. q[i].data = a + ((m + i) - 1) /\ q[i].ns = At(s, n, a + ((m + i) - 1))
        BY <1>3, <4>1
      <4>4. QED
        BY <2>9, <4>2, <4>3
    <3>3. t.v_a = At(t, n, (a + m) - 1)
      <4>1. m \in DOMAIN s.queue
        BY <1>3, <1>13
      <4>2. s.queue[m].ns = At(s, n, a + (m - 1)) /\ a + (m - 1) = (a + m) - 1
        BY <1>3, <4>1
      <4>3. QED
        BY <2>2, <2>5, <2>9, <4>2 DEF x
    <3>4. t.v_s # l - m
      BY <1>3, <1>13, <2>6
    <3>5. QED
      BY <2>5, <2>7, <2>8, <3>1, <3>2, <3>3, <3>4 DEF Numbered
  <2>11. Emitted(t, n, U)
    <3>1. Emitted(s, n, U)
      BY DEF Runs
    <3>2. QED
      BY <2>6, <2>8, <2>9, <3>1 DEF Emitted, Silent
  <2>12. Counted(t, S)
    <3> DEFINE r == Outstanding(t, S)
               z == p \ (1 .. m)
               f == [i \in r |-> m + i]
    <3>1. r \in SUBSET (1 .. l - m)
      BY <2>5, <2>7 DEF Outstanding
    <3>2. \A i \in r : m + i \in z
      <4>1. TAKE i \in r
      <4>2. i \in 1 .. l - m /\ (q[i].sent \/ q[i].data \in S)
        BY <2>5, <2>7, <3>1 DEF Outstanding
      <4>3. m + i \in DOMAIN s.queue /\ q[i] = s.queue[m + i] /\ m + i \notin 1 .. m
        BY <1>3, <2>7, <4>2
      <4>4. m + i \in p
        BY <4>2, <4>3 DEF p, Outstanding
      <4>5. QED
        BY <4>3, <4>4
    <3>3. IsFiniteSet(z) /\ Cardinality(z) = Cardinality(p) - m /\ Cardinality(z) \in Nat
      <4>1. p \cap (1 .. m) = 1 .. m
        BY <1>7
      <4>2. IsFiniteSet(z) /\ Cardinality(z) = Cardinality(p) - Cardinality(p \cap (1 .. m))
        BY <1>6, FS_Difference
      <4>3. Cardinality(z) \in Nat
        BY <4>2, FS_CardinalityType
      <4>4. QED
        BY <1>8, <4>1, <4>2, <4>3
    <3> HIDE DEF r, z
    <3>4. f \in Injection(r, z)
      <4>1. f \in [r -> z]
        BY <3>2
      <4>2. \A i, j \in r : f[i] = f[j] => i = j
        <5>1. TAKE i, j \in r
        <5>2. i \in Int /\ j \in Int /\ f[i] = m + i /\ f[j] = m + j
          BY <3>1
        <5>3. QED
          BY <1>3, <5>2
      <4> HIDE DEF f
      <4>3. QED
        BY <4>1, <4>2 DEF Injection, IsInjective
    <3>5. IsFiniteSet(r) /\ Cardinality(r) <= Cardinality(z)
      BY <3>3, <3>4, FS_Injection
    <3>6. Cardinality(r) \in Nat
      BY <3>5, FS_CardinalityType
    <3>7. w = s.windowlen - m
      BY <1>8, <1>11 DEF w
    <3>8. w \in 0 .. K /\ Cardinality(r) <= w
      BY <1>3, <1>6, <1>9, <3>3, <3>5, <3>6, <3>7, SMTT(30)
    <3>9. QED
      BY <2>5, <3>8 DEF Counted, r
  <2>13. S \cup Carried(t.out) = S
    BY <1>4, <2>6
  <2>14. \A d \in Int : At(t, n, d) = (b + d) % Mod
    BY <2>9 DEF Runs
  <2>15. t.v_r = v
    BY <2>6 DEF Runs
  <2>16. Runs(t, n, o, S, U, b, a + m, v)
    BY <2>4, <2>8, <2>10, <2>11, <2>12, <2>13, <2>14, <2>15 DEF Runs
  <2>17. QED
    BY <1>11, <2>6, <2>16 DEF t
<1>14. QED
  BY <1>3, <1>12, <1>13

-----------------------------------------------------------------------------
(* Supervisory frames and retransmission.                                   *)

\* An RR or REJ says v_r and changes nothing that is counted.
LEMMA SupervisoryRuns ==
  ASSUME NEW s, NEW n \in Nat, NEW o, NEW S, NEW U, NEW b, NEW a, NEW v, Runs(s, n, o, S, U, b, a, v),
         Live(s), NEW p \in BOOLEAN, NEW cmd \in BOOLEAN
  PROVE  /\ Runs(SendRR(s, p, cmd), n, o, S, U, b, a, v) /\ Live(SendRR(s, p, cmd))
         /\ Runs(SendReject(s, p), n, o, S, U, b, a, v) /\ Live(SendReject(s, p))
         /\ SendRR(s, p, cmd).queue = s.queue
         /\ Silent(s) => Silent(SendRR(s, p, cmd))
<1> DEFINE t == SendRR(s, p, cmd)
           u == SendReject(s, p)
           f == SFrame("RR", s, p, cmd)
           g == SFrame("REJ", s, p, FALSE)
<1>1. Sound(s, n, o)
  BY DEF Runs
<1>2. DOMAIN s = Fields /\ s.out \in Seq(Frame(n))
  BY <1>1 DEF Sound
<1>3. Sound(t, n, o) /\ \A y \in Fields \ {"v_na", "out"} : t[y] = s[y]
  BY <1>1, SendRRIs
<1>4. Sound(u, n, o) /\ \A y \in Fields \ {"sentrej", "out"} : u[y] = s[y]
  BY <1>1, SendRejectIs
<1>5. f \in Frame(n) /\ g \in Frame(n)
  BY <1>1, FramesAre
<1>6. /\ f.type = "RR" /\ f.nr = s.v_r /\ g.type = "REJ" /\ g.nr = s.v_r
      /\ "RR" \in NrTypes /\ "REJ" \in NrTypes
  BY DEF SFrame, NrTypes
<1> HIDE DEF f, g
<1>7. t.out = Append(s.out, f)
  BY <1>2 DEF SendRR, Transmit, Fields, f
<1>8. u.out = Append(s.out, g)
  BY <1>2 DEF SendReject, Transmit, Fields, g
<1> HIDE DEF t, u
<1>9. \A y \in Core \ {"out"} : t[y] = s[y] /\ u[y] = s[y]
  BY <1>3, <1>4 DEF Core, Fields
<1>10. Runs(t, n, o, S, U, b, a, v) /\ t.queue = s.queue /\ t.state = s.state
  BY <1>3, <1>5, <1>6, <1>7, <1>9, SaysRuns
<1>11. Runs(u, n, o, S, U, b, a, v) /\ u.state = s.state
  BY <1>4, <1>5, <1>6, <1>8, <1>9, SaysRuns
<1>12. Silent(s) => Silent(t)
  BY <1>2, <1>6, <1>7 DEF Silent
<1>13. QED
  BY <1>10, <1>11, <1>12 DEF Live, t, u

\* The last frame sent goes out again, if there is one.
LEMMA RetransmitLastRuns ==
  ASSUME NEW s, NEW n \in Nat, NEW o, NEW S, NEW U, NEW b, NEW a, NEW v, Runs(s, n, o, S, U, b, a, v),
         Live(s)
  PROVE  Runs(RetransmitLast(s), n, o, S, U, b, a, v) /\ Live(RetransmitLast(s))
<1> DEFINE t == RetransmitLast(s)
           sent == {i \in DOMAIN s.queue : s.queue[i].sent}
           top == CHOOSE i \in sent : \A j \in sent : j <= i
           f == IFrame(s, s.queue[top], TRUE)
           z == [s EXCEPT !.v_na = s.v_r]
<1>1. Sound(s, n, o)
  BY DEF Runs
<1>2. CASE sent = {}
  <2>1. t = s
    BY <1>2 DEF RetransmitLast
  <2>2. QED
    BY <2>1
<1>3. CASE sent # {}
  <2>1. t = Transmit(z, f)
    BY <1>3 DEF RetransmitLast
  <2>2. sent \in SUBSET (1 .. Len(s.queue)) /\ Len(s.queue) \in Nat
    BY <1>1, UnsentAre
  <2>3. top \in sent
    <3> HIDE DEF sent
    <3>1. \E i \in sent : \A j \in sent : j <= i
      BY <1>3, <2>2, Greatest
    <3>2. QED
      BY <3>1, Zenon
  <2> HIDE DEF top
  <2>4. top \in DOMAIN s.queue /\ s.queue[top].sent /\ s.queue[top] \in Entry(n)
    BY <1>1, <2>3, UnsentAre
  <2>5. f \in Frame(n)
    BY <1>1, <2>4, FramesAre
  <2>6. /\ f.type = "I" /\ f.nr = s.v_r /\ f.data = s.queue[top].data /\ f.ns = s.queue[top].ns
        /\ "I" \in NrTypes
    BY DEF IFrame, NrTypes
  <2>7. DOMAIN s = Fields
    BY <1>1 DEF Sound
  <2> HIDE DEF f
  <2>8. t.out = Append(s.out, f)
    BY <2>1, <2>7 DEF Transmit, Fields
  <2>9. Sound(t, n, o) /\ \A y \in Fields \ {"v_na", "out"} : t[y] = s[y]
    BY <1>1, RetransmitLastIs
  <2> HIDE DEF t
  <2>10. \A y \in Core \ {"out"} : t[y] = s[y]
    BY <2>9 DEF Core, Fields
  <2>11. Runs(t, n, o, S, U, b, a, v) /\ t.state = s.state
    BY <2>4, <2>5, <2>6, <2>8, <2>9, <2>10, SaysRuns
  <2>12. QED
    BY <2>11 DEF Live, t
<1>4. QED
  BY <1>2, <1>3

\* What q921_transmit_iframe leaves.
LEMMA TransmitIframeLeaves ==
  ASSUME NEW s, NEW n \in Nat, NEW m \in Nat, Sound(s, n, m)
  PROVE  LET t == TransmitIframe(s, n + 1)
         IN  \E f \in Entry(n + 1) :
               /\ f.data = n + 1 /\ f.ns = s.v_s % Mod
               /\ t.state = s.state /\ t.v_s = s.v_s + 1 /\ t.v_a = s.v_a /\ t.v_r = s.v_r
               /\ t.queue = Append(s.queue, f)
               /\ IF f.sent
                  THEN /\ Live(s) /\ s.windowlen < K /\ t.windowlen = s.windowlen + 1
                       /\ t.out = Append(s.out, IFrame(s, f, FALSE))
                  ELSE t.windowlen = s.windowlen /\ t.out = s.out
<1> DEFINE up == s.state = "established"
           Now == up /\ s.retrans = 0 /\ ~s.busy /\ s.windowlen < K
           f == [ns |-> s.v_s % Mod, sent |-> Now, data |-> n + 1]
           g == IFrame(s, f, FALSE)
           q == Append(s.queue, f)
           vs == s.v_s + 1
           r == s.v_r
           w == s.windowlen + 1
           x == [s EXCEPT !.queue = q, !.v_s = vs, !.v_na = r]
           c == Transmit([x EXCEPT !.windowlen = w], g)
           d == IF Now THEN c ELSE x
           e == Stop(d, "t203")
           t == IF up THEN Again(e, "t200") ELSE e
<1>1. DOMAIN s = Fields
  BY DEF Sound
<1>2. TransmitIframe(s, n + 1) = t
  BY DEF TransmitIframe
<1>3. f \in Entry(n + 1) /\ f.data = n + 1 /\ f.ns = s.v_s % Mod /\ f.sent = Now
  <2>1. s.v_s \in Int
    <3>1. s.v_s \in 0 .. n + Mod - 1
      BY DEF Sound
    <3>2. QED
      BY <3>1, ConstantsAre
  <2>2. s.v_s % Mod \in Num
    BY <2>1, ConstantsAre
  <2>3. Now \in BOOLEAN /\ n + 1 \in 1 .. n + 1
    OBVIOUS
  <2> HIDE DEF Now
  <2>4. QED
    BY <2>2, <2>3 DEF Entry
<1> HIDE DEF f, g, q, vs, r, w
<1>4. /\ DOMAIN x = Fields
      /\ x.state = s.state /\ x.v_s = vs /\ x.v_a = s.v_a /\ x.v_r = s.v_r
      /\ x.queue = q /\ x.windowlen = s.windowlen /\ x.out = s.out
  BY <1>1 DEF Fields
<1> HIDE DEF x
<1>5. /\ DOMAIN c = Fields
      /\ c.state = s.state /\ c.v_s = vs /\ c.v_a = s.v_a /\ c.v_r = s.v_r
      /\ c.queue = q /\ c.windowlen = w /\ c.out = Append(s.out, g)
  BY <1>4 DEF Fields, Transmit
<1> HIDE DEF c
<1>6. /\ DOMAIN d = Fields
      /\ d.state = s.state /\ d.v_s = vs /\ d.v_a = s.v_a /\ d.v_r = s.v_r
      /\ d.queue = q /\ d.windowlen = (IF Now THEN w ELSE s.windowlen)
      /\ d.out = IF Now THEN Append(s.out, g) ELSE s.out
  <2> HIDE DEF Now
  <2>1. CASE Now
    BY <1>5, <2>1
  <2>2. CASE ~Now
    BY <1>4, <2>2
  <2>3. QED
    BY <2>1, <2>2
<1> HIDE DEF d
<1>7. /\ t.state = d.state /\ t.v_s = d.v_s /\ t.v_a = d.v_a /\ t.v_r = d.v_r
      /\ t.queue = d.queue /\ t.windowlen = d.windowlen /\ t.out = d.out
  <2>1. /\ DOMAIN e = Fields /\ e.state = d.state /\ e.v_s = d.v_s /\ e.v_a = d.v_a /\ e.v_r = d.v_r
        /\ e.queue = d.queue /\ e.windowlen = d.windowlen /\ e.out = d.out
    BY <1>6 DEF Stop, Fields
  <2> HIDE DEF e
  <2>2. CASE up
    BY <2>1, <2>2 DEF Again, Start, Fields
  <2>3. CASE ~up
    BY <2>1, <2>3
  <2>4. QED
    BY <2>2, <2>3
<1> HIDE DEF t
<1>8. /\ t.state = s.state /\ t.v_s = s.v_s + 1 /\ t.v_a = s.v_a /\ t.v_r = s.v_r
      /\ t.queue = Append(s.queue, f)
  BY <1>6, <1>7 DEF q, vs
<1>9. IF f.sent
      THEN /\ Live(s) /\ s.windowlen < K /\ t.windowlen = s.windowlen + 1
           /\ t.out = Append(s.out, IFrame(s, f, FALSE))
      ELSE t.windowlen = s.windowlen /\ t.out = s.out
  <2>1. Now => Live(s) /\ s.windowlen < K
    BY DEF Live
  <2> HIDE DEF Now
  <2>2. CASE Now
    BY <1>3, <1>6, <1>7, <2>1, <2>2 DEF w, g
  <2>3. CASE ~Now
    BY <1>3, <1>6, <1>7, <2>3
  <2>4. QED
    BY <2>2, <2>3
<1>10. QED
  BY <1>2, <1>3, <1>8, <1>9

-----------------------------------------------------------------------------
(* Layer 3 has a message.                                                   *)

\* One more waits.
LEMMA TransmitIframeRuns ==
  ASSUME NEW s, NEW n \in Nat, NEW o \in Nat, NEW S, NEW U, NEW b, NEW a, NEW v, Runs(s, n, o, S, U, b, a, v),
         Len(s.queue) < Mod - 1, n + 1 \notin S
  PROVE  LET t == TransmitIframe(s, n + 1)
         IN  /\ Runs(t, n + 1, o, S, U, b, a, v) /\ t.state = s.state
<1> DEFINE t == TransmitIframe(s, n + 1)
           l == Len(s.queue)
           k == n + 1
<1>1. Sound(s, n, o) /\ Numbered(s, n) /\ Oldest(s, n) = a
  BY DEF Runs
<1>2. Sound(t, k, o)
  BY <1>1, TransmitIframeIs
<1>3. PICK f \in Entry(k) :
               /\ f.data = k /\ f.ns = s.v_s % Mod
               /\ t.state = s.state /\ t.v_s = s.v_s + 1 /\ t.v_a = s.v_a /\ t.v_r = s.v_r
               /\ t.queue = Append(s.queue, f)
               /\ IF f.sent
                  THEN /\ Live(s) /\ s.windowlen < K /\ t.windowlen = s.windowlen + 1
                       /\ t.out = Append(s.out, IFrame(s, f, FALSE))
                  ELSE t.windowlen = s.windowlen /\ t.out = s.out
  BY <1>1, TransmitIframeLeaves
<1> HIDE DEF t
<1>4. Shape(s, n, a, v)
  BY RunsAre
<1>5. /\ Mod \in Nat /\ Mod > 1 /\ K \in Nat /\ l \in Nat /\ DOMAIN s.queue = 1 .. l
      /\ a = (n - l) + 1 /\ a \in Int /\ a >= 1 /\ l <= s.v_s /\ s.v_s \in Nat /\ s.windowlen \in 0 .. K
      /\ l + 1 < Mod
      /\ \A i \in DOMAIN s.queue : s.queue[i].data = a + (i - 1) /\ s.queue[i].ns = At(s, n, a + (i - 1))
  <2>1. /\ Mod \in Nat /\ Mod > 1 /\ K \in Nat /\ l \in Nat /\ DOMAIN s.queue = 1 .. l
        /\ a = (n - l) + 1 /\ a \in Int /\ a >= 1 /\ l <= s.v_s /\ s.v_s \in Nat /\ s.windowlen \in 0 .. K
        /\ \A i \in DOMAIN s.queue : s.queue[i].data = a + (i - 1) /\ s.queue[i].ns = At(s, n, a + (i - 1))
    BY <1>4 DEF Shape
  <2>2. l + 1 < Mod
    BY <2>1
  <2>3. QED
    BY <2>1, <2>2
<1>6. s.queue \in Seq(Entry(n)) /\ s.out \in Seq(Frame(n))
  BY <1>1 DEF Sound
<1> HIDE DEF l
<1>7. /\ Len(t.queue) = l + 1 /\ DOMAIN t.queue = 1 .. l + 1
      /\ \A i \in 1 .. l : t.queue[i] = s.queue[i]
      /\ t.queue[l + 1] = f
  BY <1>3, <1>5, <1>6 DEF l
<1>8. Oldest(t, k) = a /\ Live(t) = Live(s)
  BY <1>3, <1>5, <1>7 DEF Oldest, Live
<1>9. \A d \in Int : At(t, k, d) = At(s, n, d)
  <2>1. TAKE d \in Int
  <2>2. ((s.v_s + 1) - (n + 1)) + (d - 1) = (s.v_s - n) + (d - 1)
    BY <1>5, SMTT(30)
  <2>3. QED
    BY <1>3, <2>2 DEF At
<1>10. f.ns = At(s, n, k)
  <2>1. (s.v_s - n) + ((n + 1) - 1) = s.v_s
    BY <1>5
  <2>2. QED
    BY <1>3, <2>1 DEF At
<1>11. k = a + l /\ k \in Int
  BY <1>5
<1>12. Numbered(t, k)
  <2>1. l + 1 <= t.v_s /\ l + 1 < Mod
    BY <1>3, <1>5
  <2>2. ASSUME NEW i \in 1 .. l + 1
        PROVE  t.queue[i].data = a + (i - 1) /\ t.queue[i].ns = At(t, k, a + (i - 1))
    <3>1. CASE i \in 1 .. l
      <4>1. i \in DOMAIN s.queue /\ a + (i - 1) \in Int
        BY <1>5, <3>1
      <4>2. t.queue[i].data = a + (i - 1) /\ t.queue[i].ns = At(s, n, a + (i - 1)) /\ a + (i - 1) \in Int
        BY <1>5, <1>7, <3>1, <4>1
      <4>3. QED
        BY <1>9, <4>2
    <3>2. CASE i = l + 1
      <4>1. a + (i - 1) = k
        BY <1>5, <1>11, <3>2
      <4>2. QED
        BY <1>3, <1>7, <1>9, <1>10, <1>11, <3>2, <4>1
    <3>3. QED
      BY <1>5, <3>1, <3>2
  <2>3. t.v_a \in {At(t, k, a), At(t, k, a - 1)}
    <3>1. a \in Int /\ a - 1 \in Int
      BY <1>5
    <3>2. s.v_a \in {At(s, n, a), At(s, n, a - 1)}
      BY <1>1 DEF Numbered
    <3>3. QED
      BY <1>3, <1>9, <3>1, <3>2
  <2>4. /\ t.v_s = l + 1 => t.v_a = 0
        /\ ~Live(t) => t.v_s = l + 1 /\ t.v_r = 0 /\ t.windowlen = 0
    <3>1. /\ s.v_s = l => s.v_a = 0
          /\ ~Live(s) => s.v_s = l /\ s.v_r = 0 /\ s.windowlen = 0
      BY <1>1 DEF Numbered, l
    <3>2. t.v_s = l + 1 <=> s.v_s = l
      BY <1>3, <1>5
    <3>3. ~Live(s) => t.windowlen = s.windowlen
      BY <1>3
    <3>4. QED
      BY <1>3, <1>8, <3>1, <3>2, <3>3
  <2>5. a >= 1
    BY <1>5
  <2>6. QED
    BY <1>7, <1>8, <2>1, <2>2, <2>3, <2>4, <2>5 DEF Numbered
<1>13. Emitted(t, k, U)
  <2>1. Emitted(s, n, U)
    BY DEF Runs
  <2>2. ASSUME NEW x \in DOMAIN s.out
        PROVE  /\ s.out[x].type \in NrTypes \cup U
               /\ s.out[x].type \in NrTypes => Live(t) /\ s.out[x].nr = t.v_r
               /\ s.out[x].type = "I" => s.out[x].data \in a .. k /\ s.out[x].ns = At(t, k, s.out[x].data)
    <3>1. /\ s.out[x].type \in NrTypes \cup U
          /\ s.out[x].type \in NrTypes => Live(s) /\ s.out[x].nr = s.v_r
          /\ s.out[x].type = "I" => s.out[x].data \in a .. n /\ s.out[x].ns = At(s, n, s.out[x].data)
      BY <1>1, <2>1 DEF Emitted
    <3>2. \A d \in a .. n : d \in a .. k /\ d \in Int
      BY <1>5
    <3>3. QED
      BY <1>3, <1>8, <1>9, <3>1, <3>2
  <2>3. CASE ~f.sent
    BY <1>3, <1>8, <2>2, <2>3 DEF Emitted
  <2>4. CASE f.sent
    <3> DEFINE g == IFrame(s, f, FALSE)
    <3>1. g.type = "I" /\ g.nr = t.v_r /\ g.data = k /\ g.ns = At(t, k, k) /\ "I" \in NrTypes
      BY <1>3, <1>9, <1>10, <1>11 DEF IFrame, NrTypes
    <3>2. k \in a .. k
      BY <1>5, <1>11
    <3>3. Live(t) /\ t.out = Append(s.out, g)
      BY <1>3, <1>8, <2>4
    <3> HIDE DEF g
    <3>4. \A x \in DOMAIN t.out : (x \in DOMAIN s.out /\ t.out[x] = s.out[x]) \/ t.out[x] = g
      BY <1>6, <3>3
    <3>5. SUFFICES ASSUME NEW x \in DOMAIN t.out
                   PROVE  /\ t.out[x].type \in NrTypes \cup U
                          /\ t.out[x].type \in NrTypes => Live(t) /\ t.out[x].nr = t.v_r
                          /\ t.out[x].type = "I" => t.out[x].data \in a .. k /\ t.out[x].ns = At(t, k, t.out[x].data)
      BY <1>8 DEF Emitted
    <3>6. CASE x \in DOMAIN s.out /\ t.out[x] = s.out[x]
      BY <2>2, <3>6
    <3>7. CASE t.out[x] = g
      BY <3>1, <3>2, <3>3, <3>7
    <3>8. QED
      BY <3>4, <3>6, <3>7
  <2>5. QED
    BY <2>3, <2>4
<1>14. Counted(t, S \cup Carried(t.out))
  <2> DEFINE P == S \cup Carried(s.out)
             Q == S \cup Carried(t.out)
  <2>1. Counted(s, P)
    BY DEF Runs
  <2>2. \A i \in DOMAIN s.queue : s.queue[i].data \in a .. n
    BY <1>4, PlacesAre
  <2>3. k \notin P /\ k \notin a .. n
    <3>1. k \notin a .. n
      BY <1>5
    <3>2. \A d \in Carried(s.out) : d \in a .. n
      <4>1. Emitted(s, n, U)
        BY DEF Runs
      <4>2. QED
        BY <1>1, <4>1 DEF Emitted, Carried
    <3>3. QED
      BY <3>1, <3>2
  <2> DEFINE x == Cardinality(Outstanding(t, Q))
             y == Cardinality(Outstanding(s, P))
  <2>4. y <= s.windowlen /\ s.windowlen \in 0 .. K
    BY <2>1 DEF Counted
  <2>5. CASE ~f.sent
    <3>1. t.windowlen = s.windowlen /\ t.out = s.out
      BY <1>3, <2>5
    <3>2. Outstanding(t, Q) \subseteq Outstanding(s, P) \cup {}
      <4>1. SUFFICES ASSUME NEW i \in 1 .. l + 1, t.queue[i].sent \/ t.queue[i].data \in P
                     PROVE  i \in Outstanding(s, P)
        BY <1>7, <3>1 DEF Outstanding
      <4>2. i # l + 1
        BY <1>3, <1>7, <2>3, <2>5, <4>1
      <4>3. i \in DOMAIN s.queue /\ i \in 1 .. l
        BY <1>5, <4>2
      <4>4. t.queue[i] = s.queue[i]
        BY <1>7, <4>3
      <4>5. QED
        BY <4>1, <4>3, <4>4 DEF Outstanding
    <3> HIDE DEF P, Q
    <3>3. x <= y + Cardinality({}) /\ x \in Nat /\ y \in Nat
      BY <1>1, <3>2, FS_EmptySet, CountedLess
    <3>4. Cardinality({}) = 0
      BY FS_EmptySet
    <3> HIDE DEF x, y
    <3>5. x <= t.windowlen /\ t.windowlen \in 0 .. K
      BY <1>5, <2>4, <3>1, <3>3, <3>4
    <3>6. QED
      BY <3>5 DEF Counted, x, Q
  <2>6. CASE f.sent
    <3> DEFINE g == IFrame(s, f, FALSE)
    <3>1. s.windowlen < K /\ t.windowlen = s.windowlen + 1 /\ t.out = Append(s.out, g)
      BY <1>3, <2>6
    <3>2. g.data = k
      BY <1>3 DEF IFrame
    <3> HIDE DEF g
    <3>3. \A d \in Carried(t.out) : d \in Carried(s.out) \/ d = k
      <4>1. \A z \in DOMAIN t.out : (z \in DOMAIN s.out /\ t.out[z] = s.out[z]) \/ t.out[z] = g
        BY <1>6, <3>1
      <4>2. QED
        BY <3>2, <4>1 DEF Carried
    <3>4. Outstanding(t, Q) \subseteq Outstanding(s, P) \cup {l + 1}
      <4>1. SUFFICES ASSUME NEW i \in 1 .. l + 1, i # l + 1, t.queue[i].sent \/ t.queue[i].data \in Q
                     PROVE  i \in Outstanding(s, P)
        BY <1>7 DEF Outstanding
      <4>2. i \in DOMAIN s.queue /\ i \in 1 .. l
        BY <1>5, <4>1
      <4>3. t.queue[i] = s.queue[i] /\ s.queue[i].data \in a .. n
        BY <1>7, <2>2, <4>2
      <4>4. QED
        BY <2>3, <3>3, <4>1, <4>2, <4>3 DEF Outstanding
    <3> HIDE DEF P, Q
    <3>5. IsFiniteSet({l + 1}) /\ Cardinality({l + 1}) = 1
      BY FS_Singleton
    <3>6. x <= y + Cardinality({l + 1}) /\ x \in Nat /\ y \in Nat
      BY <1>1, <3>4, <3>5, CountedLess
    <3> HIDE DEF x, y
    <3>7. x <= t.windowlen /\ t.windowlen \in 0 .. K
      BY <1>5, <2>4, <3>1, <3>5, <3>6, SMTT(30)
    <3>8. QED
      BY <3>7 DEF Counted, x, Q
  <2>7. QED
    BY <2>5, <2>6
<1>15. \A d \in Int : At(t, k, d) = (b + d) % Mod
  BY <1>9 DEF Runs
<1>16. t.v_r = v
  BY <1>3 DEF Runs
<1>17. QED
  BY <1>2, <1>3, <1>8, <1>12, <1>13, <1>14, <1>15, <1>16 DEF Runs, t

-----------------------------------------------------------------------------
(* What is acknowledged.                                                    *)

\* Other fields change.
LEMMA FieldRuns ==
  ASSUME NEW s, NEW n, NEW o, NEW S, NEW U, NEW b, NEW a, NEW v, Runs(s, n, o, S, U, b, a, v), Live(s),
         NEW t, Sound(t, n, o), \A y \in {"state", "v_s", "v_a", "v_r", "windowlen", "queue", "out", "up"} : t[y] = s[y]
  PROVE  Runs(t, n, o, S, U, b, a, v) /\ Live(t) /\ t.out = s.out /\ t.queue = s.queue /\ t.up = s.up
<1>1. \A y \in Core : t[y] = s[y]
  BY DEF Core
<1>2. /\ Runs(t, n, o, S, U, b, a, v)
      /\ t.out = s.out /\ t.queue = s.queue /\ t.state = s.state
  BY <1>1, LikeRuns
<1>3. t.up = s.up
  OBVIOUS
<1>4. QED
  BY <1>2, <1>3 DEF Live

\* A timer is set or stopped.
LEMMA TimerRuns ==
  ASSUME NEW s, NEW n, NEW o, NEW S, NEW U, NEW b, NEW a, NEW v, Runs(s, n, o, S, U, b, a, v), Live(s),
         NEW x \in Timers, NEW t, t = Again(s, x) \/ t = Stop(s, x) \/ t = Start(s, x, x)
  PROVE  Runs(t, n, o, S, U, b, a, v) /\ Live(t) /\ t.out = s.out /\ t.queue = s.queue /\ t.up = s.up
<1>1. Sound(s, n, o)
  BY DEF Runs
<1>2. x \in Events
  BY DEF Timers, Events
<1>3. Sound(t, n, o) /\ \A y \in Fields \ {"on"} : t[y] = s[y]
  <2>1. CASE t = Again(s, x)
    BY <1>1, <2>1, AgainIs
  <2>2. CASE t = Stop(s, x)
    BY <1>1, <2>2, StopIs
  <2>3. CASE t = Start(s, x, x)
    BY <1>1, <1>2, <2>3, StartIs
  <2>4. QED
    BY <2>1, <2>2, <2>3
<1>4. \A y \in {"state", "v_s", "v_a", "v_r", "windowlen", "queue", "out", "up"} : t[y] = s[y]
  BY <1>3 DEF Fields
<1>5. QED
  BY <1>3, <1>4, FieldRuns

\* q921_ack_rx, given what the peer took, takes that out and sends what waits for the window.
LEMMA AckRxRuns ==
  ASSUME NEW s, NEW n \in Nat, NEW o, NEW S, NEW U, NEW b, NEW a, NEW v, Runs(s, n, o, S, U, b, a, v),
         Live(s), Silent(s),
         NEW m \in 0 .. Len(s.queue), \A d \in a .. (a + m) - 1 : d \in S,
         NEW ack, Names(ack, b, a + m), NEW sendunsent \in BOOLEAN
  PROVE  LET t == AckRx(s, ack, sendunsent)
         IN  /\ InWindow(s, ack) /\ Runs(t, n, o, S, U, b, a + m, v) /\ Live(t) /\ t.up = s.up
             /\ ~sendunsent => t.out = s.out
<1> DEFINE A == Acknowledge(s, ack)
           B == IF A.queue = <<>> THEN Stop(A, "t200") ELSE A
           C == Stop(B, "t203")
           z == [C EXCEPT !.retrans = 0]
           D == IF ~C.busy /\ sendunsent THEN SendQueued(z) ELSE C
           t == IF C.queue = <<>> THEN Start(C, "t203", "t203") ELSE Again(D, "t200")
           e == a + m
<1>1. "t203" \in Timers /\ "t200" \in Timers /\ 0 \in 0 .. N200
  BY ConstantsAre DEF Timers
<1>2. AckRx(s, ack, sendunsent) = t
  BY DEF AckRx
<1>3. Sound(s, n, o)
  BY DEF Runs
<1>4. InWindow(s, ack) /\ Runs(A, n, o, S, U, b, e, v) /\ A.out = s.out
  BY AcknowledgeRuns
<1>5. A.state = s.state /\ A.up = s.up
  BY <1>3, AcknowledgeIs DEF Fields
<1> HIDE DEF A, e
<1>6. Runs(A, n, o, S, U, b, e, v) /\ Live(A) /\ A.out = s.out /\ A.up = s.up
  BY <1>4, <1>5 DEF Live
<1>7. Runs(B, n, o, S, U, b, e, v) /\ Live(B) /\ B.out = s.out /\ B.up = s.up
  <2>1. CASE A.queue = <<>>
    BY <1>1, <1>6, <2>1, TimerRuns
  <2>2. CASE A.queue # <<>>
    BY <1>6, <2>2
  <2>3. QED
    BY <2>1, <2>2
<1> HIDE DEF B
<1>8. Runs(C, n, o, S, U, b, e, v) /\ Live(C) /\ C.out = s.out /\ C.up = s.up
  BY <1>1, <1>7, TimerRuns
<1> HIDE DEF C
<1>9. Runs(z, n, o, S, U, b, e, v) /\ Live(z) /\ z.out = s.out /\ z.up = s.up
  <2>1. Sound(C, n, o)
    BY <1>8 DEF Runs
  <2>2. /\ Sound(z, n, o)
        /\ \A y \in {"state", "v_s", "v_a", "v_r", "windowlen", "queue", "out", "up"} : z[y] = C[y]
    BY <1>1, <2>1 DEF Sound, Fields
  <2> HIDE DEF z
  <2>3. QED
    BY <1>8, <2>2, FieldRuns
<1> HIDE DEF z
<1>10. Runs(D, n, o, S, U, b, e, v) /\ Live(D) /\ D.up = s.up /\ (~sendunsent => D.out = s.out)
  <2>1. Runs(SendQueued(z), n, o, S, U, b, e, v)
    BY <1>9, SendQueuedRuns
  <2>2. SendQueued(z).state = z.state /\ SendQueued(z).up = z.up
    <3>1. Sound(z, n, o)
      BY <1>9 DEF Runs
    <3>2. QED
      BY <3>1, SendQueuedIs DEF Fields
  <2>3. QED
    BY <1>8, <1>9, <2>1, <2>2 DEF Live
<1> HIDE DEF D
<1>11. Runs(t, n, o, S, U, b, e, v) /\ Live(t) /\ t.up = s.up /\ (~sendunsent => t.out = s.out)
  <2>1. CASE C.queue = <<>>
    <3>1. t = Start(C, "t203", "t203")
      BY <2>1
    <3> HIDE DEF t
    <3>2. QED
      BY <1>1, <1>8, <3>1, TimerRuns
  <2>2. CASE C.queue # <<>>
    <3>1. t = Again(D, "t200")
      BY <2>2
    <3> HIDE DEF t
    <3>2. QED
      BY <1>1, <1>10, <3>1, TimerRuns
  <2>3. QED
    BY <2>1, <2>2
<1>12. QED
  BY <1>2, <1>4, <1>11 DEF e

\* The next number is expected.
LEMMA NextRuns ==
  ASSUME NEW s, NEW n, NEW o, NEW S, NEW U, NEW b, NEW a, NEW v, Runs(s, n, o, S, U, b, a, v),
         Live(s), s.out = <<>>,
         NEW t, Sound(t, n, o), \A y \in Core \ {"v_r"} : t[y] = s[y]
  PROVE  Runs(t, n, o, S, U, b, a, t.v_r) /\ Live(t) /\ t.out = <<>>
<1>1. /\ t.state = s.state /\ t.v_s = s.v_s /\ t.v_a = s.v_a
      /\ t.windowlen = s.windowlen /\ t.queue = s.queue /\ t.out = <<>>
  BY DEF Core
<1>2. Oldest(t, n) = Oldest(s, n) /\ Live(t)
  BY <1>1 DEF Oldest, Live
<1>3. \A d : At(t, n, d) = At(s, n, d)
  BY <1>1 DEF At
<1>4. Numbered(t, n)
  <2>1. Numbered(s, n)
    BY DEF Runs
  <2>2. QED
    BY <1>1, <1>2, <1>3, <2>1 DEF Numbered
<1>5. Emitted(t, n, U)
  BY <1>1 DEF Emitted
<1>6. Counted(t, S \cup Carried(t.out))
  <2>1. Counted(s, S \cup Carried(s.out))
    BY DEF Runs
  <2>2. Outstanding(t, S \cup Carried(t.out)) = Outstanding(s, S \cup Carried(s.out))
    BY <1>1 DEF Outstanding
  <2>3. QED
    BY <1>1, <2>1, <2>2 DEF Counted
<1>7. \A d \in Int : At(t, n, d) = (b + d) % Mod
  BY <1>3 DEF Runs
<1>8. Oldest(t, n) = a
  BY <1>2 DEF Runs
<1>9. QED
  BY <1>1, <1>2, <1>4, <1>5, <1>6, <1>7, <1>8 DEF Runs

\* A queue that is empty after a reject: the numbers start from the one asked for.
LEMMA RenumberRuns ==
  ASSUME NEW s, NEW n \in Nat, NEW o, NEW S, NEW U, NEW b, NEW a, NEW v, Runs(s, n, o, S, U, b, a, v),
         Live(s), s.queue = <<>>, NEW nr, nr \in Num, Names(nr, b, a),
         NEW t, Sound(t, n, o), \A y \in (Core \cup {"up"}) \ {"v_s", "v_a"} : t[y] = s[y],
         t.v_s = nr, t.v_a = nr
  PROVE  Runs(t, n, o, S, U, b, a, v) /\ Live(t) /\ t.out = s.out /\ t.up = s.up
<1>1. /\ t.state = s.state /\ t.v_r = s.v_r
      /\ t.windowlen = s.windowlen /\ t.queue = s.queue /\ t.out = s.out /\ t.up = s.up
  BY DEF Core
<1>2. Oldest(t, n) = Oldest(s, n) /\ Live(t) /\ Len(t.queue) = 0 /\ DOMAIN t.queue = {}
  BY <1>1 DEF Oldest, Live
<1>3. Oldest(s, n) = n + 1 /\ a = n + 1
  <2>1. Oldest(s, n) = (n - 0) + 1
    BY DEF Oldest
  <2>2. QED
    BY <2>1 DEF Runs
<1>4. s.v_s \in Nat /\ Mod \in Nat /\ Mod > 1 /\ nr \in Nat
  <2>1. Sound(s, n, o)
    BY DEF Runs
  <2>2. QED
    BY <2>1, ConstantsAre DEF Sound, Num
<1>5. nr = s.v_s % Mod
  <2>1. At(s, n, n + 1) = (b + (n + 1)) % Mod
    BY DEF Runs
  <2>2. At(s, n, n + 1) = s.v_s % Mod
    <3>1. (s.v_s - n) + ((n + 1) - 1) = s.v_s
      BY <1>4
    <3>2. QED
      BY <3>1 DEF At
  <2>3. QED
    BY <1>3, <2>1, <2>2 DEF Names
<1>6. \A d \in Int : At(t, n, d) = At(s, n, d)
  <2>1. TAKE d \in Int
  <2> DEFINE y == (d - 1) - n
             x == s.v_s
  <2>2. x \in Int /\ y \in Int
    BY <1>4
  <2>3. (nr - n) + (d - 1) = nr + y /\ (x - n) + (d - 1) = x + y
    BY <1>4, <2>2
  <2>4. ((x % Mod) + y) % Mod = (x + y) % Mod
    <3> HIDE DEF x, y
    <3>1. QED
      BY <2>2, Reduced
  <2>5. At(t, n, d) = (nr + y) % Mod /\ At(s, n, d) = (x + y) % Mod
    BY <2>3 DEF At
  <2> HIDE DEF x, y
  <2>6. QED
    BY <1>5, <2>4, <2>5 DEF x
<1>7. Numbered(t, n)
  <2>1. At(t, n, n + 1) = nr
    <3>1. nr % Mod = nr
      BY <1>4, Reduced
    <3>2. (nr - n) + ((n + 1) - 1) = nr
      BY <1>4
    <3>3. QED
      BY <3>1, <3>2 DEF At
  <2>2. n + 1 >= 1 /\ 0 <= nr /\ 0 < Mod
    BY <1>4
  <2>3. QED
    BY <1>2, <1>3, <2>1, <2>2 DEF Numbered
<1>8. Emitted(t, n, U)
  <2>1. Emitted(s, n, U)
    BY DEF Runs
  <2>2. SUFFICES ASSUME NEW k \in DOMAIN s.out, s.out[k].type = "I"
                 PROVE  s.out[k].ns = At(t, n, s.out[k].data)
    BY <1>1, <1>2, <2>1 DEF Emitted
  <2>3. s.out[k].data \in (n + 1) .. n
    BY <1>3, <2>1, <2>2 DEF Emitted
  <2>4. QED
    BY <2>3
<1>9. Counted(t, S \cup Carried(t.out))
  <2>1. Counted(s, S \cup Carried(s.out))
    BY DEF Runs
  <2>2. Outstanding(t, S \cup Carried(t.out)) = Outstanding(s, S \cup Carried(s.out))
    BY <1>1 DEF Outstanding
  <2>3. QED
    BY <1>1, <2>1, <2>2 DEF Counted
<1>10. \A d \in Int : At(t, n, d) = (b + d) % Mod
  BY <1>6 DEF Runs
<1>11. Oldest(t, n) = a /\ t.v_r = v
  BY <1>1, <1>2 DEF Runs
<1>12. QED
  BY <1>1, <1>2, <1>7, <1>8, <1>9, <1>10, <1>11 DEF Runs

-----------------------------------------------------------------------------
(* A message is passed on.                                                  *)

\* What a station transmits beyond frames with numbers: nothing.
Plain == {}

\* There is room for the message layer 3 hands down, if it does.
Fits(replies, n, a, S) == replies # <<>> => n + 1 < (a + Mod) - 1 /\ n + 1 \notin S

\* A message is passed to layer 3, which may answer.
LEMMA DeliverRuns ==
  ASSUME NEW s, NEW n \in Nat, NEW o \in Nat, NEW S, NEW U, NEW b, NEW a, NEW v,
         Runs(s, n, o, S, U, b, a, v), Live(s), s.up = <<>>, NEW data \in 1 .. o,
         NEW k, NEW replies, Told(replies, n, k), Fits(replies, n, a, S)
  PROVE  LET t == Deliver(s, data, replies)
         IN  Runs(t, k, o, S, U, b, a, v) /\ Live(t) /\ t.up = <<data>>
<1> DEFINE p == Append(s.up, data)
           u == [s EXCEPT !.up = p]
           t == IF replies = <<>> THEN u ELSE TransmitIframe(u, Head(replies))
<1>1. Sound(s, n, o)
  BY DEF Runs
<1>2. p = <<data>> /\ p \in Seq(1 .. o)
  OBVIOUS
<1>3. Deliver(s, data, replies) = IF t.v_na # t.v_r THEN SendRR(t, FALSE, FALSE) ELSE t
  BY DEF Deliver
<1> HIDE DEF p
<1>4. Sound(u, n, o) /\ u.up = <<data>> /\ \A y \in Core : u[y] = s[y]
  BY <1>1, <1>2 DEF Sound, Fields, Core
<1> HIDE DEF u
<1>5. Runs(u, n, o, S, U, b, a, v) /\ Live(u)
  <2>1. Runs(u, n, o, S, U, b, a, v) /\ u.state = s.state
    BY <1>4, LikeRuns
  <2>2. QED
    BY <2>1 DEF Live
<1>6. Runs(t, k, o, S, U, b, a, v) /\ Live(t) /\ t.up = <<data>>
  <2>1. CASE replies = <<>>
    <3>1. t = u /\ k = n
      BY <2>1 DEF Told
    <3> HIDE DEF t
    <3>2. QED
      BY <1>4, <1>5, <3>1
  <2>2. CASE replies = <<n + 1>>
    <3>1. k = n + 1 /\ replies # <<>> /\ Head(replies) = n + 1
      BY <2>2 DEF Told
    <3>2. t = TransmitIframe(u, n + 1)
      BY <3>1
    <3> HIDE DEF t
    <3>3. Len(u.queue) < Mod - 1
      <4>1. Shape(u, n, a, v)
        BY <1>5, RunsAre
      <4>2. Len(u.queue) \in Nat /\ Mod \in Nat /\ a = (n - Len(u.queue)) + 1
        BY <4>1 DEF Shape
      <4>3. n + 1 < (a + Mod) - 1
        BY <3>1 DEF Fits
      <4> DEFINE l == Len(u.queue)
      <4>4. l \in Nat /\ Mod \in Nat /\ a = (n - l) + 1
        BY <4>2
      <4> HIDE DEF l
      <4>5. l < Mod - 1
        BY <4>3, <4>4
      <4>6. QED
        BY <4>5 DEF l
    <3>4. n + 1 \notin S
      BY <3>1 DEF Fits
    <3>5. Runs(TransmitIframe(u, n + 1), n + 1, o, S, U, b, a, v) /\ TransmitIframe(u, n + 1).state = u.state
      BY <1>5, <3>3, <3>4, TransmitIframeRuns
    <3>6. TransmitIframe(u, n + 1).up = u.up
      BY <1>4, TransmitIframeIs
    <3>7. QED
      BY <1>4, <1>5, <3>1, <3>2, <3>5, <3>6 DEF Live
  <2>3. QED
    BY <2>1, <2>2 DEF Told
<1> HIDE DEF t
<1>7. CASE t.v_na # t.v_r
  <2>1. FALSE \in BOOLEAN /\ k \in Nat
    BY ToldIs
  <2>2. Runs(SendRR(t, FALSE, FALSE), k, o, S, U, b, a, v) /\ Live(SendRR(t, FALSE, FALSE))
    BY <1>6, <2>1, SupervisoryRuns
  <2>3. SendRR(t, FALSE, FALSE).up = t.up
    <3>1. Sound(t, k, o)
      BY <1>6 DEF Runs
    <3>2. QED
      BY <2>1, <3>1, SendRRIs DEF Fields
  <2>4. QED
    BY <1>3, <1>6, <1>7, <2>2, <2>3
<1>8. CASE ~(t.v_na # t.v_r)
  BY <1>3, <1>6, <1>8
<1>9. QED
  BY <1>7, <1>8

\* What an RR or a reject leaves, together.
LEMMA SaysMore ==
  ASSUME NEW s, NEW n \in Nat, NEW o, NEW S, NEW U, NEW b, NEW a, NEW v, Runs(s, n, o, S, U, b, a, v),
         Live(s), NEW p \in BOOLEAN, NEW cmd \in BOOLEAN
  PROVE  /\ Runs(SendRR(s, p, cmd), n, o, S, U, b, a, v) /\ Live(SendRR(s, p, cmd))
         /\ SendRR(s, p, cmd).up = s.up /\ (Silent(s) => Silent(SendRR(s, p, cmd)))
         /\ Runs(SendReject(s, p), n, o, S, U, b, a, v) /\ Live(SendReject(s, p))
         /\ SendReject(s, p).up = s.up
<1>1. Sound(s, n, o)
  BY DEF Runs
<1>2. SendRR(s, p, cmd).up = s.up /\ SendReject(s, p).up = s.up
  BY <1>1, SendRRIs, SendRejectIs DEF Fields
<1>3. QED
  BY <1>2, SupervisoryRuns

\* How an I-frame is heard: taken if it is the next one wanted, and then what it
\* acknowledges too; otherwise nothing changes but what is said in answer.
Hears(t, n, k, o, S, b, a, v, m, f) ==
    /\ Live(t)
    /\ IF f.type = "I" /\ f.ns = v
       THEN Runs(t, k, o, S, Plain, b, a + m, (v + 1) % Mod) /\ t.up = <<f.data>>
       ELSE \E i \in {0, m} : Runs(t, n, o, S, Plain, b, a + i, v) /\ t.up = <<>>

\* q921_handle_iframe: in sequence, out of sequence, acknowledging or not.
LEMMA HandleIframeRuns ==
  ASSUME NEW s, NEW n \in Nat, NEW o \in Nat, NEW S, NEW b, NEW a, NEW v,
         Runs(s, n, o, S, Plain, b, a, v), Live(s), s.out = <<>>, s.up = <<>>,
         NEW f \in Frame(o), f.type = "I",
         NEW m \in 0 .. Len(s.queue), \A d \in a .. (a + m) - 1 : d \in S, Names(f.nr, b, a + m),
         NEW k, NEW replies, Told(replies, n, k), Fits(replies, n, a, S)
  PROVE  Hears(HandleIframe(s, f, replies), n, k, o, S, b, a, v, m, f)
<1> DEFINE w == (s.v_r + 1) % Mod
           c == [s EXCEPT !.solicit = FALSE]
           g == [c EXCEPT !.v_r = w, !.sentrej = FALSE]
           h == AckRx(g, f.nr, FALSE)
           r == IF f.p THEN SendRR(h, TRUE, FALSE)
                ELSE IF h.busy \/ h.retrans > 0 THEN SendRR(h, FALSE, FALSE) ELSE h
           t == HandleIframe(s, f, replies)
           e == a + m
<1>1. f.p \in BOOLEAN /\ f.data \in 1 .. o /\ TRUE \in BOOLEAN /\ FALSE \in BOOLEAN
  BY FrameIs
<1>2. Sound(s, n, o) /\ s.v_r = v /\ Shape(s, n, a, v)
  BY RunsAre DEF Runs
<1>3. w \in Num /\ w = (v + 1) % Mod /\ a \in Int /\ m \in Nat /\ a <= e /\ a \in {a + 0} /\ v \in Num
  <2>1. s.v_r \in Num
    BY <1>2 DEF Sound
  <2>2. s.v_r + 1 \in Int
    BY <2>1 DEF Num
  <2>3. a \in Int /\ Len(s.queue) \in Nat
    BY <1>2 DEF Shape
  <2>4. m \in Nat /\ a <= a + m /\ a = a + 0
    BY <2>3
  <2>5. QED
    BY <1>2, <2>1, <2>2, <2>3, <2>4, ConstantsAre
<1>4. t = IF ~Expected(s, f)
          THEN IF ~s.sentrej THEN SendReject(c, f.p)
               ELSE IF f.p THEN SendRR(c, TRUE, FALSE) ELSE c
          ELSE IF ~InWindow(g, f.nr) THEN GiveUp(g) ELSE Deliver(r, f.data, replies)
  BY DEF HandleIframe
<1>5. Expected(s, f) <=> f.ns = v
  BY <1>2 DEF Expected
<1> HIDE DEF t, w
<1>6. /\ Sound(c, n, o)
      /\ \A y \in {"state", "v_s", "v_a", "v_r", "windowlen", "queue", "out", "up"} : c[y] = s[y]
  BY <1>2 DEF Sound, Fields
<1>7. Runs(c, n, o, S, Plain, b, a, v) /\ Live(c) /\ c.out = <<>> /\ c.queue = s.queue /\ c.up = <<>>
  <2> HIDE DEF c
  <2>1. QED
    BY <1>6, FieldRuns
<1>8. CASE ~(f.ns = v)
  <2> HIDE DEF c
  <2>1. /\ Runs(SendRR(c, TRUE, FALSE), n, o, S, Plain, b, a, v) /\ Live(SendRR(c, TRUE, FALSE))
        /\ SendRR(c, TRUE, FALSE).up = <<>>
        /\ Runs(SendReject(c, f.p), n, o, S, Plain, b, a, v) /\ Live(SendReject(c, f.p))
        /\ SendReject(c, f.p).up = <<>>
    BY <1>1, <1>7, SaysMore
  <2>2. t \in {SendReject(c, f.p), SendRR(c, TRUE, FALSE), c}
    BY <1>4, <1>5, <1>8
  <2>3. Runs(t, n, o, S, Plain, b, a, v) /\ Live(t) /\ t.up = <<>>
    BY <1>7, <2>1, <2>2
  <2>4. a = a + 0 /\ 0 \in {0, m}
    BY <1>3
  <2>5. QED
    BY <1>8, <2>3, <2>4 DEF Hears, t
<1>9. CASE f.ns = v
  <2>1. /\ Sound(g, n, o) /\ g.v_r = w /\ g.up = <<>>
        /\ \A y \in Core \ {"v_r"} : g[y] = s[y]
    BY <1>2, <1>3 DEF Sound, Fields, Core
  <2> HIDE DEF g
  <2>2. Runs(g, n, o, S, Plain, b, a, w) /\ Live(g) /\ g.out = <<>> /\ g.queue = s.queue
    <3>1. Runs(g, n, o, S, Plain, b, a, g.v_r) /\ Live(g) /\ g.out = <<>>
      BY <2>1, NextRuns
    <3>2. "queue" \in Core \ {"v_r"}
      BY DEF Core
    <3>3. QED
      BY <2>1, <3>1, <3>2
  <2>3. Silent(g) /\ m \in 0 .. Len(g.queue)
    BY <2>2 DEF Silent
  <2>4. InWindow(g, f.nr) /\ Runs(h, n, o, S, Plain, b, a + m, w) /\ Live(h) /\ h.up = <<>>
    <3> DEFINE ack == f.nr
    <3>1. h = AckRx(g, ack, FALSE) /\ Names(ack, b, a + m)
      OBVIOUS
    <3> DEFINE no == FALSE
    <3>2. no \in BOOLEAN /\ Names(ack, b, a + m) /\ Silent(g) /\ m \in 0 .. Len(g.queue)
          /\ Runs(g, n, o, S, Plain, b, a, w) /\ Live(g)
      BY <1>1, <2>2, <2>3, <3>1
    <3> HIDE DEF ack, h, no, r
    <3>3. InWindow(g, ack) /\ Runs(AckRx(g, ack, no), n, o, S, Plain, b, a + m, w) /\ Live(AckRx(g, ack, no))
          /\ AckRx(g, ack, no).up = g.up
      BY <3>2, AckRxRuns
    <3>4. InWindow(g, ack) /\ Runs(AckRx(g, ack, FALSE), n, o, S, Plain, b, a + m, w) /\ Live(AckRx(g, ack, FALSE))
          /\ AckRx(g, ack, FALSE).up = g.up
      BY <3>3 DEF no
    <3>5. QED
      BY <2>1, <3>1, <3>4 DEF ack
  <2> HIDE DEF h, e
  <2>5. Runs(r, n, o, S, Plain, b, e, w) /\ Live(r) /\ r.up = <<>>
    <3>1. Runs(h, n, o, S, Plain, b, e, w)
      BY <2>4 DEF e
    <3>2. /\ Runs(SendRR(h, TRUE, FALSE), n, o, S, Plain, b, e, w) /\ Live(SendRR(h, TRUE, FALSE))
          /\ SendRR(h, TRUE, FALSE).up = <<>>
      BY <1>1, <2>4, <3>1, SaysMore
    <3>3. /\ Runs(SendRR(h, FALSE, FALSE), n, o, S, Plain, b, e, w) /\ Live(SendRR(h, FALSE, FALSE))
          /\ SendRR(h, FALSE, FALSE).up = <<>>
      BY <1>1, <2>4, <3>1, SaysMore
    <3>4. QED
      BY <2>4, <3>1, <3>2, <3>3
  <2> HIDE DEF r
  <2>6. t = Deliver(r, f.data, replies)
    BY <1>4, <1>5, <1>9, <2>4
  <2>7. Fits(replies, n, e, S)
    <3>1. Mod \in Int
      BY ConstantsAre
    <3>2. e \in Int
      BY <1>3 DEF e
    <3>3. QED
      BY <1>3, <3>1, <3>2 DEF Fits
  <2>8. Runs(t, k, o, S, Plain, b, e, w) /\ Live(t) /\ t.up = <<f.data>>
    <3> DEFINE data == f.data
    <3>1. data \in 1 .. o /\ t = Deliver(r, data, replies)
      BY <1>1, <2>6
    <3> HIDE DEF data
    <3>2. Runs(t, k, o, S, Plain, b, e, w) /\ Live(t) /\ t.up = <<data>>
      BY <2>5, <2>7, <3>1, DeliverRuns
    <3>3. QED
      BY <3>2 DEF data
  <2>9. QED
    BY <1>3, <1>9, <2>8 DEF Hears, t, e
<1>10. QED
  BY <1>8, <1>9

-----------------------------------------------------------------------------
(* A frame with a number in it.                                             *)

\* q921_ack_rx, with and without frames that were not sent yet.
AckSend(s, ack) == AckRx(s, ack, TRUE)

\* The second.
AckOnly(s, ack) == AckRx(s, ack, FALSE)

\* An acknowledgement, as RR, RNR and REJ carry it.
LEMMA AckHeard ==
  ASSUME NEW s, NEW n \in Nat, NEW o, NEW S, NEW b, NEW a, NEW v,
         Runs(s, n, o, S, Plain, b, a, v), Live(s), Silent(s), s.up = <<>>,
         NEW m \in 0 .. Len(s.queue), \A d \in a .. (a + m) - 1 : d \in S,
         NEW ack, Names(ack, b, a + m)
  PROVE  /\ InWindow(s, ack) /\ Runs(AckSend(s, ack), n, o, S, Plain, b, a + m, v)
         /\ Live(AckSend(s, ack)) /\ AckSend(s, ack).up = <<>>
         /\ Runs(AckOnly(s, ack), n, o, S, Plain, b, a + m, v)
         /\ Live(AckOnly(s, ack)) /\ AckOnly(s, ack).up = <<>>
<1>1. ASSUME NEW c \in BOOLEAN
      PROVE  /\ InWindow(s, ack) /\ Runs(AckRx(s, ack, c), n, o, S, Plain, b, a + m, v)
             /\ Live(AckRx(s, ack, c)) /\ AckRx(s, ack, c).up = s.up
  BY AckRxRuns
<1> DEFINE yes == TRUE
           no == FALSE
<1>2. yes \in BOOLEAN /\ no \in BOOLEAN
  OBVIOUS
<1> HIDE DEF yes, no, AckSend, AckOnly
<1>3. /\ InWindow(s, ack) /\ Runs(AckRx(s, ack, yes), n, o, S, Plain, b, a + m, v)
      /\ Live(AckRx(s, ack, yes)) /\ AckRx(s, ack, yes).up = s.up
  BY <1>1, <1>2
<1>4. /\ InWindow(s, ack) /\ Runs(AckRx(s, ack, no), n, o, S, Plain, b, a + m, v)
      /\ Live(AckRx(s, ack, no)) /\ AckRx(s, ack, no).up = s.up
  BY <1>1, <1>2
<1>5. QED
  BY <1>3, <1>4 DEF yes, no, AckSend, AckOnly

\* The fields a step may set without any effect on numbers.
Kept == {"state", "v_s", "v_a", "v_r", "windowlen", "queue", "out", "up"}

\* Setting them.
LEMMA SetRuns ==
  ASSUME NEW s, NEW n, NEW o, NEW S, NEW b, NEW a, NEW v, Runs(s, n, o, S, Plain, b, a, v), Live(s), s.up = <<>>,
         NEW t, Sound(t, n, o), \A y \in Kept : t[y] = s[y]
  PROVE  Runs(t, n, o, S, Plain, b, a, v) /\ Live(t) /\ t.out = s.out /\ t.queue = s.queue /\ t.up = <<>>
<1>1. Runs(t, n, o, S, Plain, b, a, v) /\ Live(t) /\ t.out = s.out /\ t.queue = s.queue /\ t.up = s.up
  BY FieldRuns DEF Kept
<1>2. QED
  BY <1>1

\* An RR.
LEMMA ReceiveRRRuns ==
  ASSUME NEW s, NEW n \in Nat, NEW o \in Nat, NEW S, NEW b, NEW a, NEW v,
         Runs(s, n, o, S, Plain, b, a, v), Live(s), s.out = <<>>, s.up = <<>>,
         NEW f \in Frame(o), f.type = "RR",
         NEW m \in 0 .. Len(s.queue), \A d \in a .. (a + m) - 1 : d \in S, Names(f.nr, b, a + m)
  PROVE  LET t == ReceiveRR(s, f)
         IN  Runs(t, n, o, S, Plain, b, a + m, v) /\ Live(t) /\ t.up = <<>>
<1> DEFINE ack == f.nr
           p == [s EXCEPT !.busy = FALSE]
           h == AckSend(p, ack)
           q == [h EXCEPT !.solicit = FALSE]
           c == IF f.cmd THEN q ELSE h
           d == [c EXCEPT !.retrans = 0]
           t == ReceiveRR(s, f)
           e == a + m
<1>1. f.p \in BOOLEAN /\ f.cmd \in BOOLEAN /\ f.nr \in Num
  BY FrameIs
<1>2. f.p \in BOOLEAN /\ f.cmd \in BOOLEAN /\ TRUE \in BOOLEAN /\ FALSE \in BOOLEAN /\ 0 \in 0 .. N200
  BY <1>1, ConstantsAre
<1>3. Sound(s, n, o)
  BY DEF Runs
<1>4. t = IF ~InWindow(p, ack) THEN GiveUp(p)
          ELSE IF ~f.p THEN c ELSE IF f.cmd THEN SendRR(c, TRUE, FALSE) ELSE d
  BY DEF ReceiveRR, AckSend, AckOnly
<1>5. Names(ack, b, a + m)
  OBVIOUS
<1> HIDE DEF t, ack, e
<1>6. Sound(p, n, o) /\ \A y \in Kept : p[y] = s[y]
  BY <1>3 DEF Sound, Fields, Kept
<1> HIDE DEF p
<1>7. Runs(p, n, o, S, Plain, b, a, v) /\ Live(p) /\ p.out = <<>> /\ p.queue = s.queue /\ p.up = <<>>
  BY <1>6, SetRuns
<1>8. InWindow(p, ack) /\ Runs(h, n, o, S, Plain, b, e, v) /\ Live(h) /\ h.up = <<>>
  <2>1. Silent(p) /\ m \in 0 .. Len(p.queue)
    BY <1>7 DEF Silent
  <2> HIDE DEF h
  <2>2. /\ InWindow(p, ack) /\ Runs(AckSend(p, ack), n, o, S, Plain, b, a + m, v)
        /\ Live(AckSend(p, ack)) /\ AckSend(p, ack).up = <<>>
    <3>1. /\ Runs(p, n, o, S, Plain, b, a, v) /\ Live(p) /\ Silent(p) /\ p.up = <<>>
          /\ m \in 0 .. Len(p.queue) /\ Names(ack, b, a + m)
      BY <1>7, <1>5, <2>1
    <3>2. QED
      BY <3>1, AckHeard
  <2>3. QED
    BY <2>2 DEF e, h
<1> HIDE DEF h
<1>9. Sound(h, n, o)
  BY <1>8 DEF Runs
<1>10. Sound(q, n, o) /\ \A y \in Kept : q[y] = h[y]
  BY <1>9 DEF Sound, Fields, Kept
<1> HIDE DEF q
<1>11. Runs(c, n, o, S, Plain, b, e, v) /\ Live(c) /\ c.up = <<>>
  <2>1. Runs(q, n, o, S, Plain, b, e, v) /\ Live(q) /\ q.up = <<>>
    BY <1>8, <1>10, SetRuns
  <2>2. QED
    BY <1>8, <2>1
<1> HIDE DEF c
<1>12. Sound(c, n, o)
  BY <1>11 DEF Runs
<1>13. Sound(d, n, o) /\ \A y \in Kept : d[y] = c[y]
  BY <1>2, <1>12 DEF Sound, Fields, Kept
<1> HIDE DEF d
<1>14. Runs(d, n, o, S, Plain, b, e, v) /\ Live(d) /\ d.up = <<>>
  BY <1>11, <1>13, SetRuns
<1>15. Runs(SendRR(c, TRUE, FALSE), n, o, S, Plain, b, e, v) /\ Live(SendRR(c, TRUE, FALSE)) /\ SendRR(c, TRUE, FALSE).up = <<>>
  BY <1>2, <1>11, SaysMore
<1>16. QED
  BY <1>4, <1>8, <1>11, <1>14, <1>15 DEF t, e

\* An RNR.
LEMMA ReceiveRNRRuns ==
  ASSUME NEW s, NEW n \in Nat, NEW o \in Nat, NEW S, NEW b, NEW a, NEW v,
         Runs(s, n, o, S, Plain, b, a, v), Live(s), s.out = <<>>, s.up = <<>>,
         NEW f \in Frame(o), f.type = "RNR",
         NEW m \in 0 .. Len(s.queue), \A d \in a .. (a + m) - 1 : d \in S, Names(f.nr, b, a + m)
  PROVE  LET t == ReceiveRNR(s, f)
         IN  Runs(t, n, o, S, Plain, b, a + m, v) /\ Live(t) /\ t.up = <<>>
<1> DEFINE ack == f.nr
           p == [s EXCEPT !.busy = TRUE]
           h == AckOnly(p, ack)
           r == IF f.p /\ f.cmd THEN SendRR(h, TRUE, FALSE) ELSE h
           q == [r EXCEPT !.solicit = TRUE, !.retrans = 0]
           d == Stop(q, "t203")
           g == Again(d, "t200")
           t == ReceiveRNR(s, f)
           e == a + m
<1>1. f.p \in BOOLEAN /\ f.cmd \in BOOLEAN /\ f.nr \in Num
  BY FrameIs
<1>2. /\ f.p \in BOOLEAN /\ f.cmd \in BOOLEAN /\ TRUE \in BOOLEAN /\ FALSE \in BOOLEAN /\ 0 \in 0 .. N200
      /\ "t203" \in Timers /\ "t200" \in Timers
  BY <1>1, ConstantsAre DEF Timers
<1>3. Sound(s, n, o)
  BY DEF Runs
<1>4. t = IF ~InWindow(p, ack) THEN GiveUp(p) ELSE g
  BY DEF ReceiveRNR, AckSend, AckOnly
<1>5. Names(ack, b, a + m)
  OBVIOUS
<1> HIDE DEF t, ack, e
<1>6. Sound(p, n, o) /\ \A y \in Kept : p[y] = s[y]
  BY <1>3 DEF Sound, Fields, Kept
<1> HIDE DEF p
<1>7. Runs(p, n, o, S, Plain, b, a, v) /\ Live(p) /\ p.out = <<>> /\ p.queue = s.queue /\ p.up = <<>>
  BY <1>6, SetRuns
<1>8. InWindow(p, ack) /\ Runs(h, n, o, S, Plain, b, e, v) /\ Live(h) /\ h.up = <<>>
  <2>1. Silent(p) /\ m \in 0 .. Len(p.queue)
    BY <1>7 DEF Silent
  <2> HIDE DEF h
  <2>2. /\ InWindow(p, ack) /\ Runs(AckOnly(p, ack), n, o, S, Plain, b, a + m, v)
        /\ Live(AckOnly(p, ack)) /\ AckOnly(p, ack).up = <<>>
    <3>1. /\ Runs(p, n, o, S, Plain, b, a, v) /\ Live(p) /\ Silent(p) /\ p.up = <<>>
          /\ m \in 0 .. Len(p.queue) /\ Names(ack, b, a + m)
      BY <1>7, <1>5, <2>1
    <3>2. QED
      BY <3>1, AckHeard
  <2>3. QED
    BY <2>2 DEF e, h
<1> HIDE DEF h
<1>9. Runs(r, n, o, S, Plain, b, e, v) /\ Live(r) /\ r.up = <<>>
  <2>1. Runs(SendRR(h, TRUE, FALSE), n, o, S, Plain, b, e, v) /\ Live(SendRR(h, TRUE, FALSE)) /\ SendRR(h, TRUE, FALSE).up = <<>>
    BY <1>2, <1>8, SaysMore
  <2>2. QED
    BY <1>8, <2>1
<1> HIDE DEF r
<1>10. Sound(r, n, o)
  BY <1>9 DEF Runs
<1>11. Sound(q, n, o) /\ \A y \in Kept : q[y] = r[y]
  BY <1>2, <1>10 DEF Sound, Fields, Kept
<1> HIDE DEF q
<1>12. Runs(q, n, o, S, Plain, b, e, v) /\ Live(q) /\ q.up = <<>>
  BY <1>9, <1>11, SetRuns
<1>13. Runs(q, n, o, S, Plain, b, e, v)
  BY <1>12
<1> HIDE DEF d
<1>14. Runs(d, n, o, S, Plain, b, e, v) /\ Live(d) /\ d.up = <<>>
  BY <1>2, <1>12, <1>13, TimerRuns DEF d
<1> HIDE DEF g
<1>15. Runs(g, n, o, S, Plain, b, e, v) /\ Live(g) /\ g.up = <<>>
  BY <1>2, <1>14, TimerRuns DEF g
<1>16. QED
  BY <1>4, <1>8, <1>15 DEF t, e

\* A reject.
LEMMA ReceiveREJRuns ==
  ASSUME NEW s, NEW n \in Nat, NEW o \in Nat, NEW S, NEW b, NEW a, NEW v,
         Runs(s, n, o, S, Plain, b, a, v), Live(s), s.out = <<>>, s.up = <<>>,
         NEW f \in Frame(o), f.type = "REJ",
         NEW m \in 0 .. Len(s.queue), \A d \in a .. (a + m) - 1 : d \in S, Names(f.nr, b, a + m)
  PROVE  LET t == ReceiveREJ(s, f)
         IN  Runs(t, n, o, S, Plain, b, a + m, v) /\ Live(t) /\ t.up = <<>>
<1> DEFINE ack == f.nr
           Sol == s.solicit /\ ~(s.busy /\ ~f.cmd)
           p == [s EXCEPT !.solicit = Sol, !.busy = FALSE]
           r == IF f.cmd /\ f.p THEN SendRR(p, TRUE, FALSE) ELSE p
           x == AckOnly(r, ack)
           h == IF InWindow(r, ack) THEN x ELSE GiveUp(r)
           c == [h EXCEPT !.solicit = FALSE, !.retrans = 0]
           i == [c EXCEPT !.v_a = ack, !.v_s = ack]
           y == IF c.queue = <<>> THEN i ELSE Resend(c, ack)
           d == Stop(y, "t200")
           g == Again(d, "t203")
           t == ReceiveREJ(s, f)
           e == a + m
<1>1. f.p \in BOOLEAN /\ f.cmd \in BOOLEAN /\ f.nr \in Num
  BY FrameIs
<1>2. /\ f.p \in BOOLEAN /\ f.cmd \in BOOLEAN /\ TRUE \in BOOLEAN /\ FALSE \in BOOLEAN /\ 0 \in 0 .. N200
      /\ "t203" \in Timers /\ "t200" \in Timers /\ ack \in Num
  BY <1>1, ConstantsAre DEF Timers
<1>3. Sound(s, n, o)
  BY DEF Runs
<1>4. t = IF h.solicit /\ (f.cmd \/ ~f.p) THEN h ELSE g
  BY DEF ReceiveREJ, AckSend, AckOnly
<1>5. Names(ack, b, a + m) /\ Sol \in BOOLEAN
  OBVIOUS
<1> HIDE DEF t, ack, e, Sol
<1>6. Sound(p, n, o) /\ \A z \in Kept : p[z] = s[z]
  BY <1>3, <1>5 DEF Sound, Fields, Kept
<1> HIDE DEF p
<1>7. Runs(p, n, o, S, Plain, b, a, v) /\ Live(p) /\ p.out = <<>> /\ p.queue = s.queue /\ p.up = <<>>
  BY <1>6, SetRuns
<1>8. Runs(r, n, o, S, Plain, b, a, v) /\ Live(r) /\ Silent(r) /\ r.queue = s.queue /\ r.up = <<>>
  <2>1. Silent(p)
    BY <1>7 DEF Silent
  <2>2. /\ Runs(SendRR(p, TRUE, FALSE), n, o, S, Plain, b, a, v) /\ Live(SendRR(p, TRUE, FALSE))
        /\ SendRR(p, TRUE, FALSE).up = <<>> /\ Silent(SendRR(p, TRUE, FALSE))
    BY <1>2, <1>7, <2>1, SaysMore
  <2>3. SendRR(p, TRUE, FALSE).queue = p.queue
    BY <1>2, <1>7, SupervisoryRuns
  <2>4. QED
    BY <1>7, <2>1, <2>2, <2>3
<1> HIDE DEF r
<1>9. InWindow(r, ack) /\ Runs(x, n, o, S, Plain, b, e, v) /\ Live(x) /\ x.up = <<>>
  <2>1. m \in 0 .. Len(r.queue)
    BY <1>8
  <2> HIDE DEF x
  <2>2. /\ InWindow(r, ack) /\ Runs(AckOnly(r, ack), n, o, S, Plain, b, a + m, v)
        /\ Live(AckOnly(r, ack)) /\ AckOnly(r, ack).up = <<>>
    <3>1. /\ Runs(r, n, o, S, Plain, b, a, v) /\ Live(r) /\ Silent(r) /\ r.up = <<>>
          /\ m \in 0 .. Len(r.queue) /\ Names(ack, b, a + m)
      BY <1>8, <1>5, <2>1
    <3>2. QED
      BY <3>1, AckHeard
  <2>3. QED
    BY <2>2 DEF e, x
<1> HIDE DEF x
<1>10. Runs(h, n, o, S, Plain, b, e, v) /\ Live(h) /\ h.up = <<>>
  BY <1>9
<1> HIDE DEF h
<1>11. Sound(h, n, o)
  BY <1>10 DEF Runs
<1>12. Sound(c, n, o) /\ \A z \in Kept : c[z] = h[z]
  BY <1>2, <1>11 DEF Sound, Fields, Kept
<1> HIDE DEF c
<1>13. Runs(c, n, o, S, Plain, b, e, v) /\ Live(c) /\ c.up = <<>>
  BY <1>10, <1>12, SetRuns
<1>14. Runs(y, n, o, S, Plain, b, e, v) /\ Live(y) /\ y.up = <<>>
  <2>1. CASE c.queue = <<>>
    <3>1. Sound(c, n, o) /\ ack \in 0 .. n + Mod - 1
      <4>1. Num \subseteq 0 .. n + Mod - 1
        BY ConstantsAre DEF Num
      <4>2. QED
        BY <1>2, <1>12, <4>1
    <3>2. Sound(i, n, o) /\ i.v_s = ack /\ i.v_a = ack /\ \A z \in (Core \cup {"up"}) \ {"v_s", "v_a"} : i[z] = c[z]
      BY <1>2, <3>1 DEF Sound, Fields, Core
    <3>3. Names(ack, b, e) /\ ack \in Num
      BY <1>2, <1>5 DEF e
    <3> HIDE DEF i
    <3>4. Runs(i, n, o, S, Plain, b, e, v) /\ Live(i) /\ i.out = c.out /\ i.up = c.up
      BY <1>13, <2>1, <3>2, <3>3, RenumberRuns
    <3>5. QED
      BY <1>13, <2>1, <3>4
  <2>2. CASE c.queue # <<>>
    <3>1. Runs(Resend(c, ack), n, o, S, Plain, b, e, v)
      BY <1>13, ResendRuns
    <3>2. Resend(c, ack).state = c.state
      BY <1>12, ResendIs
    <3>3. Resend(c, ack).up = c.up
      BY <1>12 DEF Resend, Sound, Fields
    <3>4. QED
      BY <1>13, <2>2, <3>1, <3>2, <3>3 DEF Live
  <2>3. QED
    BY <2>1, <2>2
<1> HIDE DEF y, d
<1>15. Runs(d, n, o, S, Plain, b, e, v) /\ Live(d) /\ d.up = <<>>
  BY <1>2, <1>14, TimerRuns DEF d
<1> HIDE DEF g
<1>16. Runs(g, n, o, S, Plain, b, e, v) /\ Live(g) /\ g.up = <<>>
  BY <1>2, <1>15, TimerRuns DEF g
<1>17. QED
  BY <1>4, <1>10, <1>16 DEF t, e

\* A frame with a number in it arrives at a station whose link is up.
LEMMA HearsRuns ==
  ASSUME NEW s, NEW n \in Nat, NEW o \in Nat, NEW S, NEW b, NEW a, NEW v,
         Runs(s, n, o, S, Plain, b, a, v), Live(s), s.out = <<>>, s.up = <<>>,
         NEW f \in Frame(o), f.type \in NrTypes,
         NEW m \in 0 .. Len(s.queue), \A d \in a .. (a + m) - 1 : d \in S, Names(f.nr, b, a + m),
         NEW k, NEW replies, Told(replies, n, k), Fits(replies, n, a, S)
  PROVE  Hears(Receive(s, f, replies), n, k, o, S, b, a, v, m, f)
<1> DEFINE q == Qualified(s, f, replies)
           t == Receive(s, f, replies)
<1>1. Hears(q, n, k, o, S, b, a, v, m, f)
  <2>1. s.state = "established" /\ m \in {0, m}
    BY DEF Live
  <2>2. CASE f.type = "I"
    <3>1. q = HandleIframe(s, f, replies)
      BY <2>1, <2>2 DEF Qualified
    <3> HIDE DEF q
    <3>2. Hears(HandleIframe(s, f, replies), n, k, o, S, b, a, v, m, f)
      BY <2>2, HandleIframeRuns
    <3>3. QED
      BY <3>1, <3>2
  <2>3. CASE f.type = "RR"
    <3>1. q = ReceiveRR(s, f)
      BY <2>1, <2>3 DEF Qualified
    <3> HIDE DEF q
    <3>2. Runs(q, n, o, S, Plain, b, a + m, v) /\ Live(q) /\ q.up = <<>>
      BY <2>3, <3>1, ReceiveRRRuns
    <3>3. QED
      BY <2>1, <2>3, <3>2 DEF Hears
  <2>4. CASE f.type = "RNR"
    <3>1. q = ReceiveRNR(s, f)
      BY <2>1, <2>4 DEF Qualified
    <3> HIDE DEF q
    <3>2. Runs(q, n, o, S, Plain, b, a + m, v) /\ Live(q) /\ q.up = <<>>
      BY <2>4, <3>1, ReceiveRNRRuns
    <3>3. QED
      BY <2>1, <2>4, <3>2 DEF Hears
  <2>5. CASE f.type = "REJ"
    <3>1. q = ReceiveREJ(s, f)
      BY <2>1, <2>5 DEF Qualified
    <3> HIDE DEF q
    <3>2. Runs(q, n, o, S, Plain, b, a + m, v) /\ Live(q) /\ q.up = <<>>
      BY <2>5, <3>1, ReceiveREJRuns
    <3>3. QED
      BY <2>1, <2>5, <3>2 DEF Hears
  <2>6. QED
    BY <2>2, <2>3, <2>4, <2>5 DEF NrTypes
<1>2. t = Again(q, "t203") /\ "t203" \in Timers
  BY DEF Receive, Timers
<1> HIDE DEF q, t
<1>3. CASE f.type = "I" /\ f.ns = v
  <2> DEFINE e == a + m
             w == (v + 1) % Mod
             u == <<f.data>>
  <2>1. Live(q) /\ Runs(q, k, o, S, Plain, b, e, w) /\ q.up = u
    BY <1>1, <1>3 DEF Hears
  <2> HIDE DEF e, w, u
  <2>2. Runs(t, k, o, S, Plain, b, e, w) /\ Live(t) /\ t.up = u
    BY <1>2, <2>1, TimerRuns
  <2>3. QED
    BY <1>3, <2>2 DEF Hears, e, w, u, t
<1>4. CASE ~(f.type = "I" /\ f.ns = v)
  <2>1. PICK i \in {0, m} : Runs(q, n, o, S, Plain, b, a + i, v) /\ q.up = <<>>
    BY <1>1, <1>4 DEF Hears
  <2> DEFINE e == a + i
  <2>2. Live(q) /\ Runs(q, n, o, S, Plain, b, e, v)
    BY <1>1, <2>1 DEF Hears
  <2> HIDE DEF e
  <2>3. Runs(t, n, o, S, Plain, b, e, v) /\ Live(t) /\ t.up = <<>>
    BY <1>2, <2>1, <2>2, TimerRuns
  <2>4. QED
    BY <1>4, <2>3 DEF Hears, e, t
<1>5. QED
  BY <1>3, <1>4

-----------------------------------------------------------------------------
(* The link is given up; timers.                                            *)

\* A station that has been reset.
Ended(t) ==
    /\ ~Live(t) /\ t.queue = <<>> /\ t.up = <<>>
    /\ t.v_s = 0 /\ t.v_a = 0 /\ t.v_r = 0 /\ t.windowlen = 0
    /\ \A k \in DOMAIN t.out : t.out[k].type \in Opens

\* Only frames that open the link have been transmitted.
Opening(s) == \A k \in DOMAIN s.out : s.out[k].type \in Opens

\* q921_reset leaves nothing, and SABME is all that q921_start adds.
LEMMA StartEnded ==
  ASSUME NEW s, NEW n \in Nat, NEW m, Sound(s, n, m), s.up = <<>>, Opening(s), NEW now \in BOOLEAN,
         NEW r, Sound(r, n, m), \A y \in Fields \ {"event"} : r[y] = s[y]
  PROVE  Ended(LinkStart(r, now))
<1> DEFINE z == Reset(r)
           c == Again(z, "sabme")
           f == UFrame("SABME")
           d == Transmit(c, f)
           t == LinkStart(r, now)
<1>1. t = SendSabme(z, now)
  BY DEF LinkStart
<1>2. t = IF now THEN [d EXCEPT !.state = "awaiting"] ELSE c
  BY <1>1 DEF SendSabme
<1>3. /\ Sound(z, n, m) /\ z.state = "released" /\ z.queue = <<>> /\ z.out = s.out /\ z.up = <<>>
      /\ z.v_s = 0 /\ z.v_a = 0 /\ z.v_r = 0 /\ z.windowlen = 0
  BY ResetIs DEF Fields
<1> HIDE DEF z, t
<1>4. Sound(c, n, m) /\ \A y \in Fields \ {"on"} : c[y] = z[y]
  BY <1>3, AgainIs DEF Timers
<1> HIDE DEF c
<1>5. /\ Sound(c, n, m) /\ c.state = "released" /\ c.queue = <<>> /\ c.out = s.out /\ c.up = <<>>
      /\ c.v_s = 0 /\ c.v_a = 0 /\ c.v_r = 0 /\ c.windowlen = 0
  BY <1>3, <1>4 DEF Fields
<1>6. f \in Frame(n) /\ f.type = "SABME"
  BY DEF UFrame, Frame
<1> HIDE DEF f
<1>7. d = [c EXCEPT !.out = Append(c.out, f)]
  BY DEF Transmit
<1>8. /\ d.queue = <<>> /\ d.out = Append(s.out, f) /\ d.up = <<>> /\ DOMAIN d = Fields
      /\ d.v_s = 0 /\ d.v_a = 0 /\ d.v_r = 0 /\ d.windowlen = 0
  BY <1>5, <1>7 DEF Sound, Fields
<1> HIDE DEF d
<1>9. CASE now
  <2>1. t = [d EXCEPT !.state = "awaiting"]
    BY <1>2, <1>9
  <2>2. /\ t.queue = <<>> /\ t.out = Append(s.out, f) /\ t.up = <<>> /\ t.state = "awaiting"
        /\ t.v_s = 0 /\ t.v_a = 0 /\ t.v_r = 0 /\ t.windowlen = 0
    BY <1>8, <2>1 DEF Fields
  <2>3. \A k \in DOMAIN Append(s.out, f) : Append(s.out, f)[k].type \in Opens
    <3>1. s.out \in Seq(Frame(n))
      BY DEF Sound
    <3>2. SUFFICES ASSUME NEW k \in DOMAIN Append(s.out, f) PROVE Append(s.out, f)[k].type \in Opens
      OBVIOUS
    <3>3. Append(s.out, f)[k] = IF k \in DOMAIN s.out THEN s.out[k] ELSE f
      BY <3>1
    <3>4. QED
      BY <1>6, <3>3 DEF Opening, Opens
  <2>4. QED
    BY <2>2, <2>3 DEF Ended, Live, t
<1>10. CASE ~now
  BY <1>2, <1>5, <1>10 DEF Ended, Opening, Live, t
<1>11. QED
  BY <1>9, <1>10

\* q921_dchannel_down and q921_start.
LEMMA DownEnded ==
  ASSUME NEW s, NEW n \in Nat, NEW m, Sound(s, n, m), s.up = <<>>, Opening(s)
  PROVE  Ended(GiveUp(s)) /\ Ended(LinkDown(s))
<1> DEFINE z == Reset(s)
           r == [z EXCEPT !.event = "down"]
           yes == TRUE
           no == FALSE
<1>1. GiveUp(s) = LinkStart(r, yes) /\ LinkDown(s) = LinkStart(r, no)
  BY DEF GiveUp, LinkDown
<1>2. Sound(z, n, m) /\ z.up = <<>> /\ z.out = s.out
  BY ResetIs
<1> HIDE DEF z
<1>3. Sound(r, n, m) /\ \A y \in Fields \ {"event"} : r[y] = z[y]
  BY <1>2 DEF Sound, Fields
<1>4. Opening(z) /\ yes \in BOOLEAN /\ no \in BOOLEAN
  BY <1>2 DEF Opening
<1> HIDE DEF r, yes, no
<1>5. \A now \in BOOLEAN : Ended(LinkStart(r, now))
  BY <1>2, <1>3, <1>4, StartEnded
<1>6. QED
  BY <1>1, <1>4, <1>5

\* More may be transmitted than is.
LEMMA RunsMore ==
  ASSUME NEW s, NEW n, NEW o, NEW S, NEW b, NEW a, NEW v, Runs(s, n, o, S, Plain, b, a, v), NEW U
  PROVE  Runs(s, n, o, S, U, b, a, v)
BY DEF Runs, Emitted, Plain

\* T200 expires: a poll or a retransmission, or too many of them.
LEMMA T200Runs ==
  ASSUME NEW s, NEW n \in Nat, NEW o, NEW S, NEW b, NEW a, NEW v,
         Runs(s, n, o, S, Plain, b, a, v), Live(s), s.out = <<>>, s.up = <<>>
  PROVE  LET t == T200Expire(s)
         IN  \/ Runs(t, n, o, S, Plain, b, a, v) /\ Live(t) /\ t.up = <<>>
             \/ s.retrans >= N200 /\ Ended(t)
<1> DEFINE z == [s EXCEPT !.on["t200"] = "off"]
           t == T200Expire(s)
<1>1. Sound(s, n, o) /\ "t200" \in Timers
  BY DEF Runs, Timers
<1>2. z = Stop(s, "t200")
  BY DEF Stop
<1> HIDE DEF z
<1>3. Runs(z, n, o, S, Plain, b, a, v) /\ Live(z) /\ z.out = <<>> /\ z.up = <<>>
  BY <1>1, <1>2, TimerRuns
<1>4. CASE s.queue = <<>> /\ ~s.solicit
  <2>1. t = z
    BY <1>4 DEF T200Expire, z
  <2>2. QED
    BY <1>3, <2>1 DEF t
<1>5. CASE ~(s.queue = <<>> /\ ~s.solicit) /\ s.retrans >= N200
  <2>1. t = GiveUp(z)
    BY <1>5 DEF T200Expire, z
  <2>2. Sound(z, n, o) /\ Opening(z)
    BY <1>3 DEF Runs, Opening
  <2>3. Ended(GiveUp(z))
    BY <1>3, <2>2, DownEnded
  <2>4. QED
    BY <1>5, <2>1, <2>3 DEF t
<1>6. CASE ~(s.queue = <<>> /\ ~s.solicit) /\ ~(s.retrans >= N200)
  <2> DEFINE k == s.retrans + 1
             c == [s EXCEPT !.solicit = TRUE, !.retrans = k]
             d == IF s.queue = <<>> \/ s.busy THEN SendRR(c, TRUE, TRUE) ELSE RetransmitLast(c)
  <2>1. t = Start(d, "t200", "t200")
    BY <1>6 DEF T200Expire
  <2>2. k \in 0 .. N200
    <3>1. s.retrans \in 0 .. N200
      BY <1>1 DEF Sound
    <3>2. \A i \in 0 .. N200 : ~(i >= N200) => i + 1 \in 0 .. N200
      BY ConstantsAre
    <3>3. QED
      BY <1>6, <3>1, <3>2
  <2> HIDE DEF k
  <2>3. Sound(c, n, o) /\ \A y \in Kept : c[y] = s[y]
    BY <1>1, <2>2 DEF Sound, Fields, Kept
  <2> HIDE DEF c
  <2>4. Runs(c, n, o, S, Plain, b, a, v) /\ Live(c) /\ c.up = <<>>
    BY <2>3, SetRuns
  <2>5. Runs(d, n, o, S, Plain, b, a, v) /\ Live(d) /\ d.up = <<>>
    <3>1. Runs(SendRR(c, TRUE, TRUE), n, o, S, Plain, b, a, v) /\ Live(SendRR(c, TRUE, TRUE)) /\ SendRR(c, TRUE, TRUE).up = <<>>
      <4>1. TRUE \in BOOLEAN
        OBVIOUS
      <4>2. QED
        BY <2>4, <4>1, SaysMore
    <3>2. Runs(RetransmitLast(c), n, o, S, Plain, b, a, v) /\ Live(RetransmitLast(c))
      BY <2>4, RetransmitLastRuns
    <3>3. RetransmitLast(c).up = <<>>
      BY <2>3, <2>4, RetransmitLastIs DEF Fields
    <3>4. QED
      BY <3>1, <3>2, <3>3
  <2> HIDE DEF d, t
  <2>6. Runs(t, n, o, S, Plain, b, a, v) /\ Live(t) /\ t.up = <<>>
    BY <1>1, <2>1, <2>5, TimerRuns
  <2>7. QED
    BY <2>6 DEF t
<1>7. QED
  BY <1>4, <1>5, <1>6

\* T203 expires: a poll, guarded by T200 in its place.
LEMMA T203Runs ==
  ASSUME NEW s, NEW n \in Nat, NEW o, NEW S, NEW b, NEW a, NEW v,
         Runs(s, n, o, S, Plain, b, a, v), Live(s), s.out = <<>>, s.up = <<>>
  PROVE  LET t == T203Expire(s)
         IN  Runs(t, n, o, S, Plain, b, a, v) /\ Live(t) /\ t.up = <<>>
<1> DEFINE c == [s EXCEPT !.solicit = TRUE, !.retrans = 0]
           d == SendRR(c, TRUE, TRUE)
           t == T203Expire(s)
<1>1. Sound(s, n, o) /\ "t203" \in Timers /\ "t200" \in Events /\ 0 \in 0 .. N200
  BY ConstantsAre DEF Runs, Timers, Events
<1>2. t = Start(d, "t203", "t200")
  BY DEF T203Expire, Live
<1>3. Sound(c, n, o) /\ \A y \in Kept : c[y] = s[y]
  BY <1>1 DEF Sound, Fields, Kept
<1> HIDE DEF c
<1>4. Runs(c, n, o, S, Plain, b, a, v) /\ Live(c) /\ c.up = <<>>
  BY <1>3, SetRuns
<1>5. Runs(d, n, o, S, Plain, b, a, v) /\ Live(d) /\ d.up = <<>>
  <2>1. TRUE \in BOOLEAN
    OBVIOUS
  <2>2. QED
    BY <1>4, <2>1, SaysMore
<1> HIDE DEF d, t
<1>6. Sound(d, n, o)
  BY <1>5 DEF Runs
<1>7. Sound(t, n, o) /\ \A y \in Fields \ {"on"} : t[y] = d[y]
  BY <1>1, <1>2, <1>6, StartIs
<1>8. \A y \in Kept : t[y] = d[y]
  BY <1>7 DEF Kept, Fields
<1>9. Runs(t, n, o, S, Plain, b, a, v) /\ Live(t) /\ t.up = <<>>
  BY <1>5, <1>7, <1>8, SetRuns
<1>10. QED
  BY <1>9 DEF t

-----------------------------------------------------------------------------
(* The link comes up; every timer, every frame that opens or ends it.       *)

\* Setting a timer, in any state.
LEMMA TimedRuns ==
  ASSUME NEW s, NEW n, NEW o, NEW S, NEW U, NEW b, NEW a, NEW v, Runs(s, n, o, S, U, b, a, v),
         NEW x \in Timers, NEW w \in Events, NEW t, t = Start(s, x, w)
  PROVE  Runs(t, n, o, S, U, b, a, v) /\ t.state = s.state /\ t.out = s.out /\ t.up = s.up /\ t.queue = s.queue
<1>1. Sound(s, n, o)
  BY DEF Runs
<1>2. Sound(t, n, o) /\ \A y \in Fields \ {"on"} : t[y] = s[y]
  BY <1>1, StartIs
<1>3. t.up = s.up /\ \A y \in Core : t[y] = s[y]
  BY <1>2 DEF Core, Fields
<1>4. Runs(t, n, o, S, U, b, a, v) /\ t.out = s.out /\ t.queue = s.queue /\ t.state = s.state
  BY <1>2, <1>3, LikeRuns
<1>5. QED
  BY <1>3, <1>4

\* The SABME timer, of a link that is not up.
LEMMA SabmeRuns ==
  ASSUME NEW s, NEW n \in Nat, NEW o, NEW S, NEW b, NEW a, NEW v,
         Runs(s, n, o, S, Opens, b, a, v), ~Live(s), s.out = <<>>, s.up = <<>>
  PROVE  LET t == SendSabme(s, TRUE)
         IN  Runs(t, n, o, S, Opens, b, a, v) /\ ~Live(t) /\ t.up = <<>>
<1> DEFINE c == Again(s, "sabme")
           f == UFrame("SABME")
           d == Transmit(c, f)
           t == SendSabme(s, TRUE)
<1>1. t = [d EXCEPT !.state = "awaiting"]
  BY DEF SendSabme
<1>2. c = Start(s, "sabme", "sabme") /\ "sabme" \in Timers /\ "sabme" \in Events
  BY DEF Again, Timers, Events
<1> HIDE DEF t, c
<1>3. Runs(c, n, o, S, Opens, b, a, v) /\ c.state = s.state /\ c.out = <<>> /\ c.up = <<>>
  BY <1>2, TimedRuns
<1>4. Sound(c, n, o)
  BY <1>3 DEF Runs
<1>5. f \in Frame(n) /\ f.type = "SABME"
  BY DEF UFrame, Frame
<1>6. d = [c EXCEPT !.out = Append(c.out, f)]
  BY DEF Transmit
<1> HIDE DEF f
<1>7. Sound(d, n, o) /\ d.out = Append(c.out, f) /\ \A y \in Fields \ {"out"} : d[y] = c[y]
  BY <1>4, <1>5, <1>6, TransmitIs DEF Sound, Fields
<1> HIDE DEF d
<1>8. Runs(d, n, o, S, Opens, b, a, v) /\ d.state = c.state
  <2>1. \A y \in Core \ {"out"} : d[y] = c[y]
    BY <1>7 DEF Core, Fields
  <2>2. f.type \in NrTypes \cup Opens /\ f.type \notin NrTypes /\ f.type # "I"
    BY <1>5 DEF NrTypes, Opens
  <2>3. /\ Runs(c, n, o, S, Opens, b, a, v) /\ f \in Frame(n)
        /\ Sound(d, n, o) /\ d.out = Append(c.out, f)
    BY <1>3, <1>5, <1>7
  <2>4. Runs(d, n, o, S, Opens, b, a, v) /\ d.state = c.state
    BY <2>1, <2>2, <2>3, SaysRuns
  <2>5. QED
    BY <2>4
<1>9. /\ Sound(t, n, o) /\ t.state = "awaiting" /\ \A y \in Core \ {"state"} : t[y] = d[y]
      /\ t.up = <<>>
  BY <1>1, <1>3, <1>7 DEF Sound, Fields, Core
<1>10. ~Live(d) /\ ~Live(t)
  BY <1>3, <1>8, <1>9 DEF Live
<1>11. /\ t.v_s = d.v_s /\ t.v_a = d.v_a /\ t.v_r = d.v_r
       /\ t.windowlen = d.windowlen /\ t.queue = d.queue /\ t.out = d.out
  BY <1>9 DEF Core
<1>12. Runs(t, n, o, S, Opens, b, a, v)
  <2>1. Oldest(t, n) = Oldest(d, n) /\ \A x : At(t, n, x) = At(d, n, x)
    BY <1>11 DEF Oldest, At
  <2>2. Numbered(t, n)
    <3>1. Numbered(d, n)
      BY <1>8 DEF Runs
    <3>2. QED
      BY <1>10, <1>11, <2>1, <3>1 DEF Numbered
  <2>3. Emitted(t, n, Opens)
    <3>1. Emitted(d, n, Opens)
      BY <1>8 DEF Runs
    <3>2. QED
      BY <1>10, <1>11, <2>1, <3>1 DEF Emitted
  <2>4. Counted(t, S \cup Carried(t.out))
    <3>1. Counted(d, S \cup Carried(d.out))
      BY <1>8 DEF Runs
    <3>2. Outstanding(t, S \cup Carried(t.out)) = Outstanding(d, S \cup Carried(d.out))
      BY <1>11 DEF Outstanding
    <3>3. QED
      BY <1>11, <3>1, <3>2 DEF Counted
  <2>5. (\A x \in Int : At(t, n, x) = (b + x) % Mod) /\ Oldest(t, n) = a /\ t.v_r = v
    BY <1>8, <1>11, <2>1 DEF Runs
  <2>6. QED
    BY <1>9, <2>2, <2>3, <2>4, <2>5 DEF Runs
<1>13. QED
  BY <1>9, <1>10, <1>12 DEF t

\* The link comes up: q921_dchannel_up sends what waits.
LEMMA UpRuns ==
  ASSUME NEW s, NEW n \in Nat, NEW o, NEW S, NEW b, NEW a, NEW v, Runs(s, n, o, S, Opens, b, a, v), s.up = <<>>
  PROVE  LET t == DchannelUp(s)
         IN  Runs(t, n, o, S, Opens, b, a, v) /\ Live(t) /\ t.up = <<>>
<1> DEFINE c == Stop(s, "sabme")
           d == [c EXCEPT !.sentrej = FALSE, !.state = "established"]
           g == Start(d, "t203", "t203")
           t == DchannelUp(s)
<1>1. t = SendQueued(g)
  BY DEF DchannelUp
<1>2. /\ c = Start(s, "sabme", "off") /\ "sabme" \in Timers /\ "off" \in Events
      /\ "t203" \in Timers /\ "t203" \in Events
  BY DEF Stop, Start, Timers, Events
<1> HIDE DEF t, c
<1>3. Runs(c, n, o, S, Opens, b, a, v) /\ c.state = s.state /\ c.up = <<>>
  BY <1>2, TimedRuns
<1>4. Sound(c, n, o)
  BY <1>3 DEF Runs
<1>5. /\ Sound(d, n, o) /\ d.state = "established" /\ d.up = <<>>
      /\ \A y \in Core \ {"state"} : d[y] = c[y]
  BY <1>3, <1>4 DEF Sound, Fields, Core
<1> HIDE DEF d
<1>6. Live(d)
  BY <1>5 DEF Live
<1>7. /\ d.v_s = c.v_s /\ d.v_a = c.v_a /\ d.v_r = c.v_r
      /\ d.windowlen = c.windowlen /\ d.queue = c.queue /\ d.out = c.out
  BY <1>5 DEF Core
<1>8. Runs(d, n, o, S, Opens, b, a, v)
  <2>1. Oldest(d, n) = Oldest(c, n) /\ \A x : At(d, n, x) = At(c, n, x)
    BY <1>7 DEF Oldest, At
  <2>2. Numbered(d, n)
    <3>1. Numbered(c, n)
      BY <1>3 DEF Runs
    <3>2. QED
      BY <1>6, <1>7, <2>1, <3>1 DEF Numbered
  <2>3. Emitted(d, n, Opens)
    <3>1. Emitted(c, n, Opens)
      BY <1>3 DEF Runs
    <3>2. QED
      BY <1>6, <1>7, <2>1, <3>1 DEF Emitted
  <2>4. Counted(d, S \cup Carried(d.out))
    <3>1. Counted(c, S \cup Carried(c.out))
      BY <1>3 DEF Runs
    <3>2. Outstanding(d, S \cup Carried(d.out)) = Outstanding(c, S \cup Carried(c.out))
      BY <1>7 DEF Outstanding
    <3>3. QED
      BY <1>7, <3>1, <3>2 DEF Counted
  <2>5. (\A x \in Int : At(d, n, x) = (b + x) % Mod) /\ Oldest(d, n) = a /\ d.v_r = v
    BY <1>3, <1>7, <2>1 DEF Runs
  <2>6. QED
    BY <1>5, <2>2, <2>3, <2>4, <2>5 DEF Runs
<1> HIDE DEF g
<1>9. Runs(g, n, o, S, Opens, b, a, v) /\ g.state = d.state /\ g.up = <<>>
  BY <1>2, <1>5, <1>8, TimedRuns DEF g
<1>10. Live(g) /\ Sound(g, n, o)
  BY <1>6, <1>9 DEF Live, Runs
<1>11. Runs(SendQueued(g), n, o, S, Opens, b, a, v)
  BY <1>9, <1>10, SendQueuedRuns
<1>12. SendQueued(g).state = g.state /\ SendQueued(g).up = g.up
  BY <1>10, SendQueuedIs DEF Fields
<1>13. QED
  BY <1>1, <1>9, <1>10, <1>11, <1>12 DEF Live, t

\* A timer expires: the station goes on, sends SABME, or gives up.
LEMMA FireRuns ==
  ASSUME NEW s, NEW n \in Nat, NEW o, NEW S, NEW b, NEW a, NEW v,
         Runs(s, n, o, S, Plain, b, a, v), Watched(s), s.out = <<>>, s.up = <<>>,
         NEW x \in Timers, s.on[x] # "off"
  PROVE  LET t == Fire(s, x)
         IN  \/ Runs(t, n, o, S, Plain, b, a, v) /\ t.up = <<>> /\ (Live(t) <=> Live(s))
             \/ Runs(t, n, o, S, Opens, b, a, v) /\ t.up = <<>> /\ ~Live(s) /\ ~Live(t)
             \/ s.on[x] = "t200" /\ s.retrans >= N200 /\ Ended(t)
<1> DEFINE z == [s EXCEPT !.on[x] = "off"]
           t == Fire(s, x)
<1>1. Sound(s, n, o) /\ "off" \in Events /\ "t203" \in Timers
  BY DEF Runs, Events, Timers
<1>2. s.on[x] \in {"t200", "t203", "sabme"} /\ x \in {"t200", "t203", "sabme"}
  BY <1>1 DEF Sound, Events, Timers
<1>3. z = Start(s, x, "off")
  BY DEF Start
<1>4. Runs(z, n, o, S, Plain, b, a, v) /\ z.state = s.state /\ z.out = <<>> /\ z.up = <<>>
  <2> HIDE DEF z
  <2>1. QED
    BY <1>1, <1>3, TimedRuns
<1>5. z.retrans = s.retrans
  BY <1>1 DEF Sound, Fields
<1>6. CASE s.on[x] = "t200"
  <2>1. t = T200Expire(z)
    BY <1>6 DEF Fire
  <2>2. s.state = "established"
    BY <1>2, <1>6 DEF Watched, Half
  <2> HIDE DEF z, t
  <2>3. Live(z) /\ Live(s)
    BY <1>4, <2>2 DEF Live
  <2>4. \/ Runs(T200Expire(z), n, o, S, Plain, b, a, v) /\ Live(T200Expire(z)) /\ T200Expire(z).up = <<>>
        \/ z.retrans >= N200 /\ Ended(T200Expire(z))
    BY <1>4, <2>3, T200Runs
  <2>5. QED
    BY <1>5, <1>6, <2>1, <2>3, <2>4 DEF t
<1>7. CASE s.on[x] = "t203"
  <2>1. t = T203Expire(z)
    BY <1>7 DEF Fire
  <2>2. CASE Live(s)
    <3> HIDE DEF z, t
    <3>1. Live(z)
      BY <1>4, <2>2 DEF Live
    <3>2. Runs(T203Expire(z), n, o, S, Plain, b, a, v) /\ Live(T203Expire(z)) /\ T203Expire(z).up = <<>>
      BY <1>4, <3>1, T203Runs
    <3>3. QED
      BY <2>1, <2>2, <3>2 DEF t
  <2>3. CASE ~Live(s)
    <3> HIDE DEF z, t
    <3>1. z.state # "established"
      BY <1>4, <2>3 DEF Live
    <3>2. t = Start(z, "t203", "off")
      BY <2>1, <3>1 DEF T203Expire, Start
    <3>3. Runs(t, n, o, S, Plain, b, a, v) /\ t.state = z.state /\ t.up = <<>>
      BY <1>1, <1>4, <3>2, TimedRuns
    <3>4. QED
      BY <1>4, <2>3, <3>3 DEF t, Live
  <2>4. QED
    BY <2>2, <2>3
<1>8. CASE s.on[x] = "sabme"
  <2>1. t = SendSabme(z, TRUE)
    BY <1>8 DEF Fire
  <2>2. s.state # "established"
    BY <1>2, <1>8 DEF Watched, Half
  <2> HIDE DEF z, t
  <2>3. ~Live(z) /\ ~Live(s)
    BY <1>4, <2>2 DEF Live
  <2>4. Runs(z, n, o, S, Opens, b, a, v)
    BY <1>4, RunsMore
  <2>5. Runs(SendSabme(z, TRUE), n, o, S, Opens, b, a, v) /\ ~Live(SendSabme(z, TRUE)) /\ SendSabme(z, TRUE).up = <<>>
    BY <1>4, <2>3, <2>4, SabmeRuns
  <2>6. QED
    BY <2>1, <2>3, <2>5 DEF t
<1>9. QED
  BY <1>2, <1>6, <1>7, <1>8

\* A frame that opens the link, or one that a link which is not up takes no notice of.
LEMMA OpensRuns ==
  ASSUME NEW s, NEW n \in Nat, NEW o \in Nat, NEW S, NEW b, NEW a, NEW v,
         Runs(s, n, o, S, Plain, b, a, v), s.out = <<>>, s.up = <<>>,
         NEW f \in Frame(o), f.type \in Opens \/ (f.type \in NrTypes /\ ~Live(s)), NEW replies
  PROVE  LET t == Receive(s, f, replies)
         IN  /\ t.up = <<>> /\ Runs(t, n, o, S, Opens, b, a, v)
             /\ Live(s) => Live(t)
             /\ Live(t) => Live(s) \/ f.type \in Opens
             /\ Live(s) /\ f.type # "SABME" => Runs(t, n, o, S, Plain, b, a, v)
<1> DEFINE q == Qualified(s, f, replies)
           u == Transmit(s, UFrame("UA"))
           t == Receive(s, f, replies)
<1>1. "t203" \in Timers /\ "t203" \in Events /\ Sound(s, n, o) /\ Runs(s, n, o, S, Opens, b, a, v)
  BY RunsMore DEF Runs, Timers, Events
<1>2. /\ q.up = <<>> /\ Runs(q, n, o, S, Opens, b, a, v)
      /\ Live(s) => Live(q)
      /\ Live(q) => Live(s) \/ f.type \in Opens
      /\ Live(s) /\ f.type # "SABME" => Runs(q, n, o, S, Plain, b, a, v)
  <2>1. CASE f.type = "SABME"
    <3>1. q = DchannelUp(u)
      BY <2>1 DEF Qualified
    <3> DEFINE g == UFrame("UA")
    <3>2. g \in Frame(n) /\ g.type = "UA" /\ u = [s EXCEPT !.out = Append(s.out, g)] /\ u = Transmit(s, g)
      BY DEF UFrame, Frame, Transmit
    <3> HIDE DEF g, q, u
    <3>3. Sound(u, n, o) /\ u.out = Append(s.out, g) /\ \A y \in Fields \ {"out"} : u[y] = s[y]
      <4>1. Sound(u, n, o) /\ \A y \in Fields \ {"out"} : u[y] = s[y]
        BY <1>1, <3>2, TransmitIs
      <4>2. u.out = Append(s.out, g)
        BY <1>1, <3>2 DEF Sound, Fields
      <4>3. QED
        BY <4>1, <4>2
    <3>4. Runs(u, n, o, S, Opens, b, a, v) /\ u.up = <<>>
      <4>1. u.up = <<>> /\ \A y \in Core \ {"out"} : u[y] = s[y]
        BY <3>3 DEF Core, Fields
      <4>2. g.type \in NrTypes \cup Opens /\ g.type \notin NrTypes /\ g.type # "I"
        BY <3>2 DEF NrTypes, Opens
      <4>3. Runs(u, n, o, S, Opens, b, a, v)
        BY <1>1, <3>2, <3>3, <4>1, <4>2, SaysRuns
      <4>4. QED
        BY <4>1, <4>3
    <3>5. Runs(DchannelUp(u), n, o, S, Opens, b, a, v) /\ Live(DchannelUp(u)) /\ DchannelUp(u).up = <<>>
      BY <3>4, UpRuns
    <3>6. QED
      BY <2>1, <3>1, <3>5 DEF Opens
  <2>2. CASE f.type = "UA"
    <3>1. q = IF s.state = "awaiting" THEN DchannelUp(s) ELSE s
      BY <2>2 DEF Qualified
    <3>2. Runs(DchannelUp(s), n, o, S, Opens, b, a, v) /\ Live(DchannelUp(s)) /\ DchannelUp(s).up = <<>>
      BY <1>1, UpRuns
    <3>3. s.state = "awaiting" => ~Live(s)
      BY DEF Live
    <3> HIDE DEF q
    <3>4. QED
      BY <1>1, <2>2, <3>1, <3>2, <3>3 DEF Opens
  <2>3. CASE f.type \in NrTypes /\ ~Live(s)
    <3>1. q = s
      BY <2>3 DEF Qualified, NrTypes, Live
    <3> HIDE DEF q
    <3>2. QED
      BY <1>1, <2>3, <3>1
  <2>4. QED
    BY <2>1, <2>2, <2>3 DEF Opens
<1>3. t = Start(q, "t203", "t203")
  BY DEF Receive, Again
<1> HIDE DEF q, t, u
<1>4. Runs(t, n, o, S, Opens, b, a, v) /\ t.state = q.state /\ t.up = <<>>
  BY <1>1, <1>2, <1>3, TimedRuns
<1>5. Runs(q, n, o, S, Plain, b, a, v) => Runs(t, n, o, S, Plain, b, a, v)
  BY <1>1, <1>3, TimedRuns
<1>6. Live(t) <=> Live(q)
  BY <1>4 DEF Live
<1>7. QED
  BY <1>2, <1>4, <1>5, <1>6 DEF t

\* DM and DISC, of other equipment.
LEMMA EndsRuns ==
  ASSUME NEW s, NEW n \in Nat, NEW o \in Nat, Sound(s, n, o), s.out = <<>>, s.up = <<>>,
         NEW f, f.type \in {"DM", "DISC"}, NEW replies
  PROVE  Ended(Receive(s, f, replies))
<1> DEFINE q == Qualified(s, f, replies)
           u == Transmit(s, UFrame("UA"))
           t == Receive(s, f, replies)
<1>1. Ended(q) /\ Sound(q, n, o)
  <2>1. CASE f.type = "DM"
    <3>1. q = LinkDown(s)
      BY <2>1 DEF Qualified
    <3>2. Opening(s)
      BY DEF Opening
    <3>3. QED
      BY <3>1, <3>2, DownEnded, GiveUpIs
  <2>2. CASE f.type = "DISC"
    <3>1. q = LinkDown(u)
      BY <2>2 DEF Qualified
    <3> DEFINE g == UFrame("UA")
    <3>2. g \in Frame(n) /\ g.type = "UA" /\ u = [s EXCEPT !.out = Append(s.out, g)] /\ u = Transmit(s, g)
      BY DEF UFrame, Frame, Transmit
    <3> HIDE DEF g, q, u
    <3>3. Sound(u, n, o) /\ u.out = Append(s.out, g) /\ \A y \in Fields \ {"out"} : u[y] = s[y]
      <4>1. Sound(u, n, o) /\ \A y \in Fields \ {"out"} : u[y] = s[y]
        BY <3>2, TransmitIs
      <4>2. u.out = Append(s.out, g)
        BY <3>2 DEF Sound, Fields
      <4>3. QED
        BY <4>1, <4>2
    <3>4. u.up = <<>>
      BY <3>3 DEF Fields
    <3>5. u.out = <<g>>
      BY <3>3
    <3>6. Opening(u)
      BY <3>2, <3>5 DEF Opening, Opens
    <3>7. QED
      BY <3>1, <3>3, <3>4, <3>6, DownEnded, GiveUpIs
  <2>3. QED
    BY <2>1, <2>2
<1>2. t = Start(q, "t203", "t203") /\ "t203" \in Timers /\ "t203" \in Events
  BY DEF Receive, Again, Timers, Events
<1> HIDE DEF q, t, u
<1>3. \A y \in Fields \ {"on"} : t[y] = q[y]
  BY <1>1, <1>2, StartIs
<1>4. /\ t.state = q.state /\ t.queue = q.queue /\ t.up = q.up /\ t.out = q.out
      /\ t.v_s = q.v_s /\ t.v_a = q.v_a /\ t.v_r = q.v_r /\ t.windowlen = q.windowlen
  BY <1>3 DEF Fields
<1>5. QED
  BY <1>1, <1>4 DEF Ended, Live, t

-----------------------------------------------------------------------------
(* The line.                                                                *)

\* The message a peer that took messages up to l wants next, if a is the oldest in the queue.
Want(l, a) == IF l >= a THEN l + 1 ELSE a

\* The line to the peer, which wants message h: every message is on it with its number, and none is
\* so old that its number might be taken for another one's.
Sends(w, b, h) ==
    /\ \A k \in DOMAIN w : /\ w[k].type \in NrTypes \cup Opens
                           /\ w[k].type = "I" => Names(w[k].ns, b, w[k].data) /\ h < w[k].data + Mod
    /\ \A j, k \in DOMAIN w : j < k /\ w[j].type = "I" /\ w[k].type = "I" => w[j].data < (w[k].data + Mod) - 1

\* The frames on the line w whose N(R) the station s will look at: those that find the link up.
Readable(s, w) ==
    {k \in DOMAIN w : w[k].type \in NrTypes /\ (Live(s) \/ \E j \in 1 .. k - 1 : w[j].type \in Opens)}

\* The N(R) on the line name messages g, that were wanted one after the other, from a to h.
AcksBy(g, R, w, b, a, h) ==
    /\ g \in [DOMAIN w -> 1 .. h]
    /\ \A k \in R : g[k] >= a /\ Names(w[k].nr, b, g[k]) /\ \A j \in R : j < k => g[j] <= g[k]

\* A frame is on the line that opens the link.
Coming(w) == \E k \in DOMAIN w : w[k].type \in Opens

\* A line that gave up its first i frames.
Shrunk(w, r, i) ==
    /\ Len(w) \in Nat /\ i \in 0 .. 1 /\ i <= Len(w)
    /\ DOMAIN w = 1 .. Len(w) /\ DOMAIN r = 1 .. Len(w) - i
    /\ \A k \in 1 .. Len(w) - i : r[k] = w[k + i]

\* A line that took some of the frames transmitted.
Grown(w, q, r) ==
    /\ Len(w) \in Nat /\ Len(r) \in Nat /\ Len(w) <= Len(r)
    /\ DOMAIN w = 1 .. Len(w) /\ DOMAIN r = 1 .. Len(r)
    /\ \A k \in 1 .. Len(w) : r[k] = w[k]
    /\ \A k \in Len(w) + 1 .. Len(r) : k - Len(w) \in DOMAIN q /\ r[k] = q[k - Len(w)]

\* The line loses from the front and is cut at the end.
LEMMA LineIs ==
  ASSUME NEW T, NEW w \in Seq(T)
  PROVE  /\ Shrunk(w, w, 0)
         /\ w # <<>> => Shrunk(w, Tail(w), 1)
         /\ \A q \in Seq(T) : Len(w) <= MaxWire => Grown(w, q, OnLine(w \o q))
<1>1. Len(w) \in Nat /\ DOMAIN w = 1 .. Len(w)
  OBVIOUS
<1>2. Shrunk(w, w, 0)
  <2>1. \A k \in 1 .. Len(w) - 0 : w[k] = w[k + 0]
    BY <1>1
  <2>2. DOMAIN w = 1 .. Len(w) - 0
    BY <1>1
  <2>3. QED
    BY <1>1, <2>1, <2>2 DEF Shrunk
<1>3. ASSUME w # <<>> PROVE Shrunk(w, Tail(w), 1)
  <2> DEFINE r == Tail(w)
  <2>1. r \in Seq(T) /\ Len(r) = Len(w) - 1 /\ \A k \in 1 .. Len(r) : r[k] = w[k + 1]
    BY <1>3, HeadTailProperties
  <2> HIDE DEF r
  <2>2. DOMAIN r = 1 .. Len(w) - 1 /\ \A k \in 1 .. Len(w) - 1 : r[k] = w[k + 1]
    BY <2>1
  <2>3. 1 <= Len(w)
    <3>1. Len(w) # 0
      BY <1>3
    <3>2. QED
      BY <1>1, <3>1
  <2>4. QED
    BY <1>1, <2>2, <2>3 DEF Shrunk, r
<1>4. ASSUME NEW q \in Seq(T), Len(w) <= MaxWire PROVE Grown(w, q, OnLine(w \o q))
  <2> DEFINE x == w \o q
             c == IF Len(x) < MaxWire THEN Len(x) ELSE MaxWire
             r == SubSeq(x, 1, c)
  <2>1. OnLine(x) = r
    BY DEF OnLine
  <2>2. /\ x \in Seq(T) /\ Len(x) = Len(w) + Len(q) /\ Len(q) \in Nat
        /\ \A k \in 1 .. Len(w) : x[k] = w[k]
        /\ \A k \in Len(w) + 1 .. Len(w) + Len(q) : x[k] = q[k - Len(w)]
    OBVIOUS
  <2>3. MaxWire \in Nat
    BY LinkAssumption
  <2> HIDE DEF x
  <2>4. Len(x) \in Nat /\ c \in Nat /\ c <= Len(x) /\ Len(w) <= c
    BY <1>1, <1>4, <2>2, <2>3
  <2> HIDE DEF c
  <2>5. r \in Seq(T) /\ Len(r) = c /\ \A k \in 1 .. c : r[k] = x[k]
    BY <2>2, <2>4
  <2> HIDE DEF r
  <2>6. DOMAIN r = 1 .. Len(r)
    BY <2>5
  <2>7. \A k \in 1 .. Len(w) : r[k] = w[k]
    BY <1>1, <2>2, <2>4, <2>5
  <2>8. ASSUME NEW k \in Len(w) + 1 .. Len(r) PROVE k - Len(w) \in DOMAIN q /\ r[k] = q[k - Len(w)]
    <3>1. k \in Nat /\ k \in 1 .. c /\ k \in Len(w) + 1 .. Len(w) + Len(q)
      BY <1>1, <2>2, <2>4, <2>5
    <3>2. k - Len(w) \in 1 .. Len(q)
      BY <1>1, <2>2, <3>1
    <3>3. QED
      BY <2>2, <2>5, <3>1, <3>2
  <2>9. QED
    BY <1>1, <2>1, <2>4, <2>5, <2>6, <2>7, <2>8 DEF Grown, x
<1>5. QED
  BY <1>2, <1>3, <1>4

\* What is left on the line was there.
LEMMA CarriedLeft ==
  ASSUME NEW w, NEW r, NEW i, Shrunk(w, r, i)
  PROVE  /\ Carried(r) \subseteq Carried(w)
         /\ \A k \in DOMAIN r : k + i \in DOMAIN w /\ r[k] = w[k + i] /\ k \in Nat
         /\ Len(w) \in Nat /\ DOMAIN w = 1 .. Len(w) /\ i \in 0 .. 1
<1>1. \A k \in DOMAIN r : k + i \in DOMAIN w /\ r[k] = w[k + i] /\ k \in Nat
  BY DEF Shrunk
<1>2. QED
  BY <1>1 DEF Carried, Shrunk

\* What the line carries now it carried or was transmitted.
LEMMA CarriedMore ==
  ASSUME NEW w, NEW q, NEW r, Grown(w, q, r)
  PROVE  /\ Carried(r) \subseteq Carried(w) \cup Carried(q)
         /\ \A k \in DOMAIN r : \/ k \in DOMAIN w /\ r[k] = w[k]
                                \/ k > Len(w) /\ k - Len(w) \in DOMAIN q /\ r[k] = q[k - Len(w)]
         /\ DOMAIN w \subseteq DOMAIN r /\ DOMAIN r \subseteq Nat /\ DOMAIN w \subseteq Nat
         /\ \A k \in DOMAIN w : r[k] = w[k] /\ k <= Len(w)
         /\ Len(w) \in Nat
<1>1. ASSUME NEW k \in DOMAIN r
      PROVE  \/ k \in DOMAIN w /\ r[k] = w[k]
             \/ k > Len(w) /\ k - Len(w) \in DOMAIN q /\ r[k] = q[k - Len(w)]
  <2>1. k \in 1 .. Len(r) /\ Len(w) \in Nat /\ Len(r) \in Nat
    BY DEF Grown
  <2>2. k \in 1 .. Len(w) \/ k \in Len(w) + 1 .. Len(r)
    BY <2>1
  <2>3. k \in Len(w) + 1 .. Len(r) => k > Len(w)
    BY <2>1
  <2>4. QED
    BY <2>2, <2>3 DEF Grown
<1>2. Carried(r) \subseteq Carried(w) \cup Carried(q)
  BY <1>1 DEF Carried
<1>3. DOMAIN w \subseteq DOMAIN r /\ DOMAIN r \subseteq Nat /\ DOMAIN w \subseteq Nat /\ \A k \in DOMAIN w : k <= Len(w)
  BY DEF Grown
<1>4. QED
  BY <1>1, <1>2, <1>3 DEF Grown

\* Frames go; the one at the head may have been taken.
LEMMA SendsLeft ==
  ASSUME NEW w, NEW r, NEW i, Shrunk(w, r, i), NEW b, NEW h \in Int, Sends(w, b, h), NEW c \in Int,
         \A k \in DOMAIN w : w[k].type = "I" => w[k].data \in Int,
         c = h \/ (i = 1 /\ w[1].type = "I" /\ c = w[1].data + 1)
  PROVE  Sends(r, b, c)
<1>1. /\ \A k \in DOMAIN r : k + i \in DOMAIN w /\ r[k] = w[k + i] /\ k \in Nat
      /\ Len(w) \in Nat /\ DOMAIN w = 1 .. Len(w) /\ i \in 0 .. 1
  BY CarriedLeft
<1>2. Mod \in Int
  BY ConstantsAre
<1>3. ASSUME NEW k \in DOMAIN r, r[k].type = "I" PROVE c < r[k].data + Mod
  <2>1. r[k].data \in Int /\ h < r[k].data + Mod
    BY <1>1, <1>3 DEF Sends
  <2>2. CASE c = h
    BY <2>1, <2>2
  <2>3. CASE i = 1 /\ w[1].type = "I" /\ c = w[1].data + 1
    <3>1. 1 \in DOMAIN w /\ k + 1 \in DOMAIN w /\ 1 < k + 1 /\ r[k] = w[k + 1]
      <4>1. k \in Nat /\ k >= 1 /\ k + 1 \in DOMAIN w /\ r[k] = w[k + 1]
        BY <1>1, <2>3 DEF Shrunk
      <4>2. QED
        BY <1>1, <4>1
    <3>2. w[1].data < (r[k].data + Mod) - 1 /\ w[1].data \in Int
      BY <1>3, <2>3, <3>1 DEF Sends
    <3>3. QED
      BY <1>2, <2>1, <2>3, <3>2
  <2>4. QED
    BY <2>2, <2>3
<1>4. ASSUME NEW k \in DOMAIN r
      PROVE  /\ r[k].type \in NrTypes \cup Opens
             /\ r[k].type = "I" => Names(r[k].ns, b, r[k].data) /\ c < r[k].data + Mod
  BY <1>1, <1>3 DEF Sends
<1>5. ASSUME NEW j \in DOMAIN r, NEW k \in DOMAIN r, j < k, r[j].type = "I", r[k].type = "I"
      PROVE  r[j].data < (r[k].data + Mod) - 1
  <2>1. j + i < k + i
    BY <1>1, <1>5
  <2>2. QED
    BY <1>1, <1>5, <2>1 DEF Sends
<1>6. QED
  BY <1>4, <1>5 DEF Sends

\* Frames come: n is the last message submitted, a the oldest in the queue.
LEMMA SendsMore ==
  ASSUME NEW w, NEW q, NEW r, Grown(w, q, r), NEW b, NEW h \in Int, Sends(w, b, h), NEW a \in Int, NEW n \in Int,
         h <= n + 1, n + 1 < a + Mod,
         \A k \in DOMAIN w : w[k].type = "I" => w[k].data \in Int /\ w[k].data <= n,
         \A k \in DOMAIN q : /\ q[k].type \in NrTypes \cup Opens
                             /\ q[k].type = "I" => Names(q[k].ns, b, q[k].data) /\ q[k].data \in a .. n
  PROVE  Sends(r, b, h)
<1>1. /\ \A k \in DOMAIN r : \/ k \in DOMAIN w /\ r[k] = w[k]
                             \/ k > Len(w) /\ k - Len(w) \in DOMAIN q /\ r[k] = q[k - Len(w)]
      /\ DOMAIN r \subseteq Nat /\ Len(w) \in Nat
      /\ \A k \in DOMAIN w : k <= Len(w)
  BY CarriedMore
<1>2. Mod \in Int /\ Mod > 1
  BY ConstantsAre
<1>3. \A d \in a .. n : h < d + Mod /\ \A x \in Int : x <= n => x < (d + Mod) - 1
  BY <1>2
<1>4. ASSUME NEW k \in DOMAIN r
      PROVE  /\ r[k].type \in NrTypes \cup Opens
             /\ r[k].type = "I" => Names(r[k].ns, b, r[k].data) /\ h < r[k].data + Mod
  <2>1. CASE k \in DOMAIN w /\ r[k] = w[k]
    BY <2>1 DEF Sends
  <2>2. CASE k - Len(w) \in DOMAIN q /\ r[k] = q[k - Len(w)]
    BY <1>3, <2>2
  <2>3. QED
    BY <1>1, <2>1, <2>2
<1>5. ASSUME NEW j \in DOMAIN r, NEW k \in DOMAIN r, j < k, r[j].type = "I", r[k].type = "I"
      PROVE  r[j].data < (r[k].data + Mod) - 1
  <2>1. r[j].data \in Int /\ r[j].data <= n
    <3>1. CASE j \in DOMAIN w /\ r[j] = w[j]
      BY <1>5, <3>1
    <3>2. CASE j - Len(w) \in DOMAIN q /\ r[j] = q[j - Len(w)]
      BY <1>5, <3>2
    <3>3. QED
      BY <1>1, <3>1, <3>2
  <2>2. CASE k \in DOMAIN w /\ r[k] = w[k]
    <3>1. k <= Len(w) /\ j \in Nat /\ k \in Nat /\ Len(w) \in Nat
      BY <1>1, <2>2
    <3>2. ~(j > Len(w))
      BY <1>5, <3>1
    <3>3. j \in DOMAIN w /\ r[j] = w[j]
      BY <1>1, <3>2
    <3>4. QED
      BY <1>5, <2>2, <3>3 DEF Sends
  <2>3. CASE k - Len(w) \in DOMAIN q /\ r[k] = q[k - Len(w)]
    BY <1>3, <1>5, <2>1, <2>3
  <2>4. QED
    BY <1>1, <2>2, <2>3
<1>6. QED
  BY <1>4, <1>5 DEF Sends

\* Acknowledgements go; t is the station that reads on.
LEMMA AcksLeft ==
  ASSUME NEW w, NEW r, NEW i, Shrunk(w, r, i), NEW s, NEW t, NEW b, NEW a, NEW h, NEW g,
         AcksBy(g, Readable(s, w), w, b, a, h),
         Live(t) => Live(s) \/ (i = 1 /\ w[1].type \in Opens),
         NEW c, \A k \in Readable(s, w) : k > i => g[k] >= c
  PROVE  \E f \in [DOMAIN r -> 1 .. h] : AcksBy(f, Readable(t, r), r, b, c, h)
<1> DEFINE f == [k \in DOMAIN r |-> g[k + i]]
<1>1. /\ \A k \in DOMAIN r : k + i \in DOMAIN w /\ r[k] = w[k + i] /\ k \in Nat
      /\ Len(w) \in Nat /\ DOMAIN w = 1 .. Len(w) /\ i \in 0 .. 1
  BY CarriedLeft
<1>2. \A k \in DOMAIN r : k >= 1
  BY DEF Shrunk
<1>3. f \in [DOMAIN r -> 1 .. h]
  BY <1>1 DEF AcksBy
<1>4. ASSUME NEW k \in Readable(t, r) PROVE k + i \in Readable(s, w) /\ k + i > i /\ k \in DOMAIN r /\ k \in Nat
  <2>1. /\ k \in DOMAIN r /\ k \in Nat /\ k >= 1 /\ r[k].type \in NrTypes
        /\ Live(t) \/ \E j \in 1 .. k - 1 : r[j].type \in Opens
    BY <1>1, <1>2 DEF Readable
  <2>2. k + i \in DOMAIN w /\ w[k + i].type \in NrTypes /\ k + i > i
    BY <1>1, <2>1
  <2>3. Live(s) \/ \E j \in 1 .. (k + i) - 1 : w[j].type \in Opens
    <3>1. CASE Live(t)
      <4>1. i = 1 => 1 \in 1 .. (k + i) - 1
        BY <2>1
      <4>2. QED
        BY <3>1, <4>1
    <3>2. CASE \E j \in 1 .. k - 1 : r[j].type \in Opens
      <4>1. PICK j \in 1 .. k - 1 : r[j].type \in Opens
        BY <3>2
      <4>2. j \in DOMAIN r
        <5>1. k \in 1 .. Len(w) - i /\ Len(w) - i \in Int /\ DOMAIN r = 1 .. Len(w) - i
          BY <1>1, <2>1 DEF Shrunk
        <5>2. QED
          BY <5>1
      <4>3. j + i \in 1 .. (k + i) - 1
        BY <1>1, <2>1
      <4>4. QED
        BY <1>1, <4>1, <4>2, <4>3
    <3>3. QED
      BY <2>1, <3>1, <3>2
  <2>4. QED
    BY <2>1, <2>2, <2>3 DEF Readable
<1>5. ASSUME NEW k \in Readable(t, r)
      PROVE  f[k] >= c /\ Names(r[k].nr, b, f[k]) /\ \A j \in Readable(t, r) : j < k => f[j] <= f[k]
  <2>1. k + i \in Readable(s, w) /\ f[k] = g[k + i] /\ r[k] = w[k + i] /\ k + i > i /\ k \in Nat
    BY <1>1, <1>4
  <2>2. f[k] >= c
    BY <2>1
  <2>3. Names(r[k].nr, b, f[k])
    BY <2>1 DEF AcksBy
  <2>4. ASSUME NEW j \in Readable(t, r), j < k PROVE f[j] <= f[k]
    <3>1. j + i \in Readable(s, w) /\ f[j] = g[j + i] /\ j \in Nat
      BY <1>4
    <3>2. j + i < k + i
      BY <1>1, <2>1, <2>4, <3>1
    <3>3. QED
      BY <2>1, <3>1, <3>2 DEF AcksBy
  <2>5. QED
    BY <2>2, <2>3, <2>4
<1>6. AcksBy(f, Readable(t, r), r, b, c, h)
  BY <1>3, <1>5 DEF AcksBy
<1>7. QED
  BY <1>3, <1>6

\* Acknowledgements come, all of the number wanted now.
LEMMA AcksMore ==
  ASSUME NEW w, NEW q, NEW r, Grown(w, q, r), NEW s, NEW b, NEW a \in Int, NEW h \in Int, NEW c \in Int,
         a >= 1, a <= c, h <= c, NEW g, AcksBy(g, Readable(s, w), w, b, a, h),
         \A k \in Readable(s, r) : k > Len(w) => Names(r[k].nr, b, c)
  PROVE  \E f \in [DOMAIN r -> 1 .. c] : AcksBy(f, Readable(s, r), r, b, a, c)
<1> DEFINE f == [k \in DOMAIN r |-> IF k \in DOMAIN w THEN g[k] ELSE c]
<1>1. /\ \A k \in DOMAIN r : \/ k \in DOMAIN w /\ r[k] = w[k]
                             \/ k > Len(w) /\ k - Len(w) \in DOMAIN q /\ r[k] = q[k - Len(w)]
      /\ DOMAIN r \subseteq Nat /\ Len(w) \in Nat
      /\ \A k \in DOMAIN w : r[k] = w[k] /\ k <= Len(w)
  BY CarriedMore
<1>2. \A k \in DOMAIN w : g[k] \in 1 .. h
  BY DEF AcksBy
<1>3. c \in 1 .. c /\ (1 .. h) \subseteq (1 .. c)
  OBVIOUS
<1>4. f \in [DOMAIN r -> 1 .. c]
  BY <1>2, <1>3
<1>5. ASSUME NEW k \in Readable(s, r), k \in DOMAIN w PROVE k \in Readable(s, w)
  <2>1. /\ k \in DOMAIN r /\ r[k].type \in NrTypes /\ k \in 1 .. Len(w)
        /\ Live(s) \/ \E j \in 1 .. k - 1 : r[j].type \in Opens
    BY <1>5 DEF Readable, Grown
  <2>2. \A j \in 1 .. k - 1 : j \in DOMAIN w
    BY <1>1, <2>1 DEF Grown
  <2>3. QED
    BY <1>1, <1>5, <2>1, <2>2 DEF Readable
<1>6. ASSUME NEW k \in Readable(s, r)
      PROVE  f[k] >= a /\ Names(r[k].nr, b, f[k]) /\ \A j \in Readable(s, r) : j < k => f[j] <= f[k]
  <2>1. k \in DOMAIN r
    BY DEF Readable
  <2>2. CASE k \in DOMAIN w
    <3>1. k \in Readable(s, w) /\ f[k] = g[k] /\ r[k] = w[k]
      BY <1>1, <1>5, <2>1, <2>2
    <3>2. ASSUME NEW j \in Readable(s, r), j < k PROVE j \in Readable(s, w) /\ f[j] = g[j]
      <4>1. j \in DOMAIN r /\ j \in Nat /\ k \in Nat /\ k <= Len(w)
        BY <1>1, <2>1, <2>2 DEF Readable
      <4>2. ~(j > Len(w))
        BY <1>1, <3>2, <4>1
      <4>3. j \in DOMAIN w
        BY <1>1, <4>1, <4>2
      <4>4. QED
        BY <1>5, <4>1, <4>3
    <3>3. QED
      BY <3>1, <3>2 DEF AcksBy
  <2>3. CASE k \notin DOMAIN w
    <3>1. f[k] = c /\ Names(r[k].nr, b, c)
      BY <1>1, <2>1, <2>3
    <3>2. ASSUME NEW j \in Readable(s, r) PROVE f[j] <= c
      <4>1. j \in DOMAIN r
        BY DEF Readable
      <4>2. f[j] \in 1 .. c
        BY <1>4, <4>1
      <4>3. QED
        BY <4>2
    <3>3. QED
      BY <3>1, <3>2
  <2>4. QED
    BY <2>2, <2>3
<1>7. AcksBy(f, Readable(s, r), r, b, a, c)
  BY <1>4, <1>6 DEF AcksBy
<1>8. QED
  BY <1>4, <1>7

-----------------------------------------------------------------------------
(* The two ends.                                                            *)

\* What was seen by the peer, which took messages up to l: those, and what is on the line.
Seen(l, u) == (1 .. l) \cup Carried(u)

\* The number of the message before the first.
Base(s, n) == At(s, n, 0)

\* The message of s its peer wants next.
Wanted(s, n, l) == Want(l, Oldest(s, n))

\* What a station has sent: u is the line to its peer.
Speaks(s, n, l, u) ==
    /\ Numbered(s, n)
    /\ Counted(s, Seen(l, u))
    /\ Sends(u, Base(s, n), Wanted(s, n, l))
    /\ ~Live(s) => l < Oldest(s, n) /\ \A k \in DOMAIN u : u[k].type \notin NrTypes

\* What a station will hear: w is the line to it.
Listens(s, n, l, w) ==
    \E g \in [DOMAIN w -> 1 .. Wanted(s, n, l)] :
        AcksBy(g, Readable(s, w), w, Base(s, n), Oldest(s, n), Wanted(s, n, l))

\* The peer, whose v_r is v, wants what it should.
Agrees(s, n, l, v) == Names(v, Base(s, n), Wanted(s, n, l))

\* Where the numbers lie.
Ordered(n, l, a, h) ==
    /\ n \in Nat /\ l \in Nat /\ l <= n /\ a \in Int /\ h \in Int /\ a >= 1
    /\ h = Want(l, a) /\ a <= h /\ l < h /\ h <= n + 1 /\ n + 1 < a + Mod /\ Mod \in Int

\* Between steps a station runs, with nothing transmitted.
LEMMA SpeaksIs ==
  ASSUME NEW s, NEW n \in Nat, NEW o, Sound(s, n, o), s.out = <<>>, NEW l \in 0 .. n, NEW u, Speaks(s, n, l, u)
  PROVE  /\ Runs(s, n, o, Seen(l, u), Plain, Base(s, n), Oldest(s, n), s.v_r)
         /\ Ordered(n, l, Oldest(s, n), Wanted(s, n, l))
         /\ Base(s, n) \in Num
         /\ ~Live(s) => Wanted(s, n, l) = Oldest(s, n) /\ Names(0, Base(s, n), Wanted(s, n, l)) /\ s.v_r = 0
<1> DEFINE a == Oldest(s, n)
           h == Wanted(s, n, l)
           b == Base(s, n)
           k == Len(s.queue)
<1>1. k \in Nat /\ s.v_s \in Nat /\ Mod \in Nat /\ Mod > 1
  <2>1. k \in Nat
    BY UnsentAre
  <2>2. QED
    BY <2>1, ConstantsAre DEF Sound
<1>2. a = (n - k) + 1 /\ a >= 1 /\ k <= s.v_s /\ k < Mod
  BY DEF Speaks, Numbered, Oldest
<1> HIDE DEF k
<1>3. Ordered(n, l, a, h)
  <2>1. a \in Int /\ l \in Nat /\ l <= n
    BY <1>1, <1>2
  <2>2. h = Want(l, a) /\ ((h = l + 1 /\ l >= a) \/ (h = a /\ l < a))
    BY <2>1 DEF Wanted, Want
  <2> HIDE DEF a, h
  <2>3. h \in Int /\ a <= h /\ l < h /\ h <= n + 1 /\ n + 1 < a + Mod
    BY <1>1, <1>2, <2>1, <2>2
  <2>4. QED
    BY <1>1, <1>2, <2>1, <2>2, <2>3 DEF Ordered
<1>4. b \in Num /\ \A d \in Int : At(s, n, d) = (b + d) % Mod
  <2> DEFINE x == (s.v_s - n) + (0 - 1)
  <2>1. x \in Int /\ \A d \in Int : (s.v_s - n) + (d - 1) = x + d
    BY <1>1
  <2>2. b = x % Mod
    BY DEF Base, At
  <2>3. \A d \in Int : At(s, n, d) = (x + d) % Mod
    BY <2>1 DEF At
  <2> HIDE DEF x, b
  <2>4. \A d \in Int : ((x % Mod) + d) % Mod = (x + d) % Mod
    BY <2>1, Reduced
  <2>5. x % Mod \in Num
    BY <2>1, ConstantsAre
  <2>6. QED
    BY <2>2, <2>3, <2>4, <2>5
<1>5. Runs(s, n, o, Seen(l, u), Plain, b, a, s.v_r)
  <2>1. Carried(s.out) = {}
    BY DEF Carried
  <2>2. Emitted(s, n, Plain)
    BY DEF Emitted
  <2>3. Counted(s, Seen(l, u) \cup Carried(s.out)) /\ Numbered(s, n)
    BY <2>1 DEF Speaks
  <2>4. QED
    BY <1>4, <2>2, <2>3 DEF Runs
<1>6. ASSUME ~Live(s) PROVE h = a /\ Names(0, b, h) /\ s.v_r = 0
  <2>1. l < a /\ s.v_s = k /\ s.v_r = 0
    BY <1>6 DEF Speaks, Numbered, k
  <2>2. h = a
    BY <1>1, <1>2, <2>1 DEF Wanted, Want
  <2>3. At(s, n, a) = 0
    <3>1. (s.v_s - n) + (a - 1) = 0
      BY <1>1, <1>2, <2>1
    <3>2. 0 % Mod = 0
      BY ConstantsAre, Reduced
    <3>3. QED
      BY <3>1, <3>2 DEF At
  <2>4. (b + a) % Mod = 0
    BY <1>1, <1>2, <1>4, <2>3
  <2>5. QED
    BY <2>1, <2>2, <2>4 DEF Names
<1>7. QED
  BY <1>3, <1>4, <1>5, <1>6

\* What a station keeps of a step.
LEMMA SettledLike ==
  ASSUME NEW t, NEW n, NEW o, Sound(t, n, o)
  PROVE  LET q == Settled(t)
         IN  /\ q.state = t.state /\ q.v_s = t.v_s /\ q.v_a = t.v_a /\ q.v_r = t.v_r
             /\ q.windowlen = t.windowlen /\ q.queue = t.queue
             /\ (Live(q) <=> Live(t)) /\ \A x : Oldest(q, x) = Oldest(t, x)
             /\ \A x, d : At(q, x, d) = At(t, x, d)
<1> DEFINE q == Settled(t)
<1>1. /\ q.state = t.state /\ q.v_s = t.v_s /\ q.v_a = t.v_a /\ q.v_r = t.v_r
      /\ q.windowlen = t.windowlen /\ q.queue = t.queue
  BY DEF Settled, Sound, Fields
<1> HIDE DEF q
<1>2. QED
  BY <1>1 DEF Live, Oldest, At, q

\* A station goes on, or its link comes up.
LEMMA SpeaksOn ==
  ASSUME NEW s, NEW n \in Nat, NEW o, Sound(s, n, o), s.out = <<>>, NEW l \in 0 .. n, NEW u \in Seq(Frame(n)),
         Speaks(s, n, l, u),
         NEW t, NEW k \in Nat, n <= k, NEW U, U = Plain \/ U = Opens, NEW a, NEW v,
         Runs(t, k, o, Seen(l, u), U, Base(s, n), a, v),
         a \in Oldest(s, n) .. Wanted(s, n, l), Live(s) => Live(t),
         NEW r, Grown(u, t.out, r)
  PROVE  LET q == Settled(t)
         IN  /\ Speaks(q, k, l, r) /\ Base(q, k) = Base(s, n) /\ Oldest(q, k) = a
             /\ Wanted(q, k, l) = Wanted(s, n, l)
             /\ q.v_r = v /\ (Live(q) <=> Live(t))
<1> DEFINE q == Settled(t)
           b == Base(s, n)
           h == Wanted(s, n, l)
           S == Seen(l, u)
<1>1. Ordered(n, l, Oldest(s, n), h) /\ b \in Num
  BY SpeaksIs
<1>2. Sound(t, k, o) /\ Numbered(t, k) /\ Counted(t, S \cup Carried(t.out)) /\ Emitted(t, k, U)
      /\ Oldest(t, k) = a /\ t.v_r = v /\ \A d \in Int : At(t, k, d) = (b + d) % Mod
  BY DEF Runs
<1>3. /\ q.state = t.state /\ q.v_s = t.v_s /\ q.v_a = t.v_a /\ q.v_r = t.v_r
      /\ q.windowlen = t.windowlen /\ q.queue = t.queue
      /\ (Live(q) <=> Live(t)) /\ \A x : Oldest(q, x) = Oldest(t, x)
      /\ \A x, d : At(q, x, d) = At(t, x, d)
  BY <1>2, SettledLike
<1>4. Base(q, k) = b
  <2>1. At(t, k, 0) = (b + 0) % Mod
    BY <1>2
  <2>2. b \in Int
    BY <1>1 DEF Num
  <2>3. b + 0 = b /\ b % Mod = b
    <3> HIDE DEF b
    <3>1. b + 0 = b
      BY <2>2
    <3>2. b % Mod = b
      BY <1>1, <2>2, Reduced
    <3>3. QED
      BY <3>1, <3>2
  <2>4. QED
    BY <1>3, <2>1, <2>3 DEF Base
<1>5. Oldest(q, k) = a /\ q.v_r = v
  BY <1>2, <1>3
<1>6. Wanted(q, k, l) = h /\ a \in Int /\ a >= 1 /\ a <= h
  <2> DEFINE c == Oldest(s, n)
  <2>1. c \in Int /\ l \in Nat /\ h = Want(l, c) /\ a \in c .. h /\ h \in Int /\ c >= 1
    BY <1>1 DEF Ordered
  <2> HIDE DEF c, h
  <2>2. Want(l, a) = h /\ a \in Int /\ a >= 1 /\ a <= h
    BY <2>1 DEF Want
  <2>3. QED
    BY <1>5, <2>2 DEF Wanted
<1> HIDE DEF q
<1>7. Numbered(q, k)
  BY <1>2, <1>3 DEF Numbered
<1>8. Counted(q, Seen(l, r))
  <2>1. Carried(r) \subseteq Carried(u) \cup Carried(t.out)
    BY CarriedMore
  <2>2. Outstanding(q, Seen(l, r)) \subseteq Outstanding(t, S \cup Carried(t.out)) \cup {}
    BY <1>3, <2>1 DEF Outstanding, Seen
  <2>3. /\ Cardinality(Outstanding(q, Seen(l, r))) <= Cardinality(Outstanding(t, S \cup Carried(t.out))) + Cardinality({})
        /\ Cardinality(Outstanding(q, Seen(l, r))) \in Nat
        /\ Cardinality(Outstanding(t, S \cup Carried(t.out))) \in Nat
    <3>1. IsFiniteSet({})
      BY FS_EmptySet
    <3> HIDE DEF S
    <3>2. QED
      BY <1>2, <2>2, <3>1, CountedLess
  <2>4. Cardinality({}) = 0
    BY FS_EmptySet
  <2>5. t.windowlen \in Int /\ Cardinality(Outstanding(t, S \cup Carried(t.out))) <= t.windowlen /\ t.windowlen \in 0 .. K
    BY <1>2 DEF Counted, Sound
  <2> HIDE DEF S
  <2>6. QED
    BY <1>3, <2>3, <2>4, <2>5 DEF Counted
<1>9. k + 1 < a + Mod /\ h <= k + 1 /\ h \in Int /\ Mod \in Int
  <2>1. Len(t.queue) \in Nat /\ Len(t.queue) < Mod /\ a = (k - Len(t.queue)) + 1
    <3>1. Len(t.queue) \in Nat
      BY <1>2, UnsentAre
    <3>2. QED
      BY <1>2, <3>1 DEF Numbered, Oldest
  <2> DEFINE c == Len(t.queue)
  <2>2. c \in Nat /\ c < Mod /\ a = (k - c) + 1
    BY <2>1
  <2>3. Mod \in Int /\ h \in Int /\ h <= n + 1
    BY <1>1 DEF Ordered
  <2> HIDE DEF c, h
  <2>4. QED
    BY <1>6, <2>2, <2>3
<1>10. Sends(r, b, h)
  <2>1. \A j \in DOMAIN u : u[j].type = "I" => u[j].data \in Int /\ u[j].data <= k
    <3>1. SUFFICES ASSUME NEW j \in DOMAIN u, u[j].type = "I" PROVE u[j].data \in Int /\ u[j].data <= k
      OBVIOUS
    <3>2. u[j] \in Frame(n)
      OBVIOUS
    <3>3. u[j].data \in 1 .. n
      BY <3>1, <3>2, FrameIs
    <3>4. QED
      BY <3>3
  <2>2. \A j \in DOMAIN t.out : /\ t.out[j].type \in NrTypes \cup Opens
                                /\ t.out[j].type = "I" => Names(t.out[j].ns, b, t.out[j].data) /\ t.out[j].data \in a .. k
    <3>1. SUFFICES ASSUME NEW j \in DOMAIN t.out
                   PROVE  /\ t.out[j].type \in NrTypes \cup Opens
                          /\ t.out[j].type = "I" => Names(t.out[j].ns, b, t.out[j].data) /\ t.out[j].data \in a .. k
      OBVIOUS
    <3>2. t.out[j].type \in NrTypes \cup Opens
      BY <1>2 DEF Emitted, Plain
    <3>3. ASSUME t.out[j].type = "I" PROVE Names(t.out[j].ns, b, t.out[j].data) /\ t.out[j].data \in a .. k
      <4>1. t.out[j].data \in a .. k /\ t.out[j].ns = At(t, k, t.out[j].data)
        BY <1>2, <3>3 DEF Emitted
      <4>2. t.out[j].data \in Int
        BY <4>1
      <4>3. QED
        BY <1>2, <4>1, <4>2 DEF Names
    <3>4. QED
      BY <3>2, <3>3
  <2>3. Sends(u, b, h)
    BY DEF Speaks
  <2> HIDE DEF b, h
  <2>4. QED
    BY <1>6, <1>9, <2>1, <2>2, <2>3, SendsMore
<1>11. ASSUME ~Live(q) PROVE l < Oldest(q, k) /\ \A j \in DOMAIN r : r[j].type \notin NrTypes
  <2>1. ~Live(t) /\ ~Live(s)
    BY <1>3, <1>11
  <2>2. l < Oldest(s, n) /\ \A j \in DOMAIN u : u[j].type \notin NrTypes
    BY <2>1 DEF Speaks
  <2>3. l < a
    <3> DEFINE c == Oldest(s, n)
    <3>1. c \in Int /\ l \in Nat /\ a \in Int /\ a \in c .. h /\ h \in Int /\ l < c
      BY <1>1, <1>6, <2>2 DEF Ordered
    <3> HIDE DEF c, h
    <3>2. QED
      BY <3>1
  <2>4. \A j \in DOMAIN t.out : t.out[j].type \notin NrTypes
    BY <1>2, <2>1 DEF Emitted
  <2>5. ASSUME NEW j \in DOMAIN r PROVE r[j].type \notin NrTypes
    <3>1. \/ j \in DOMAIN u /\ r[j] = u[j]
          \/ j - Len(u) \in DOMAIN t.out /\ r[j] = t.out[j - Len(u)]
      BY CarriedMore
    <3>2. QED
      BY <2>2, <2>4, <3>1
  <2>6. QED
    BY <1>5, <2>3, <2>5
<1>12. Speaks(q, k, l, r)
  BY <1>4, <1>6, <1>7, <1>8, <1>10, <1>11 DEF Speaks
<1>13. QED
  BY <1>3, <1>4, <1>5, <1>6, <1>12 DEF q

\* What the peer took of the line u, of which i frames are gone: nothing, or the message wanted.
Took(u, i, h, l, m) ==
    \/ m = l
    \/ i = 1 /\ u[1].type = "I" /\ u[1].data = h /\ m = h

\* The line to the peer gives up a frame.
LEMMA SpeaksLess ==
  ASSUME NEW s, NEW n \in Nat, NEW o, Sound(s, n, o), s.out = <<>>, NEW l \in 0 .. n, NEW u \in Seq(Frame(n)),
         Speaks(s, n, l, u), NEW r, NEW i, Shrunk(u, r, i),
         NEW m, Took(u, i, Wanted(s, n, l), l, m)
  PROVE  /\ Speaks(s, n, m, r) /\ m \in 0 .. n
         /\ \/ m = l /\ Wanted(s, n, m) = Wanted(s, n, l)
            \/ m = Wanted(s, n, l) /\ Wanted(s, n, m) = Wanted(s, n, l) + 1 /\ Live(s) /\ m > l
<1> DEFINE b == Base(s, n)
           a == Oldest(s, n)
           h == Wanted(s, n, l)
           c == Wanted(s, n, m)
<1>1. /\ n \in Nat /\ l \in Nat /\ l <= n /\ a \in Int /\ h \in Int /\ a >= 1
      /\ a <= h /\ l < h /\ h <= n + 1 /\ n + 1 < a + Mod /\ Mod \in Int
  BY SpeaksIs DEF Ordered
<1>2. \A k \in DOMAIN u : u[k].type = "I" => u[k].data \in 1 .. n
  <2>1. SUFFICES ASSUME NEW k \in DOMAIN u, u[k].type = "I" PROVE u[k].data \in 1 .. n
    OBVIOUS
  <2>2. u[k] \in Frame(n)
    OBVIOUS
  <2>3. QED
    BY <2>1, <2>2, FrameIs
<1>3. /\ \A k \in DOMAIN r : k + i \in DOMAIN u /\ r[k] = u[k + i] /\ k \in Nat
      /\ Carried(r) \subseteq Carried(u)
      /\ Len(u) \in Nat /\ DOMAIN u = 1 .. Len(u) /\ i \in 0 .. 1
  BY CarriedLeft
<1>4. m = l \/ (i = 1 /\ u[1].type = "I" /\ u[1].data = h /\ m = h /\ 1 \in DOMAIN u)
  <2>1. i = 1 => 1 \in DOMAIN u
    BY <1>3 DEF Shrunk
  <2>2. QED
    BY <2>1 DEF Took
<1>5. Numbered(s, n) /\ Counted(s, Seen(l, u)) /\ Sends(u, b, h)
      /\ (~Live(s) => l < a /\ \A k \in DOMAIN u : u[k].type \notin NrTypes)
  BY DEF Speaks
<1>6. c = Want(m, a)
  BY DEF Wanted
<1> HIDE DEF a, b, c, h
<1>7. m \in 0 .. n /\ ((m = l /\ c = h) \/ (m = h /\ c = h + 1 /\ Live(s) /\ m > l))
  <2>1. CASE m = l
    BY <2>1 DEF c, h
  <2>2. CASE i = 1 /\ u[1].type = "I" /\ u[1].data = h /\ m = h /\ 1 \in DOMAIN u
    <3>1. m \in 1 .. n
      BY <1>2, <2>2
    <3>2. Live(s)
      BY <1>5, <2>2 DEF NrTypes
    <3>3. c = m + 1
      BY <1>1, <1>6, <2>2 DEF Want
    <3>4. QED
      BY <1>1, <2>2, <3>1, <3>2, <3>3
  <2>3. QED
    BY <1>4, <2>1, <2>2
<1>8. Counted(s, Seen(m, r))
  <2> DEFINE x == Outstanding(s, Seen(m, r))
             y == Outstanding(s, Seen(l, u))
  <2>1. ASSUME NEW j \in DOMAIN s.queue, s.queue[j].data \in Seen(m, r) PROVE s.queue[j].data \in Seen(l, u)
    <3> DEFINE d == s.queue[j].data
    <3>1. d \in Int /\ d >= a
      <4>1. d = a + (j - 1) /\ j \in 1 .. Len(s.queue) /\ Len(s.queue) \in Nat
        BY <1>5, UnsentAre DEF Numbered, a
      <4>2. QED
        BY <1>1, <4>1
    <3>2. CASE d \in Carried(r)
      BY <1>3, <3>2 DEF Seen
    <3>3. CASE d \in 1 .. m /\ m = l
      BY <3>3 DEF Seen
    <3>4. CASE d \in 1 .. m /\ m # l
      <4>1. u[1].type = "I" /\ u[1].data = h /\ m = h /\ 1 \in DOMAIN u
        BY <1>4, <3>4
      <4>2. h \in Carried(u)
        BY <4>1 DEF Carried
      <4>3. CASE d = h
        BY <4>2, <4>3 DEF Seen
      <4>4. CASE d # h
        <5>1. h = Want(l, a)
          BY DEF h, Wanted, a
        <5> HIDE DEF d
        <5>2. d >= 1 /\ d < h
          BY <1>1, <3>1, <3>4, <4>1, <4>4
        <5>3. d \in 1 .. l
          BY <1>1, <3>1, <5>1, <5>2 DEF Want
        <5>4. QED
          BY <5>3 DEF Seen, d
      <4>5. QED
        BY <4>3, <4>4
    <3>5. QED
      BY <2>1, <3>2, <3>3, <3>4 DEF Seen
  <2>2. x \subseteq y \cup {}
    BY <2>1 DEF Outstanding
  <2>3. Cardinality(x) <= Cardinality(y) + Cardinality({}) /\ Cardinality(x) \in Nat /\ Cardinality(y) \in Nat
    <3>1. IsFiniteSet({})
      BY FS_EmptySet
    <3>2. QED
      BY <2>2, <3>1, CountedLess
  <2>4. Cardinality({}) = 0
    BY FS_EmptySet
  <2>5. s.windowlen \in Int /\ Cardinality(y) <= s.windowlen /\ s.windowlen \in 0 .. K
    BY <1>5 DEF Counted, Sound
  <2> HIDE DEF x, y
  <2>6. Cardinality(x) <= s.windowlen
    BY <2>3, <2>4, <2>5
  <2>7. QED
    BY <2>5, <2>6 DEF Counted, x
<1>9. Sends(r, b, c)
  <2>1. \A k \in DOMAIN u : u[k].type = "I" => u[k].data \in Int
    BY <1>2
  <2>2. c \in Int /\ (c = h \/ (i = 1 /\ u[1].type = "I" /\ c = u[1].data + 1))
    <3>1. CASE m = l
      BY <1>1, <1>7, <3>1
    <3>2. CASE m # l
      BY <1>1, <1>4, <1>7, <3>2
    <3>3. QED
      BY <3>1, <3>2
  <2>3. h \in Int
    BY <1>1
  <2>4. QED
    BY <1>5, <2>1, <2>2, <2>3, SendsLeft
<1>10. ~Live(s) => m < a /\ \A k \in DOMAIN r : r[k].type \notin NrTypes
  BY <1>3, <1>5, <1>7
<1>11. Speaks(s, n, m, r)
  BY <1>5, <1>8, <1>9, <1>10 DEF Speaks, a, b, c
<1>12. QED
  BY <1>7, <1>11 DEF c, h

\* The line from the peer grows; what comes names the number wanted now.
LEMMA ListensMore ==
  ASSUME NEW s, NEW n, NEW l, NEW w, Listens(s, n, l, w), NEW m, NEW a, Ordered(n, l, Oldest(s, n), Wanted(s, n, l)),
         \/ Wanted(s, n, m) = Wanted(s, n, l)
         \/ Wanted(s, n, m) = Wanted(s, n, l) + 1,
         NEW q, NEW r, Grown(w, q, r),
         \A k \in Readable(s, r) : k > Len(w) => Agrees(s, n, m, r[k].nr)
  PROVE  Listens(s, n, m, r)
<1> DEFINE b == Base(s, n)
           x == Oldest(s, n)
           h == Wanted(s, n, l)
           c == Wanted(s, n, m)
<1>1. PICK g \in [DOMAIN w -> 1 .. h] : AcksBy(g, Readable(s, w), w, b, x, h)
  BY DEF Listens
<1>2. x \in Int /\ h \in Int /\ x >= 1 /\ x <= h /\ (c = h \/ c = h + 1)
  BY DEF Ordered
<1>3. \A k \in Readable(s, r) : k > Len(w) => Names(r[k].nr, b, c)
  BY DEF Agrees
<1> HIDE DEF b, x, h, c
<1>4. c \in Int /\ x <= c /\ h <= c
  BY <1>2
<1>5. \E f \in [DOMAIN r -> 1 .. c] : AcksBy(f, Readable(s, r), r, b, x, c)
  BY <1>1, <1>2, <1>3, <1>4, AcksMore
<1>6. QED
  BY <1>5 DEF Listens, b, x, c

\* The line to a station gives up a frame, and the station becomes q.
LEMMA ListensLess ==
  ASSUME NEW s, NEW n, NEW l, NEW w, NEW g,
         AcksBy(g, Readable(s, w), w, Base(s, n), Oldest(s, n), Wanted(s, n, l)),
         NEW q, NEW k, Base(q, k) = Base(s, n), Wanted(q, k, l) = Wanted(s, n, l),
         NEW r, NEW i, Shrunk(w, r, i),
         Live(q) => Live(s) \/ (i = 1 /\ w[1].type \in Opens),
         \A j \in Readable(s, w) : j > i => g[j] >= Oldest(q, k)
  PROVE  Listens(q, k, l, r)
<1> DEFINE b == Base(s, n)
           a == Oldest(s, n)
           c == Oldest(q, k)
           h == Wanted(s, n, l)
<1>1. AcksBy(g, Readable(s, w), w, b, a, h) /\ \A j \in Readable(s, w) : j > i => g[j] >= c
  OBVIOUS
<1> HIDE DEF b, a, c, h
<1>2. \E f \in [DOMAIN r -> 1 .. h] : AcksBy(f, Readable(q, r), r, b, c, h)
  BY <1>1, AcksLeft
<1>3. QED
  BY <1>2 DEF Listens, b, c, h

\* A station that was reset: nothing is expected of it.
LEMMA EndedIs ==
  ASSUME NEW t, NEW n \in Nat, NEW o, Sound(t, n, o), Ended(t), NEW l \in 0 .. n,
         NEW r, Grown(<<>>, t.out, r)
  PROVE  LET q == Settled(t)
         IN  /\ Speaks(q, n, l, r) /\ Listens(q, n, l, <<>>) /\ ~Live(q) /\ q.v_r = 0
             /\ \A k \in DOMAIN r : r[k].type \notin NrTypes
<1> DEFINE q == Settled(t)
<1>1. /\ q.state = t.state /\ q.v_s = t.v_s /\ q.v_a = t.v_a /\ q.v_r = t.v_r
      /\ q.windowlen = t.windowlen /\ q.queue = t.queue
      /\ (Live(q) <=> Live(t)) /\ \A x : Oldest(q, x) = Oldest(t, x)
      /\ \A x, d : At(q, x, d) = At(t, x, d)
  BY SettledLike
<1> HIDE DEF q
<1>2. ~Live(q) /\ q.queue = <<>> /\ Len(q.queue) = 0 /\ DOMAIN q.queue = {}
      /\ q.v_s = 0 /\ q.v_a = 0 /\ q.v_r = 0 /\ q.windowlen = 0
  <2>1. ~Live(t) /\ t.queue = <<>> /\ t.v_s = 0 /\ t.v_a = 0 /\ t.v_r = 0 /\ t.windowlen = 0
    BY DEF Ended
  <2>2. Len(<<>>) = 0 /\ DOMAIN <<>> = {}
    OBVIOUS
  <2>3. QED
    BY <1>1, <2>1, <2>2
<1>3. Oldest(q, n) = n + 1
  <2>1. (n - 0) + 1 = n + 1
    OBVIOUS
  <2>2. QED
    BY <1>2, <2>1 DEF Oldest
<1>4. At(q, n, n + 1) = 0
  <2>1. (0 - n) + ((n + 1) - 1) = 0 /\ 0 \in Int /\ 0 \in Num
    BY ConstantsAre
  <2>2. 0 % Mod = 0
    BY <2>1, Reduced
  <2>3. QED
    BY <1>2, <2>1, <2>2 DEF At
<1>5. Numbered(q, n)
  <2>1. 0 < Mod /\ n + 1 >= 1
    BY ConstantsAre
  <2>2. QED
    BY <1>2, <1>3, <1>4, <2>1 DEF Numbered
<1>6. Counted(q, Seen(l, r))
  <2>1. Outstanding(q, Seen(l, r)) = {}
    BY <1>2 DEF Outstanding
  <2>2. Cardinality({}) = 0 /\ 0 \in 0 .. K
    BY FS_EmptySet, ConstantsAre
  <2>3. QED
    BY <1>2, <2>1, <2>2 DEF Counted
<1>7. ASSUME NEW k \in DOMAIN r PROVE r[k].type \in Opens
  <2>1. \/ k \in DOMAIN (<<>>)
        \/ k - Len(<<>>) \in DOMAIN t.out /\ r[k] = t.out[k - Len(<<>>)]
    BY CarriedMore
  <2>2. QED
    BY <2>1 DEF Ended
<1>8. \A k \in DOMAIN r : r[k].type \notin NrTypes /\ r[k].type # "I" /\ r[k].type \in NrTypes \cup Opens
  BY <1>7 DEF NrTypes, Opens
<1>9. Sends(r, Base(q, n), Wanted(q, n, l))
  BY <1>8 DEF Sends
<1>10. l < Oldest(q, n)
  BY <1>3
<1>11. Speaks(q, n, l, r)
  BY <1>5, <1>6, <1>8, <1>9, <1>10 DEF Speaks
<1>12. Listens(q, n, l, <<>>)
  <2> DEFINE e == <<>>
             h == Wanted(q, n, l)
             g == [k \in DOMAIN e |-> 1]
  <2>1. DOMAIN e = {}
    OBVIOUS
  <2>2. Readable(q, e) = {}
    BY <2>1 DEF Readable
  <2>3. g \in [DOMAIN e -> 1 .. h]
    BY <2>1
  <2> HIDE DEF e, g
  <2>4. AcksBy(g, Readable(q, e), e, Base(q, n), Oldest(q, n), h)
    BY <2>2, <2>3 DEF AcksBy
  <2>5. QED
    BY <2>3, <2>4 DEF Listens, e
<1>13. QED
  BY <1>2, <1>8, <1>11, <1>12 DEF q

-----------------------------------------------------------------------------
(* The invariant.                                                           *)

\* A station whose link is not up, while its peer's is, will hear that it comes up.
Synced == \A e \in Ends : ~Live(station[e]) /\ Live(station[Peer(e)]) => Coming(wire[e])

\* What the invariant says of each end, while numbers that the peer has forgotten are not used
\* (stale): what it sends, what it will hear, and that the peer wants what it should.
Numbers(e) ==
    LET n == submitted[e]
        l == last[Peer(e)]
    IN  /\ Speaks(station[e], n, l, wire[Peer(e)])
        /\ ~stale => Listens(station[e], n, l, wire[e])
        /\ ~stale /\ Synced => Agrees(station[e], n, l, station[Peer(e)].v_r)

\* The second inductive invariant: numbers and windows of both ends.
NInv == \A e \in Ends : Numbers(e)

\* What SABME finds at a station whose numbers start as its peer's do.
Renewed(s, n, l) == s.v_r = 0 /\ Names(0, Base(s, n), Wanted(s, n, l))

\* The end e becomes t.
Moves(e, t, rest, k) ==
    LET p == Peer(e)
    IN  /\ station'[e] = Settled(t) /\ station'[p] = station[p]
        /\ wire'[e] = rest /\ wire'[p] = OnLine(wire[p] \o t.out)
        /\ last'[e] = (IF t.up = <<>> THEN last[e] ELSE Head(t.up)) /\ last'[p] = last[p]
        /\ submitted'[e] = k /\ submitted'[p] = submitted[p]

\* Becomes, field by field.
LEMMA BecomesIs ==
  ASSUME IInv, NEW e \in Ends, NEW t, NEW rest, NEW k,
         Becomes(e, t, rest), submitted' = [submitted EXCEPT ![e] = k]
  PROVE  Moves(e, t, rest, k)
<1> DEFINE p == Peer(e)
           q == Settled(t)
           r == OnLine(wire[p] \o t.out)
           z == IF t.up = <<>> THEN last[e] ELSE Head(t.up)
<1>1. p \in Ends /\ p # e
  BY PeerIs
<1>2. DOMAIN station = Ends /\ DOMAIN wire = Ends /\ submitted \in [Ends -> Nat] /\ DOMAIN last = Ends
  BY DEF IInv
<1>3. /\ station' = [station EXCEPT ![e] = q]
      /\ wire' = [wire EXCEPT ![e] = rest, ![p] = r]
      /\ last' = [last EXCEPT ![e] = z]
  <2>1. wire' = [wire EXCEPT ![e] = rest, ![p] = r]
    BY <1>1, <1>2 DEF Becomes
  <2>2. QED
    BY <2>1 DEF Becomes
<1> HIDE DEF p, q, r, z
<1>4. /\ station'[e] = q /\ station'[p] = station[p]
      /\ wire'[e] = rest /\ wire'[p] = r
      /\ last'[e] = z /\ last'[p] = last[p]
      /\ submitted'[e] = k /\ submitted'[p] = submitted[p]
  BY <1>1, <1>2, <1>3
<1>5. QED
  BY <1>4 DEF Moves, p, q, r, z

\* What the invariants say of both ends, before a step of e.
Stand(e) ==
    LET p == Peer(e)
        n == submitted[e]
        o == submitted[p]
    IN  /\ n \in Nat /\ o \in Nat
        /\ Sound(station[e], n, o) /\ Sound(station[p], o, n)
        /\ station[e].out = <<>> /\ station[p].out = <<>> /\ station[e].up = <<>> /\ station[p].up = <<>>
        /\ wire[e] \in Seq(Frame(o)) /\ wire[p] \in Seq(Frame(n))
        /\ Len(wire[e]) <= MaxWire /\ Len(wire[p]) <= MaxWire
        /\ last[e] \in 0 .. o /\ last[p] \in 0 .. n

\* IInv says so.
LEMMA StandIs ==
  ASSUME IInv, NEW e \in Ends
  PROVE  Stand(e) /\ Watched(station[e])
<1>1. EndInv(e) /\ EndInv(Peer(e)) /\ Peer(Peer(e)) = e
  BY PeerIs DEF IInv
<1>2. submitted[e] \in Nat /\ submitted[Peer(e)] \in Nat
  BY EndIs
<1>3. QED
  BY <1>1, <1>2 DEF EndInv, Stand

\* The next message of e to arrive.
First(e) == Wanted(station[e], submitted[e], last[Peer(e)])

\* What a step of e does to the messages of both ends: e may add one or give up all, and
\* the peer's next one may arrive.
Serves(e) ==
    LET p == Peer(e)
    IN  /\ last'[p] = last[p] /\ submitted'[p] = submitted[p]
        /\ \/ First(e)' = First(e) /\ submitted'[e] \in {submitted[e], submitted[e] + 1}
           \/ First(e)' = submitted[e] + 1 /\ submitted'[e] = submitted[e]
        /\ \/ First(p)' = First(p) /\ last'[e] = last[e]
           \/ First(p) <= submitted[p] /\ last'[e] = First(p) /\ First(p)' = First(p) + 1

\* How the numbers of a step lie: i frames of the line to e are gone, t is what e
\* becomes, g what it was told before, a the oldest message it keeps now.
Goes(e, t, rest, k, U, a, v, i, g) ==
    LET s == station[e]
        n == submitted[e]
        l == last[Peer(e)]
        u == wire[Peer(e)]
        w == wire[e]
        h == Wanted(station[Peer(e)], submitted[Peer(e)], last[e])
    IN  /\ k \in {n, n + 1}
        /\ U = Plain \/ U = Opens
        /\ Runs(t, k, submitted[Peer(e)], Seen(l, u), U, Base(s, n), a, v)
        /\ a \in Oldest(s, n) .. Wanted(s, n, l)
        /\ Live(s) => Live(t)
        /\ Shrunk(w, rest, i)
        /\ Live(t) => Live(s) \/ (i = 1 /\ w[1].type \in Opens)
        /\ AcksBy(g, Readable(s, w), w, Base(s, n), Oldest(s, n), Wanted(s, n, l))
        /\ \A j \in Readable(s, w) : j > i => g[j] >= a
        /\ \/ t.up = <<>> /\ v = s.v_r
           \/ t.up = <<h>> /\ v = (s.v_r + 1) % Mod /\ i = 1 /\ w[1].type = "I" /\ w[1].data = h
        /\ U = Opens /\ Live(s) => stale' \/ Renewed(s, n, l)

\* The next number is named by the next message.
LEMMA NamesNext ==
  ASSUME NEW b \in Int, NEW h \in Int, NEW v, Names(v, b, h)
  PROVE  Names((v + 1) % Mod, b, h + 1)
<1> DEFINE x == b + h
<1>1. x \in Int /\ v = x % Mod
  BY DEF Names
<1>2. ((x % Mod) + 1) % Mod = (x + 1) % Mod
  BY <1>1, Reduced
<1>3. x + 1 = b + (h + 1)
  OBVIOUS
<1>4. QED
  BY <1>1, <1>2, <1>3 DEF Names

\* A step of e that moves as Goes says keeps the numbers of both ends.
LEMMA ContinueKeeps ==
  ASSUME IInv, NInv, ~stale, NEW e \in Ends, NEW t, NEW rest, NEW k, Moves(e, t, rest, k),
         NEW U, NEW a, NEW v, NEW i, NEW g, Goes(e, t, rest, k, U, a, v, i, g)
  PROVE  NInv' /\ Serves(e)
<1> DEFINE p == Peer(e)
           s == station[e]
           z == station[p]
           n == submitted[e]
           o == submitted[p]
           l == last[p]
           c == last[e]
           d == IF t.up = <<>> THEN c ELSE Head(t.up)
           u == wire[p]
           w == wire[e]
           q == Settled(t)
           r == OnLine(wire[p] \o t.out)
<1>1. p \in Ends /\ p # e /\ Peer(p) = e /\ Peer(e) = p /\ \A x \in Ends : x = e \/ x = p
  BY PeerIs
<1>2. /\ station'[e] = q /\ station'[p] = z /\ wire'[e] = rest /\ wire'[p] = r
      /\ last'[e] = d /\ last'[p] = l /\ submitted'[e] = k /\ submitted'[p] = o
  BY DEF Moves
<1>3. /\ n \in Nat /\ o \in Nat /\ Sound(s, n, o) /\ Sound(z, o, n)
      /\ s.out = <<>> /\ z.out = <<>>
      /\ w \in Seq(Frame(o)) /\ u \in Seq(Frame(n)) /\ Len(u) <= MaxWire
      /\ c \in 0 .. o /\ l \in 0 .. n
  BY StandIs DEF Stand
<1>4. /\ Speaks(s, n, l, u) /\ Speaks(z, o, c, w)
      /\ Listens(s, n, l, w) /\ Listens(z, o, c, u)
      /\ Synced => Agrees(s, n, l, z.v_r) /\ Agrees(z, o, c, s.v_r)
  BY <1>1 DEF NInv, Numbers
<1>5. /\ Synced <=> /\ ~Live(s) /\ Live(z) => Coming(w)
                    /\ ~Live(z) /\ Live(s) => Coming(u)
      /\ Synced' <=> /\ ~Live(q) /\ Live(z) => Coming(rest)
                     /\ ~Live(z) /\ Live(q) => Coming(r)
  <2>1. Synced <=> /\ ~Live(s) /\ Live(z) => Coming(w)
                   /\ ~Live(z) /\ Live(s) => Coming(u)
    BY <1>1 DEF Synced
  <2>2. Synced' <=> \A x \in Ends : ~Live(station'[x]) /\ Live(station'[Peer(x)]) => Coming(wire'[x])
    BY DEF Synced, Live, Coming
  <2> HIDE DEF s, z, w, u, q, r, p
  <2>3. Synced' <=> /\ ~Live(q) /\ Live(z) => Coming(rest)
                    /\ ~Live(z) /\ Live(q) => Coming(r)
    BY <1>1, <1>2, <2>2
  <2>4. QED
    BY <2>1, <2>3
<1> DEFINE b == Base(s, n)
           h == Wanted(z, o, c)
<1>6. /\ k \in {n, n + 1} /\ k \in Nat /\ n <= k
      /\ U = Plain \/ U = Opens
      /\ Runs(t, k, o, Seen(l, u), U, b, a, v)
      /\ a \in Oldest(s, n) .. Wanted(s, n, l)
      /\ Live(s) => Live(t)
      /\ Shrunk(w, rest, i)
      /\ Live(t) => Live(s) \/ (i = 1 /\ w[1].type \in Opens)
      /\ AcksBy(g, Readable(s, w), w, b, Oldest(s, n), Wanted(s, n, l))
      /\ \A j \in Readable(s, w) : j > i => g[j] >= a
      /\ \/ t.up = <<>> /\ v = s.v_r
         \/ t.up = <<h>> /\ v = (s.v_r + 1) % Mod /\ i = 1 /\ w[1].type = "I" /\ w[1].data = h
      /\ U = Opens /\ Live(s) => stale' \/ Renewed(s, n, l)
  <2>1. k \in {n, n + 1}
    BY DEF Goes
  <2>2. k \in Nat /\ n <= k
    BY <1>3, <2>1
  <2>3. QED
    BY <2>1, <2>2 DEF Goes
<1>7. Grown(u, t.out, r)
  <2>1. t.out \in Seq(Frame(k))
    BY <1>6 DEF Runs, Sound
  <2>2. u \in Seq(Frame(k))
    <3>1. (1 .. n) \subseteq (1 .. k)
      BY <1>3, <1>6
    <3>2. Frame(n) \subseteq Frame(k)
      BY <3>1 DEF Frame
    <3>3. QED
      BY <1>3, <3>2
  <2>3. QED
    BY <1>3, <2>1, <2>2, LineIs
<1> HIDE DEF s, z, n, o, l, c, u, w, q, r, p, b, h, d
<1>8. /\ Speaks(q, k, l, r) /\ Base(q, k) = b /\ Oldest(q, k) = a
      /\ Wanted(q, k, l) = Wanted(s, n, l) /\ q.v_r = v /\ (Live(q) <=> Live(t))
  <2>1. /\ n \in Nat /\ Sound(s, n, o) /\ s.out = <<>> /\ l \in 0 .. n /\ u \in Seq(Frame(n))
        /\ Speaks(s, n, l, u) /\ k \in Nat /\ n <= k /\ (U = Plain \/ U = Opens)
        /\ Runs(t, k, o, Seen(l, u), U, Base(s, n), a, v)
        /\ a \in Oldest(s, n) .. Wanted(s, n, l) /\ (Live(s) => Live(t)) /\ Grown(u, t.out, r)
    BY <1>3, <1>4, <1>6, <1>7 DEF b
  <2>2. /\ Speaks(Settled(t), k, l, r) /\ Base(Settled(t), k) = Base(s, n) /\ Oldest(Settled(t), k) = a
        /\ Wanted(Settled(t), k, l) = Wanted(s, n, l)
        /\ Settled(t).v_r = v /\ (Live(Settled(t)) <=> Live(t))
    BY <2>1, SpeaksOn
  <2>3. QED
    BY <2>2 DEF b, q
<1>9. \/ d = c /\ v = s.v_r
      \/ d = h /\ v = (s.v_r + 1) % Mod /\ i = 1 /\ w[1].type = "I" /\ w[1].data = h
  <2>1. Head(<<h>>) = h /\ <<h>> # <<>>
    OBVIOUS
  <2>2. QED
    BY <1>6, <2>1 DEF d
<1>10. Took(w, i, h, c, d)
  BY <1>9 DEF Took
<1>11. /\ Speaks(z, o, d, rest)
       /\ \/ d = c /\ Wanted(z, o, d) = h
          \/ d = h /\ Wanted(z, o, d) = h + 1 /\ Live(z) /\ d > c
  BY <1>3, <1>4, <1>6, <1>10, SpeaksLess DEF h
<1>12. Listens(q, k, l, rest)
  <2>1. Base(q, k) = Base(s, n)
    BY <1>8 DEF b
  <2>2. /\ AcksBy(g, Readable(s, w), w, Base(s, n), Oldest(s, n), Wanted(s, n, l))
        /\ \A j \in Readable(s, w) : j > i => g[j] >= Oldest(q, k)
        /\ Live(q) => Live(s) \/ (i = 1 /\ w[1].type \in Opens)
    BY <1>6, <1>8 DEF b
  <2>3. QED
    BY <1>6, <1>8, <2>1, <2>2, ListensLess
<1>13. /\ Ordered(o, c, Oldest(z, o), h) /\ Base(z, o) \in Num
       /\ ~Live(z) => h = Oldest(z, o) /\ Names(0, Base(z, o), h) /\ z.v_r = 0
  BY <1>3, <1>4, SpeaksIs DEF h
<1>14. h \in Int /\ Base(z, o) \in Int /\ c \in Int /\ c < h
  BY <1>13 DEF Ordered, Num
\* The two agree on what was acknowledged.
<1>15. ASSUME ~stale', Synced' PROVE Agrees(q, k, l, z.v_r) /\ Agrees(z, o, d, v)
  <2>1. Coming(rest) => Coming(w)
    <3>1. \A j \in DOMAIN rest : j + i \in DOMAIN w /\ rest[j] = w[j + i]
      BY <1>6, CarriedLeft
    <3>2. QED
      BY <3>1 DEF Coming
  <2>2. i = 1 /\ w[1].type \in Opens => Coming(w)
    <3>1. i = 1 => 1 \in DOMAIN w
      BY <1>6 DEF Shrunk
    <3>2. QED
      BY <3>1 DEF Coming
  <2>3. CASE Synced
    <3>1. Names(z.v_r, b, Wanted(s, n, l)) /\ Names(s.v_r, Base(z, o), h)
      BY <1>4, <2>3 DEF Agrees, b, h
    <3>2. Names(z.v_r, Base(q, k), Wanted(q, k, l))
      BY <1>8, <3>1
    <3>3. CASE d = c /\ v = s.v_r
      <4>1. Wanted(z, o, d) = h
        BY <3>3 DEF h
      <4>2. QED
        BY <3>1, <3>2, <3>3, <4>1 DEF Agrees
    <3>4. CASE d # c
      <4>1. v = (s.v_r + 1) % Mod /\ Wanted(z, o, d) = h + 1
        BY <1>9, <1>11, <3>4
      <4>2. Names((s.v_r + 1) % Mod, Base(z, o), h + 1)
        BY <1>14, <3>1, NamesNext
      <4>3. QED
        BY <3>2, <4>1, <4>2 DEF Agrees
    <3>5. d = c => v = s.v_r
      BY <1>9, <1>14
    <3>6. QED
      BY <3>3, <3>4, <3>5
  <2>4. CASE ~Live(s) /\ Live(z) /\ ~Coming(w)
    <3>1. ~Live(q)
      BY <1>6, <1>8, <2>2, <2>4
    <3>2. Coming(rest)
      BY <1>5, <1>15, <2>4, <3>1
    <3>3. QED
      BY <2>1, <2>4, <3>2
  <2>5. CASE ~Live(z) /\ Live(s) /\ ~Coming(u)
    <3>1. Live(q)
      BY <1>6, <1>8, <2>5
    <3>2. Coming(r)
      BY <1>5, <1>15, <2>5, <3>1
    <3>3. PICK j \in DOMAIN r : r[j].type \in Opens
      BY <3>2 DEF Coming
    <3>4. j \notin DOMAIN u \/ r[j] # u[j]
      BY <2>5, <3>3 DEF Coming
    <3>5. j - Len(u) \in DOMAIN t.out /\ r[j] = t.out[j - Len(u)]
      BY <1>7, <3>4, CarriedMore
    <3>6. r[j].type \in NrTypes \cup U
      BY <1>6, <3>5 DEF Runs, Emitted
    <3>7. U = Opens
      BY <1>6, <3>3, <3>6 DEF Plain, NrTypes, Opens
    <3>8. s.v_r = 0 /\ Names(0, b, Wanted(s, n, l))
      BY <1>6, <1>15, <2>5, <3>7 DEF Renewed, b
    <3>9. d = c /\ v = s.v_r /\ Wanted(z, o, d) = h
      BY <1>9, <1>11, <1>14, <2>5
    <3>10. QED
      BY <1>8, <1>13, <2>5, <3>8, <3>9 DEF Agrees
  <2>6. QED
    BY <1>5, <2>3, <2>4, <2>5
\* What e says now, the peer will read.
<1>16. ASSUME ~stale' PROVE Listens(z, o, d, r)
  <2>1. ASSUME NEW j \in Readable(z, r), j > Len(u) PROVE Agrees(z, o, d, r[j].nr)
    <3>1. /\ j \in DOMAIN r /\ r[j].type \in NrTypes
          /\ Live(z) \/ \E x \in 1 .. j - 1 : r[x].type \in Opens
      BY DEF Readable
    <3>2. j - Len(u) \in DOMAIN t.out /\ r[j] = t.out[j - Len(u)]
      <4>1. Len(u) \in Nat /\ \A x \in DOMAIN u : x <= Len(u)
        BY <1>7, CarriedMore
      <4>2. j \in Int
        BY <1>7, <3>1, CarriedMore
      <4>3. j \notin DOMAIN u
        BY <2>1, <4>1, <4>2
      <4>4. QED
        BY <1>7, <3>1, <4>3, CarriedMore
    <3>3. Live(t) /\ r[j].nr = t.v_r /\ t.v_r = v
      BY <1>6, <3>1, <3>2 DEF Runs, Emitted
    <3>4. Live(z) \/ Coming(r)
      <4>1. ASSUME NEW x \in 1 .. j - 1 PROVE x \in DOMAIN r
        <5>1. DOMAIN r = 1 .. Len(r) /\ Len(r) \in Nat
          BY <1>7 DEF Grown
        <5>2. QED
          BY <3>1, <5>1
      <4>2. QED
        BY <3>1, <4>1 DEF Coming
    <3>5. Synced'
      BY <1>5, <1>8, <3>3, <3>4
    <3>6. QED
      BY <1>15, <1>16, <3>3, <3>5
  <2>2. \/ Wanted(z, o, d) = Wanted(z, o, c)
        \/ Wanted(z, o, d) = Wanted(z, o, c) + 1
    BY <1>11 DEF h
  <2>3. Ordered(o, c, Oldest(z, o), Wanted(z, o, c))
    BY <1>13 DEF h
  <2>4. QED
    BY <1>4, <1>7, <2>1, <2>2, <2>3, ListensMore
<1>17. Numbers(e)'
  BY <1>1, <1>2, <1>8, <1>12, <1>15 DEF Numbers, p
<1>18. Numbers(p)'
  BY <1>1, <1>2, <1>8, <1>11, <1>15, <1>16 DEF Numbers, p
<1>19. Serves(e)
  <2>1. First(e) = Wanted(s, n, l) /\ First(p) = h
    BY <1>1 DEF First, s, n, l, p, h, z, o, c
  <2>2. First(e)' = Wanted(q, k, l) /\ First(p)' = Wanted(z, o, d)
    BY <1>1, <1>2 DEF First, p
  <2>3. (d = c /\ Wanted(z, o, d) = h) \/ (h <= o /\ d = h /\ Wanted(z, o, d) = h + 1)
    <3>1. CASE d = c
      BY <1>11, <1>14, <3>1
    <3>2. CASE d # c
      <4>1. d = h /\ Wanted(z, o, d) = h + 1 /\ d \in 0 .. o
        BY <1>3, <1>4, <1>6, <1>10, <1>11, <3>2, SpeaksLess DEF h
      <4>2. QED
        BY <1>3, <4>1
    <3>3. QED
      BY <3>1, <3>2
  <2>4. QED
    BY <1>1, <1>2, <1>6, <1>8, <2>1, <2>2, <2>3 DEF Serves, n, o, l, c, p
<1>20. QED
  BY <1>1, <1>17, <1>18, <1>19 DEF NInv

-----------------------------------------------------------------------------
(* The link ended; a frame lost.                                            *)

\* Both lines are empty and the end e starts anew.
LEMMA EndedNumbers ==
  ASSUME IInv, NInv, ~stale, NEW e \in Ends, NEW t, NEW k, k = submitted[e], Moves(e, t, <<>>, k),
         Quiet, Sound(t, submitted[e], submitted[Peer(e)]), Watched(t), Ended(t)
  PROVE  NInv' /\ Serves(e)
<1> DEFINE p == Peer(e)
           s == station[e]
           z == station[p]
           n == submitted[e]
           o == submitted[p]
           l == last[p]
           c == last[e]
           q == Settled(t)
           r == OnLine(wire[p] \o t.out)
<1>1. p \in Ends /\ p # e /\ Peer(p) = e /\ Peer(e) = p /\ \A x \in Ends : x = e \/ x = p
  BY PeerIs
<1>2. /\ station'[e] = q /\ station'[p] = z /\ wire'[e] = <<>> /\ wire'[p] = r
      /\ last'[e] = c /\ last'[p] = l /\ submitted'[e] = n /\ submitted'[p] = o
  BY DEF Moves, Ended
<1>3. /\ n \in Nat /\ o \in Nat /\ Sound(s, n, o) /\ Sound(z, o, n)
      /\ s.out = <<>> /\ z.out = <<>> /\ wire[e] = <<>> /\ wire[p] = <<>>
      /\ c \in 0 .. o /\ l \in 0 .. n
  BY <1>1, StandIs DEF Stand, Quiet
<1>4. Speaks(z, o, c, <<>>) /\ Listens(z, o, c, <<>>)
  BY <1>1, <1>3 DEF NInv, Numbers
<1>5. Sound(t, n, o) /\ Ended(t) /\ Watched(t)
  OBVIOUS
<1>6. Grown(<<>>, t.out, r)
  <2>1. <<>> \in Seq(Frame(n)) /\ Len(<<>>) <= MaxWire
    BY LinkAssumption
  <2>2. t.out \in Seq(Frame(n))
    BY <1>5 DEF Sound
  <2>3. Grown(<<>>, t.out, OnLine(<<>> \o t.out))
    BY <2>1, <2>2, LineIs
  <2>4. QED
    BY <1>3, <2>3 DEF r
<1> HIDE DEF s, z, n, o, l, c, q, r, p
<1>7. Sound(q, n, o) /\ q.out = <<>>
  BY <1>5, SettledIs DEF q
<1>8. /\ Speaks(q, n, l, r) /\ Listens(q, n, l, <<>>) /\ ~Live(q) /\ q.v_r = 0
      /\ \A j \in DOMAIN r : r[j].type \notin NrTypes
  BY <1>3, <1>5, <1>6, EndedIs DEF q
<1>9. ~Live(q) => Names(0, Base(q, n), Wanted(q, n, l))
  BY <1>3, <1>7, <1>8, SpeaksIs
<1>10. /\ Ordered(o, c, Oldest(z, o), Wanted(z, o, c))
       /\ ~Live(z) => Names(0, Base(z, o), Wanted(z, o, c)) /\ z.v_r = 0
  <2>1. <<>> \in Seq(Frame(o))
    OBVIOUS
  <2>2. QED
    BY <1>3, <1>4, <2>1, SpeaksIs
<1>11. Listens(z, o, c, r)
  <2>1. \A j \in Readable(z, r) : j > Len(<<>>) => Agrees(z, o, c, r[j].nr)
    BY <1>8 DEF Readable
  <2>2. QED
    BY <1>4, <1>6, <1>10, <2>1, ListensMore
<1>12. Synced' => ~Live(z)
  <2>1. Synced' => (~Live(station'[e]) /\ Live(station'[p]) => Coming(wire'[e]))
    BY <1>1 DEF Synced, Live, Coming
  <2>2. ~Coming(<<>>)
    BY DEF Coming
  <2>3. QED
    BY <1>2, <1>8, <2>1, <2>2
<1>13. Numbers(e)'
  <2>1. Synced' => Agrees(q, n, l, z.v_r)
    BY <1>8, <1>9, <1>10, <1>12 DEF Agrees
  <2>2. QED
    BY <1>1, <1>2, <1>8, <2>1 DEF Numbers, p
<1>14. Numbers(p)'
  <2>1. Synced' => Agrees(z, o, c, q.v_r)
    BY <1>8, <1>10, <1>12 DEF Agrees
  <2>2. QED
    BY <1>1, <1>2, <1>4, <1>11, <2>1 DEF Numbers, p
<1>15. Serves(e)
  <2>1. Wanted(q, n, l) = n + 1
    <3>1. t.queue = <<>> /\ q.queue = t.queue /\ Len(<<>>) = 0
      BY <1>5, SettledLike DEF Ended, q
    <3>2. Oldest(q, n) = n + 1
      BY <1>3, <3>1 DEF Oldest
    <3>3. ~(l >= n + 1)
      BY <1>3
    <3>4. QED
      BY <3>2, <3>3 DEF Wanted, Want
  <2>2. First(e)' = Wanted(q, n, l) /\ First(p)' = Wanted(z, o, c)
    BY <1>1, <1>2 DEF First, p
  <2>3. First(p) = Wanted(z, o, c)
    BY <1>1 DEF First, p, z, o, c
  <2>4. QED
    BY <1>1, <1>2, <2>1, <2>2, <2>3 DEF Serves, n, o, l, c, p
<1>16. QED
  BY <1>1, <1>13, <1>14, <1>15 DEF NInv

\* A frame is lost.
LEMMA LoseNumbers ==
  ASSUME IInv, NInv, ~stale, NEW e \in Ends, Lose(e)
  PROVE  NInv' /\ Serves(e)
<1> DEFINE p == Peer(e)
           s == station[e]
           z == station[p]
           n == submitted[e]
           o == submitted[p]
           l == last[p]
           c == last[e]
           u == wire[p]
           w == wire[e]
           r == Tail(wire[e])
<1>1. p \in Ends /\ p # e /\ Peer(p) = e /\ Peer(e) = p /\ \A x \in Ends : x = e \/ x = p
  BY PeerIs
<1>2. /\ w # <<>> /\ wire' = [wire EXCEPT ![e] = r]
      /\ station' = station /\ submitted' = submitted /\ last' = last /\ stale' = stale
      /\ DOMAIN wire = Ends
  BY DEF Lose, IInv
<1>3. wire'[e] = r /\ wire'[p] = u
  BY <1>1, <1>2
<1>4. /\ n \in Nat /\ o \in Nat /\ Sound(s, n, o) /\ Sound(z, o, n)
      /\ s.out = <<>> /\ z.out = <<>>
      /\ w \in Seq(Frame(o)) /\ u \in Seq(Frame(n))
      /\ c \in 0 .. o /\ l \in 0 .. n
  BY StandIs DEF Stand
<1>5. /\ Speaks(s, n, l, u) /\ Speaks(z, o, c, w)
      /\ Listens(s, n, l, w) /\ Listens(z, o, c, u)
      /\ Synced => Agrees(s, n, l, z.v_r) /\ Agrees(z, o, c, s.v_r)
  BY <1>1 DEF NInv, Numbers
<1>6. Shrunk(w, r, 1)
  BY <1>2, <1>4, LineIs
<1>7. Synced' => Synced
  <2>1. Coming(r) => Coming(w)
    <3>1. \A j \in DOMAIN r : j + 1 \in DOMAIN w /\ r[j] = w[j + 1]
      BY <1>6, CarriedLeft
    <3>2. QED
      BY <3>1 DEF Coming
  <2>2. Synced' <=> \A x \in Ends : ~Live(station'[x]) /\ Live(station'[Peer(x)]) => Coming(wire'[x])
    BY DEF Synced, Live, Coming
  <2>3. ASSUME NEW x \in Ends, Coming(wire'[x]) PROVE Coming(wire[x])
    <3>1. x = e \/ x = p
      BY <1>1
    <3>2. QED
      BY <1>3, <2>1, <2>3, <3>1
  <2>4. QED
    BY <1>2, <2>2, <2>3 DEF Synced
<1> HIDE DEF s, z, n, o, l, c, u, w, r, p
<1>8. Speaks(z, o, c, r)
  <2>1. Took(w, 1, Wanted(z, o, c), c, c)
    BY DEF Took
  <2>2. QED
    BY <1>4, <1>5, <1>6, <2>1, SpeaksLess
<1>9. Listens(s, n, l, r)
  <2>1. PICK g \in [DOMAIN w -> 1 .. Wanted(s, n, l)] :
          AcksBy(g, Readable(s, w), w, Base(s, n), Oldest(s, n), Wanted(s, n, l))
    BY <1>5 DEF Listens
  <2>2. \A j \in Readable(s, w) : j > 1 => g[j] >= Oldest(s, n)
    BY <2>1 DEF AcksBy
  <2>3. QED
    BY <1>6, <2>1, <2>2, ListensLess
<1>10. Numbers(e)'
  BY <1>1, <1>2, <1>3, <1>5, <1>7, <1>9 DEF Numbers, s, z, n, o, l, c, u, w, r, p
<1>11. Numbers(p)'
  BY <1>1, <1>2, <1>3, <1>5, <1>7, <1>8 DEF Numbers, s, z, n, o, l, c, u, w, r, p
<1>12. Serves(e)
  <2>1. First(e)' = First(e) /\ First(p)' = First(p)
    BY <1>2 DEF First
  <2>2. QED
    BY <1>2, <2>1 DEF Serves, p
<1>13. QED
  BY <1>1, <1>10, <1>11, <1>12 DEF NInv

-----------------------------------------------------------------------------
(* Layer 3 and the timers.                                                  *)

\* What a step of e starts from: the station, and what it was told of what arrived.
LEMMA StartsIs ==
  ASSUME IInv, NInv, ~stale, NEW e \in Ends
  PROVE  LET p == Peer(e)
             s == station[e]
             n == submitted[e]
             l == last[p]
             w == wire[e]
         IN  /\ Runs(s, n, submitted[p], Seen(l, wire[p]), Plain, Base(s, n), Oldest(s, n), s.v_r)
             /\ Ordered(n, l, Oldest(s, n), Wanted(s, n, l)) /\ Base(s, n) \in Num
             /\ ~Live(s) => Wanted(s, n, l) = Oldest(s, n) /\ s.v_r = 0
             /\ \E g : AcksBy(g, Readable(s, w), w, Base(s, n), Oldest(s, n), Wanted(s, n, l))
<1> DEFINE p == Peer(e)
           s == station[e]
           n == submitted[e]
           l == last[p]
           w == wire[e]
<1>1. n \in Nat /\ Sound(s, n, submitted[p]) /\ s.out = <<>> /\ l \in 0 .. n
  BY StandIs DEF Stand
<1>2. Speaks(s, n, l, wire[p]) /\ Listens(s, n, l, w)
  BY DEF NInv, Numbers
<1> HIDE DEF p, s, n, l, w
<1>3. /\ Runs(s, n, submitted[p], Seen(l, wire[p]), Plain, Base(s, n), Oldest(s, n), s.v_r)
      /\ Ordered(n, l, Oldest(s, n), Wanted(s, n, l)) /\ Base(s, n) \in Num
      /\ ~Live(s) => Wanted(s, n, l) = Oldest(s, n) /\ Names(0, Base(s, n), Wanted(s, n, l)) /\ s.v_r = 0
  BY <1>1, <1>2, SpeaksIs
<1>4. \E g : AcksBy(g, Readable(s, w), w, Base(s, n), Oldest(s, n), Wanted(s, n, l))
  BY <1>2 DEF Listens
<1>5. QED
  BY <1>3, <1>4 DEF p, s, n, l, w

\* The line to e as it is.
LEMMA SameLine ==
  ASSUME IInv, NEW e \in Ends
  PROVE  Shrunk(wire[e], wire[e], 0)
<1>1. wire[e] \in Seq(Frame(submitted[Peer(e)]))
  BY EndIs
<1>2. QED
  BY <1>1, LineIs

\* Layer 3 hands down a message.
LEMMA SubmitNumbers ==
  ASSUME IInv, NInv, ~stale, NEW e \in Ends, Submit(e)
  PROVE  NInv' /\ Serves(e)
<1> DEFINE p == Peer(e)
           s == station[e]
           n == submitted[e]
           o == submitted[p]
           l == last[p]
           u == wire[p]
           w == wire[e]
           t == TransmitIframe(s, n + 1)
           k == n + 1
           S == Seen(l, u)
           b == Base(s, n)
           a == Oldest(s, n)
           v == s.v_r
<1>1. Becomes(e, t, w) /\ submitted' = [submitted EXCEPT ![e] = k] /\ stale' = stale /\ Len(s.queue) < Mod - 1
  BY DEF Submit, HasMessage
<1>2. Moves(e, t, w, k)
  <2> HIDE DEF t, k, w
  <2>1. QED
    BY <1>1, BecomesIs
<1>3. /\ Runs(s, n, o, S, Plain, b, a, v) /\ Ordered(n, l, a, Wanted(s, n, l))
      /\ n \in Nat /\ o \in Nat /\ s.up = <<>> /\ u \in Seq(Frame(n))
  BY StartsIs, StandIs DEF Stand
<1>4. PICK g : AcksBy(g, Readable(s, w), w, b, a, Wanted(s, n, l))
  BY StartsIs
<1>5. n + 1 \notin S
  <2>1. n + 1 \notin 1 .. l
    BY <1>3 DEF Ordered
  <2>2. ASSUME NEW j \in DOMAIN u, u[j].type = "I" PROVE u[j].data # n + 1
    <3>1. u[j] \in Frame(n)
      BY <1>3
    <3>2. u[j].data \in 1 .. n
      BY <2>2, <3>1, FrameIs
    <3>3. QED
      BY <1>3, <3>2
  <2> HIDE DEF u, l
  <2>3. QED
    BY <2>1, <2>2 DEF Seen, S, Carried
<1>6. Shrunk(w, w, 0)
  BY SameLine
<1> HIDE DEF b, a, v, S
<1>7. Runs(t, k, o, S, Plain, b, a, v) /\ t.state = s.state
  <2> HIDE DEF s, n, o
  <2>1. QED
    BY <1>1, <1>3, <1>5, TransmitIframeRuns DEF t, k
<1>8. t.up = <<>>
  <2>1. TransmitIframe(s, n + 1).up = s.up
    <3>1. Sound(s, n, o)
      BY <1>3 DEF Runs
    <3> HIDE DEF s
    <3>2. DOMAIN s = Fields
      BY <3>1 DEF Sound
    <3>3. QED
      BY <3>2 DEF TransmitIframe, Stop, Again, Start, Transmit, Fields
  <2>2. QED
    BY <1>3, <2>1 DEF t
<1>9. \A j \in Readable(s, w) : j > 0 => g[j] >= a
  BY <1>4 DEF AcksBy
<1>10. a \in a .. Wanted(s, n, l) /\ k \in {n, n + 1}
  <2> DEFINE h == Wanted(s, n, l)
  <2>1. a \in Int /\ h \in Int /\ a <= h
    BY <1>3 DEF Ordered
  <2> HIDE DEF h
  <2>2. a \in a .. h
    BY <2>1
  <2>3. QED
    BY <1>3, <2>2 DEF h
<1>11. Live(t) <=> Live(s)
  BY <1>7 DEF Live
<1> HIDE DEF t, k
<1>12. Goes(e, t, w, k, Plain, a, v, 0, g)
  BY <1>4, <1>6, <1>7, <1>8, <1>9, <1>10, <1>11 DEF Goes, a, b, v, S, Plain, Opens
<1>13. QED
  BY <1>2, <1>12, ContinueKeeps

\* A step of e that only transmits: nothing arrives and nothing is acknowledged.
LEMMA StaysNumbers ==
  ASSUME IInv, NInv, ~stale, NEW e \in Ends, NEW t, Moves(e, t, wire[e], submitted[e]),
         NEW U, U = Plain \/ U = Opens,
         Runs(t, submitted[e], submitted[Peer(e)], Seen(last[Peer(e)], wire[Peer(e)]), U,
              Base(station[e], submitted[e]), Oldest(station[e], submitted[e]), station[e].v_r),
         t.up = <<>>, Live(t) <=> Live(station[e]), U = Opens => ~Live(station[e])
  PROVE  NInv' /\ Serves(e)
<1> DEFINE p == Peer(e)
           s == station[e]
           n == submitted[e]
           l == last[p]
           w == wire[e]
           a == Oldest(s, n)
           h == Wanted(s, n, l)
<1>1. Ordered(n, l, a, h) /\ n \in Nat
  BY StartsIs, EndIs
<1>2. PICK g : AcksBy(g, Readable(s, w), w, Base(s, n), a, h)
  BY StartsIs
<1>3. Shrunk(w, w, 0)
  BY SameLine
<1> HIDE DEF a, h, s, n, l, w
<1>4. a \in a .. h /\ n \in {n, n + 1}
  BY <1>1 DEF Ordered
<1>5. \A j \in Readable(s, w) : j > 0 => g[j] >= a
  BY <1>2 DEF AcksBy
<1>6. Goes(e, t, w, n, U, a, s.v_r, 0, g)
  BY <1>1, <1>2, <1>3, <1>4, <1>5 DEF Goes, a, h, s, n, l, w
<1>7. QED
  BY <1>6, ContinueKeeps DEF n, w

\* A timer expires.
LEMMA ExpireNumbers ==
  ASSUME IInv, NInv, ~stale, NEW e \in Ends, NEW timer \in Timers, Expire(e, timer)
  PROVE  NInv' /\ Serves(e)
<1> DEFINE p == Peer(e)
           s == station[e]
           n == submitted[e]
           o == submitted[p]
           S == Seen(last[p], wire[p])
           w == wire[e]
           t == Fire(s, timer)
<1>1. /\ Becomes(e, t, w) /\ submitted' = [submitted EXCEPT ![e] = n]
      /\ s.on[timer] # "off" /\ (Slow(s, timer) => Quiet)
  <2>1. submitted \in [Ends -> Nat]
    BY EndIs
  <2>2. QED
    BY <2>1 DEF Expire
<1>2. Moves(e, t, w, n)
  <2> HIDE DEF t, n, w
  <2>1. QED
    BY <1>1, BecomesIs
<1>3. /\ Runs(s, n, o, S, Plain, Base(s, n), Oldest(s, n), s.v_r) /\ n \in Nat
      /\ Watched(s) /\ Sound(s, n, o) /\ s.out = <<>> /\ s.up = <<>>
  BY StartsIs, StandIs DEF Stand
<1>4. Sound(t, n, o) /\ Watched(t)
  BY <1>1, <1>3, FireIs
<1>5. \/ Runs(t, n, o, S, Plain, Base(s, n), Oldest(s, n), s.v_r) /\ t.up = <<>> /\ (Live(t) <=> Live(s))
      \/ Runs(t, n, o, S, Opens, Base(s, n), Oldest(s, n), s.v_r) /\ t.up = <<>> /\ ~Live(s) /\ ~Live(t)
      \/ s.on[timer] = "t200" /\ s.retrans >= N200 /\ Ended(t)
  <2> HIDE DEF S, s, n, o
  <2>1. QED
    BY <1>1, <1>3, FireRuns DEF t
<1> HIDE DEF t
<1>6. CASE Runs(t, n, o, S, Plain, Base(s, n), Oldest(s, n), s.v_r) /\ t.up = <<>> /\ (Live(t) <=> Live(s))
  <2>1. Plain # Opens
    BY DEF Plain, Opens
  <2>2. QED
    BY <1>2, <1>6, <2>1, StaysNumbers
<1>7. CASE Runs(t, n, o, S, Opens, Base(s, n), Oldest(s, n), s.v_r) /\ t.up = <<>> /\ ~Live(s) /\ ~Live(t)
  BY <1>2, <1>7, StaysNumbers
<1>8. CASE s.on[timer] = "t200" /\ s.retrans >= N200 /\ Ended(t)
  <2>1. Quiet
    BY <1>1, <1>8 DEF Slow
  <2>2. w = <<>>
    BY <2>1 DEF Quiet
  <2>3. Moves(e, t, <<>>, n)
    BY <1>2, <2>2
  <2>4. QED
    BY <1>4, <1>8, <2>1, <2>3, EndedNumbers
<1>9. QED
  BY <1>5, <1>6, <1>7, <1>8

-----------------------------------------------------------------------------
(* Acknowledgements heard; other equipment.                                 *)

\* What may be acknowledged: h is the number wanted, x one named on the way.
LEMMA MayAcknowledge ==
  ASSUME NEW s, NEW n, NEW l, NEW a, a = Oldest(s, n), NEW h, Ordered(n, l, a, h), Len(s.queue) \in Nat,
         NEW x \in a .. h
  PROVE  LET m == x - a
         IN  m \in 0 .. Len(s.queue) /\ a + m = x /\ \A u : \A d \in a .. (a + m) - 1 : d \in Seen(l, u)
<1> DEFINE m == x - a
           k == Len(s.queue)
<1>1. k \in Nat /\ a = (n - k) + 1
  BY DEF Oldest
<1>2. n \in Int /\ l \in Int /\ a \in Int /\ h \in Int /\ a >= 1 /\ h <= n + 1 /\ h = Want(l, a)
  BY DEF Ordered
<1>3. x \in Int /\ a <= x /\ x <= h
  BY <1>2
<1> HIDE DEF k
<1>4. m \in 0 .. k /\ a + m = x
  BY <1>1, <1>2, <1>3
<1>5. \A d \in a .. x - 1 : d \in 1 .. l
  BY <1>2, <1>3 DEF Want
<1>6. QED
  BY <1>4, <1>5 DEF k, Seen

\* The end e takes a frame with a number in it, x.
LEMMA HearsNumbers ==
  ASSUME IInv, NInv, ~stale, NEW e \in Ends, Live(station[e]),
         NEW t, NEW rest, NEW k \in {submitted[e], submitted[e] + 1}, Moves(e, t, rest, k),
         NEW i, Shrunk(wire[e], rest, i),
         NEW g, AcksBy(g, Readable(station[e], wire[e]), wire[e], Base(station[e], submitted[e]),
                       Oldest(station[e], submitted[e]), Wanted(station[e], submitted[e], last[Peer(e)])),
         NEW x \in Oldest(station[e], submitted[e]) .. Wanted(station[e], submitted[e], last[Peer(e)]),
         \A j \in Readable(station[e], wire[e]) : j > i => g[j] >= x,
         NEW f,
         Hears(t, submitted[e], k, submitted[Peer(e)], Seen(last[Peer(e)], wire[Peer(e)]),
               Base(station[e], submitted[e]), Oldest(station[e], submitted[e]), station[e].v_r,
               x - Oldest(station[e], submitted[e]), f),
         f.type = "I" /\ f.ns = station[e].v_r =>
             /\ i = 1 /\ f = wire[e][1]
             /\ f.data = Wanted(station[Peer(e)], submitted[Peer(e)], last[e]),
         k = submitted[e] \/ (f.type = "I" /\ f.ns = station[e].v_r)
  PROVE  NInv' /\ Serves(e)
<1> DEFINE p == Peer(e)
           s == station[e]
           n == submitted[e]
           o == submitted[p]
           l == last[p]
           w == wire[e]
           S == Seen(l, wire[p])
           b == Base(s, n)
           a == Oldest(s, n)
           h == Wanted(s, n, l)
           v == s.v_r
           m == x - a
<1>1. Ordered(n, l, a, h) /\ n \in Nat /\ n \in {n, n + 1}
  BY StartsIs, EndIs
<1>2. /\ Live(t)
      /\ IF f.type = "I" /\ f.ns = v
         THEN Runs(t, k, o, S, Plain, b, a + m, (v + 1) % Mod) /\ t.up = <<f.data>>
         ELSE \E j \in {0, m} : Runs(t, n, o, S, Plain, b, a + j, v) /\ t.up = <<>>
  BY DEF Hears
<1>3. /\ AcksBy(g, Readable(s, w), w, b, a, h) /\ x \in a .. h
      /\ \A j \in Readable(s, w) : j > i => g[j] >= x
  OBVIOUS
<1> HIDE DEF a, h, b, S, v
<1>4. a \in Int /\ h \in Int /\ x \in Int /\ a <= x /\ x <= h
  BY <1>1, <1>3 DEF Ordered
<1>5. a + m = x /\ a + 0 = a /\ a \in a .. h
  BY <1>4
<1>6. Live(s)
  OBVIOUS
<1>7. CASE f.type = "I" /\ f.ns = v
  <2>1. /\ Runs(t, k, o, S, Plain, b, x, (v + 1) % Mod) /\ t.up = <<f.data>>
    BY <1>2, <1>5, <1>7
  <2>2. Goes(e, t, rest, k, Plain, x, (v + 1) % Mod, i, g)
    <3>1. i = 1 /\ w[1] = f /\ f.data = Wanted(station[p], o, last[e])
      BY <1>7 DEF v
    <3>2. Plain # Opens
      BY DEF Plain, Opens
    <3>3. QED
      BY <1>2, <1>3, <1>6, <1>7, <2>1, <3>1, <3>2 DEF Goes, a, b, h, S, v
  <2>3. QED
    BY <2>2, ContinueKeeps
<1>8. CASE ~(f.type = "I" /\ f.ns = v)
  <2>1. k = n
    BY <1>8 DEF v
  <2>2. PICK j \in {0, m} : Runs(t, n, o, S, Plain, b, a + j, v) /\ t.up = <<>>
    BY <1>2, <1>8
  <2>3. a + j \in a .. h /\ (a + j) <= x
    <3>1. a + j = a \/ a + j = x
      BY <1>5, <2>2
    <3>2. QED
      BY <1>3, <1>4, <1>5, <3>1
  <2>4. \A y \in Readable(s, w) : y > i => g[y] >= a + j
    <3>1. ASSUME NEW y \in Readable(s, w), y > i PROVE g[y] >= a + j
      <4>1. g[y] >= x
        BY <1>3, <3>1
      <4>2. g[y] \in 1 .. h
        BY <1>3 DEF AcksBy, Readable
      <4>3. g[y] \in Int /\ a + j \in Int
        BY <1>4, <2>3, <4>2
      <4>4. QED
        BY <1>4, <2>3, <4>1, <4>3
    <3>2. QED
      BY <3>1
  <2> DEFINE y == a + j
  <2> HIDE DEF y
  <2>5. Goes(e, t, rest, n, Plain, y, v, i, g)
    <3>1. Plain # Opens
      BY DEF Plain, Opens
    <3>2. /\ Runs(t, n, o, S, Plain, b, y, v) /\ t.up = <<>> /\ y \in a .. h
          /\ \A z \in Readable(s, w) : z > i => g[z] >= y
      BY <2>2, <2>3, <2>4 DEF y
    <3>3. QED
      BY <1>1, <1>2, <1>3, <1>6, <3>1, <3>2 DEF Goes, a, b, h, S, v
  <2>6. QED
    BY <2>1, <2>5, ContinueKeeps
<1>9. QED
  BY <1>7, <1>8

\* Frames of other equipment: they end the link, or hold the station back.
LEMMA ForeignNumbers ==
  ASSUME IInv, NInv, ~stale, NEW e \in Ends, HearForeign(e)
  PROVE  NInv' /\ Serves(e)
<1> DEFINE p == Peer(e)
           s == station[e]
           z == station[p]
           n == submitted[e]
           o == submitted[p]
           l == last[p]
           w == wire[e]
           S == Seen(l, wire[p])
           b == Base(s, n)
           a == Oldest(s, n)
           h == Wanted(s, n, l)
           v == s.v_r
<1>1. p \in Ends /\ Peer(p) = e /\ p # e /\ \A x \in Ends : x = e \/ x = p
  BY PeerIs
<1>2. PICK f \in ForeignFrames(e) : Becomes(e, Receive(s, f, <<>>), w)
  BY DEF HearForeign
<1> DEFINE t == Receive(s, f, <<>>)
<1>3. Quiet /\ submitted' = [submitted EXCEPT ![e] = n]
  <2>1. submitted \in [Ends -> Nat]
    BY EndIs
  <2>2. QED
    BY <2>1 DEF HearForeign
<1>4. Moves(e, t, w, n)
  <2> HIDE DEF t, n, w
  <2>1. QED
    BY <1>2, <1>3, BecomesIs DEF t
<1>5. /\ Runs(s, n, o, S, Plain, b, a, v) /\ Ordered(n, l, a, h)
      /\ n \in Nat /\ o \in Nat /\ Sound(s, n, o) /\ Sound(z, o, n) /\ s.out = <<>> /\ s.up = <<>>
      /\ Watched(s) /\ Half(s)
  BY StartsIs, StandIs, EndIs DEF Stand
<1>6. PICK g : AcksBy(g, Readable(s, w), w, b, a, h)
  BY StartsIs
<1>7. w = <<>> /\ Readable(s, w) = {} /\ Shrunk(w, w, 0)
  <2>1. w = <<>> /\ DOMAIN w = {}
    BY <1>3 DEF Quiet
  <2>2. QED
    BY <2>1, SameLine DEF Readable
<1>8. Told(<<>>, n, n)
  BY DEF Told
<1>9. f.type \in {"DM", "DISC"} \/ (Live(z) /\ f \in Frame(o) /\ f.type = "RNR" /\ f.nr = z.v_r)
  <2>1. CASE f \in {UFrame("DM"), UFrame("DISC")}
    BY <2>1 DEF UFrame
  <2>2. CASE f \notin {UFrame("DM"), UFrame("DISC")}
    <3>1. PICK y \in BOOLEAN, cmd \in BOOLEAN : f = SFrame("RNR", z, y, cmd)
      BY <2>2 DEF ForeignFrames
    <3>2. z.state = "established"
      BY <2>2 DEF ForeignFrames
    <3>3. SFrame("RNR", z, y, cmd) \in Frame(o)
      BY <1>5, FramesAre
    <3>4. SFrame("RNR", z, y, cmd).type = "RNR" /\ SFrame("RNR", z, y, cmd).nr = z.v_r
      BY DEF SFrame
    <3>5. QED
      BY <3>1, <3>2, <3>3, <3>4 DEF Live
  <2>3. QED
    BY <2>1, <2>2
<1> HIDE DEF s, z, n, o, l, w, S, b, a, h, v, p
<1>10. CASE f.type \in {"DM", "DISC"}
  <2>1. f \in Frame(o)
    <3>1. f.type # "RNR"
      BY <1>10
    <3>2. f \in {UFrame("DM"), UFrame("DISC")}
      BY <3>1 DEF ForeignFrames, SFrame
    <3>3. QED
      BY <3>2 DEF UFrame, Frame
  <2>2. Sound(t, n, o) /\ Watched(t)
    BY <1>5, <1>8, <2>1, ReceiveIs
  <2>3. Ended(t)
    BY <1>5, <1>10, EndsRuns
  <2> HIDE DEF t
  <2>4. QED
    BY <1>3, <1>4, <1>7, <2>2, <2>3, EndedNumbers DEF n, o, p
<1>11. CASE f.type \notin {"DM", "DISC"}
  <2>1. Live(z) /\ f \in Frame(o) /\ f.type = "RNR" /\ f.nr = z.v_r /\ f.type \in NrTypes /\ f.type \notin Opens
    BY <1>9, <1>11 DEF NrTypes, Opens
  <2>2. CASE ~Live(s)
    <3>1. t.up = <<>> /\ Runs(t, n, o, S, Opens, b, a, v) /\ (Live(t) => Live(s) \/ f.type \in Opens)
      BY <1>5, <2>1, <2>2, OpensRuns
    <3> HIDE DEF t
    <3>2. QED
      BY <1>4, <2>1, <2>2, <3>1, StaysNumbers DEF s, n, o, l, w, S, b, a, v, p
  <2>3. CASE Live(s)
    <3>1. Synced
      <4>1. ASSUME NEW x \in Ends PROVE Live(station[x])
        BY <1>1, <2>1, <2>3 DEF s, z
      <4>2. QED
        BY <4>1 DEF Synced
    <3>2. Names(f.nr, b, h)
      BY <2>1, <3>1 DEF NInv, Numbers, Agrees, s, z, n, l, b, h, p
    <3>3. Len(s.queue) \in Nat
      BY <1>5 DEF Sound
    <3>4. a = Oldest(s, n) /\ h \in a .. h
      BY <1>5 DEF a, Ordered
    <3> DEFINE m == h - a
    <3>5. m \in 0 .. Len(s.queue) /\ a + m = h /\ \A u : \A d \in a .. (a + m) - 1 : d \in Seen(l, u)
      BY <1>5, <3>3, <3>4, MayAcknowledge
    <3>6. Fits(<<>>, n, a, S)
      BY DEF Fits
    <3>7. \A d \in a .. (a + m) - 1 : d \in S
      BY <3>5 DEF S
    <3>8. Names(f.nr, b, a + m)
      BY <3>2, <3>5
    <3> HIDE DEF m
    <3>9. Hears(t, n, n, o, S, b, a, v, m, f)
      BY <1>5, <1>8, <2>1, <2>3, <3>5, <3>6, <3>7, <3>8, HearsRuns
    <3>10. \A j \in Readable(s, w) : j > 0 => g[j] >= h
      BY <1>7
    <3> HIDE DEF t
    <3>11. Hears(t, n, n, o, S, b, a, v, h - a, f)
      BY <3>9 DEF m
    <3>12. f.type # "I" /\ n \in {n, n + 1}
      BY <1>5, <2>1
    <3>13. QED
      BY <1>4, <1>5, <1>6, <1>7, <2>3, <3>4, <3>10, <3>11, <3>12, HearsNumbers DEF s, n, o, l, w, S, b, a, h, v, p
  <2>4. QED
    BY <2>2, <2>3
<1>12. QED
  BY <1>10, <1>11

-----------------------------------------------------------------------------
(* What waits.                                                              *)

\* What waits are the messages from the one wanted on.
PendingAre(e) ==
    LET n == submitted[e]
        h == Wanted(station[e], n, last[Peer(e)])
    IN  /\ Pending(e) \in Seq(1 .. n) /\ Len(Pending(e)) = (n + 1) - h
        /\ \A i \in 1 .. (n + 1) - h : Pending(e)[i] = h + (i - 1)

\* They are the part of the queue behind what arrived.
LEMMA PendingIs ==
  ASSUME IInv, NInv, NEW e \in Ends
  PROVE  PendingAre(e)
<1> DEFINE s == station[e]
           n == submitted[e]
           l == last[Peer(e)]
           a == Oldest(s, n)
           h == Wanted(s, n, l)
           q == s.queue
           k == Len(s.queue)
           m == h - a
           W == {i \in DOMAIN q : q[i].data <= l}
           c == Cardinality(W)
<1>1. /\ n \in Nat /\ Sound(s, n, submitted[Peer(e)]) /\ s.out = <<>> /\ l \in 0 .. n
      /\ Speaks(s, n, l, wire[Peer(e)])
  BY StandIs DEF Stand, NInv, Numbers
<1>2. Ordered(n, l, a, h) /\ Runs(s, n, submitted[Peer(e)], Seen(l, wire[Peer(e)]), Plain, Base(s, n), a, s.v_r)
  <2> HIDE DEF n, l
  <2>1. QED
    BY <1>1, SpeaksIs
<1>3. q \in Seq(Entry(n)) /\ k \in Nat /\ DOMAIN q = 1 .. k
  BY <1>1 DEF Sound
<1>4. \A i \in 1 .. k : q[i].data = a + (i - 1)
  BY <1>1, <1>3 DEF Speaks, Numbered
<1>5. a = (n - k) + 1
  BY DEF Oldest
<1>6. Pending(e) = [i \in 1 .. k - c |-> q[c + i].data]
  BY DEF Pending
<1> HIDE DEF c
<1> HIDE DEF k, q, a, h, n, l
<1>7. n \in Int /\ l \in Int /\ a \in Int /\ h \in Int /\ a >= 1 /\ h <= n + 1 /\ a <= h /\ h = Want(l, a)
  BY <1>2 DEF Ordered
<1>8. m \in 0 .. k /\ k - m = (n + 1) - h /\ a + m = h
  BY <1>3, <1>5, <1>7
<1>9. W = 1 .. m
  <2>1. ASSUME NEW i \in 1 .. k PROVE q[i].data <= l <=> i \in 1 .. m
    <3>1. q[i].data = a + (i - 1) /\ i \in Int
      BY <1>4
    <3>2. (h = l + 1 /\ l >= a) \/ (h = a /\ l < a)
      BY <1>7 DEF Want
    <3>3. (a + (i - 1) <= l) <=> i <= m
      BY <1>7, <1>8, <3>1, <3>2
    <3>4. QED
      BY <1>3, <1>8, <3>1, <3>3
  <2>2. \A i \in 1 .. m : i \in 1 .. k
    BY <1>3, <1>8
  <2> HIDE DEF m
  <2>3. QED
    BY <1>3, <2>1, <2>2
<1> HIDE DEF m, W
<1>10. c = m
  <2>1. m \in Int /\ 1 \in Int /\ m >= 0
    BY <1>3, <1>8
  <2>2. Cardinality(1 .. m) = IF 1 > m THEN 0 ELSE m - 1 + 1
    BY <2>1, FS_Interval
  <2>3. QED
    BY <1>9, <2>1, <2>2 DEF c
<1>11. ASSUME NEW i \in 1 .. k - m PROVE q[m + i].data = h + (i - 1) /\ q[m + i].data \in 1 .. n
  <2>1. m + i \in 1 .. k /\ i \in Int
    BY <1>3, <1>8
  <2>2. q[m + i].data = a + ((m + i) - 1)
    BY <1>4, <2>1
  <2>3. a + ((m + i) - 1) = h + (i - 1)
    BY <1>7, <1>8, <2>1
  <2>4. q[m + i] \in Entry(n)
    BY <1>3, <2>1
  <2>5. QED
    BY <2>2, <2>3, <2>4 DEF Entry
<1>12. /\ Pending(e) \in Seq(1 .. n) /\ Len(Pending(e)) = k - m
       /\ \A i \in 1 .. k - m : Pending(e)[i] = h + (i - 1)
  <2> DEFINE j == k - m
             f == [i \in 1 .. j |-> q[m + i].data]
  <2>1. j \in Nat /\ Pending(e) = f
    BY <1>3, <1>6, <1>8, <1>10
  <2>2. \A i \in 1 .. j : f[i] \in 1 .. n /\ f[i] = h + (i - 1)
    BY <1>11
  <2>3. f \in [1 .. j -> 1 .. n]
    BY <2>2
  <2> HIDE DEF j
  <2>4. f \in Seq(1 .. n) /\ Len(f) = j
    BY <2>1, <2>2
  <2> HIDE DEF f
  <2>5. QED
    BY <2>1, <2>2, <2>4 DEF j
<1>13. QED
  BY <1>8, <1>12 DEF PendingAre, n, h, s, l

\* A SABME that finds its station's numbers at the start.
LEMMA RenewedIs ==
  ASSUME IInv, NInv, NEW e \in Ends, Live(station[e]), NEW f, f.type = "SABME", ~KeepsNumbers(e, f)
  PROVE  Renewed(station[e], submitted[e], last[Peer(e)])
<1> DEFINE s == station[e]
           n == submitted[e]
           l == last[Peer(e)]
           h == Wanted(s, n, l)
           b == Base(s, n)
<1>1. s.v_r = 0 /\ s.v_s = Len(Pending(e))
  BY DEF KeepsNumbers, Live
<1>2. Len(Pending(e)) = (n + 1) - h
  BY PendingIs DEF PendingAre
<1>3. /\ n \in Nat /\ Sound(s, n, submitted[Peer(e)]) /\ s.out = <<>> /\ l \in 0 .. n
      /\ Speaks(s, n, l, wire[Peer(e)])
  BY StandIs DEF Stand, NInv, Numbers
<1> HIDE DEF n, l
<1>4. /\ Ordered(n, l, Oldest(s, n), h)
      /\ Runs(s, n, submitted[Peer(e)], Seen(l, wire[Peer(e)]), Plain, b, Oldest(s, n), s.v_r)
  BY <1>3, SpeaksIs
<1>5. h \in Int /\ At(s, n, h) = (b + h) % Mod
  BY <1>4 DEF Ordered, Runs
<1> HIDE DEF h, b
<1>6. (s.v_s - n) + (h - 1) = 0
  BY <1>1, <1>2, <1>3, <1>5
<1>7. 0 % Mod = 0
  BY ConstantsAre, Reduced
<1>8. Names(0, b, h)
  BY <1>5, <1>6, <1>7 DEF At, Names
<1>9. QED
  BY <1>1, <1>8 DEF Renewed, n, l, h, b

-----------------------------------------------------------------------------
(* A frame with a number arrives.                                           *)

\* The message in a frame with the number wanted is the one wanted.
LEMMA ArrivesWanted ==
  ASSUME NEW z, NEW o \in Nat, NEW n, Sound(z, o, n), z.out = <<>>, NEW c \in 0 .. o, NEW w \in Seq(Frame(o)),
         Speaks(z, o, c, w), 1 \in DOMAIN w, w[1].type = "I", Agrees(z, o, c, w[1].ns)
  PROVE  w[1].data = Wanted(z, o, c)
<1> DEFINE a == Oldest(z, o)
           h == Wanted(z, o, c)
           b == Base(z, o)
           d == w[1].data
<1>1. Ordered(o, c, a, h) /\ Runs(z, o, n, Seen(c, w), Plain, b, a, z.v_r)
  BY SpeaksIs
<1>2. w[1].ns = (b + d) % Mod /\ h < d + Mod
  BY DEF Speaks, Sends, Names
<1>3. w[1].ns = (b + h) % Mod
  BY DEF Agrees, Names
<1>4. d \in 1 .. o
  <2>1. w[1] \in Frame(o)
    OBVIOUS
  <2>2. QED
    BY <2>1, FrameIs
<1>5. \A x \in Int : At(z, o, x) = (b + x) % Mod
  BY <1>1 DEF Runs
<1>6. z.v_s \in Int /\ Mod \in Int
  <2>1. Mod \in Nat
    BY ConstantsAre
  <2>2. z.v_s \in 0 .. o + Mod - 1
    BY DEF Sound
  <2>3. QED
    BY <2>1, <2>2
<1> HIDE DEF a, h, b, d
<1>7. d \in Int /\ h \in Int /\ d < h + Mod
  BY <1>1, <1>4, <1>6 DEF Ordered
<1>8. At(z, o, d) = At(z, o, h)
  BY <1>2, <1>3, <1>5, <1>7
<1>9. \A x, y \in Int : At(z, o, x) = At(z, o, y) /\ y < x + Mod /\ x < y + Mod => x = y
  BY <1>6, AtIs
<1>10. d = h
  BY <1>2, <1>7, <1>8, <1>9
<1>11. QED
  BY <1>10 DEF d, h

\* There is room for a message.
LEMMA FitsIs ==
  ASSUME IInv, NInv, NEW e \in Ends, NEW replies,
         replies # <<>> => Len(station[e].queue) < Mod - 1
  PROVE  Fits(replies, submitted[e], Oldest(station[e], submitted[e]), Seen(last[Peer(e)], wire[Peer(e)]))
<1> DEFINE s == station[e]
           n == submitted[e]
           l == last[Peer(e)]
           u == wire[Peer(e)]
           k == Len(s.queue)
<1>1. n \in Nat /\ Sound(s, n, submitted[Peer(e)]) /\ l \in 0 .. n /\ u \in Seq(Frame(n))
  BY StandIs DEF Stand
<1>2. k \in Nat
  BY <1>1 DEF Sound
<1>3. n + 1 \notin Seen(l, u)
  <2>1. n + 1 \notin 1 .. l
    BY <1>1
  <2>2. ASSUME NEW j \in DOMAIN u, u[j].type = "I" PROVE u[j].data # n + 1
    <3>1. u[j] \in Frame(n)
      BY <1>1
    <3>2. u[j].data \in 1 .. n
      BY <2>2, <3>1, FrameIs
    <3>3. QED
      BY <1>1, <3>2
  <2> HIDE DEF u, l
  <2>3. QED
    BY <2>1, <2>2 DEF Seen, Carried
<1>4. replies # <<>> => k < Mod - 1
  OBVIOUS
<1>5. Mod \in Nat
  BY ConstantsAre
<1> HIDE DEF k, n
<1>6. replies # <<>> => n + 1 < (((n - k) + 1) + Mod) - 1
  BY <1>1, <1>2, <1>4, <1>5
<1>7. QED
  BY <1>3, <1>6 DEF Fits, Oldest, k, n, s, l, u

\* A frame arrives at a station whose link is up, and has a number in it.
LEMMA NumberNumbers ==
  ASSUME IInv, NInv, ~stale, NEW e \in Ends, Live(station[e]), wire[e] # <<>>, Head(wire[e]).type \in NrTypes,
         NEW k, NEW replies, Told(replies, submitted[e], k),
         Moves(e, Receive(station[e], Head(wire[e]), replies), Tail(wire[e]), k),
         replies # <<>> => /\ Len(station[e].queue) < Mod - 1
                           /\ Receive(station[e], Head(wire[e]), <<>>).up # <<>>
  PROVE  NInv' /\ Serves(e)
<1> DEFINE p == Peer(e)
           s == station[e]
           z == station[p]
           n == submitted[e]
           o == submitted[p]
           l == last[p]
           c == last[e]
           w == wire[e]
           rest == Tail(w)
           f == Head(w)
           t == Receive(s, f, replies)
           S == Seen(l, wire[p])
           b == Base(s, n)
           a == Oldest(s, n)
           h == Wanted(s, n, l)
           v == s.v_r
<1>1. p \in Ends /\ Peer(p) = e /\ p # e /\ \A x \in Ends : x = e \/ x = p
  BY PeerIs
<1>2. /\ n \in Nat /\ o \in Nat /\ Sound(s, n, o) /\ Sound(z, o, n) /\ s.out = <<>> /\ s.up = <<>> /\ z.out = <<>>
      /\ w \in Seq(Frame(o)) /\ c \in 0 .. o
  BY StandIs DEF Stand
<1>3. Runs(s, n, o, S, Plain, b, a, v) /\ Ordered(n, l, a, h)
  BY StartsIs
<1>4. PICK g : AcksBy(g, Readable(s, w), w, b, a, h)
  BY StartsIs
<1>5. Speaks(z, o, c, w) /\ (Synced => Agrees(z, o, c, s.v_r))
  BY <1>1 DEF NInv, Numbers
<1>6. Moves(e, t, rest, k) /\ Told(replies, n, k) /\ Fits(replies, n, a, S) /\ Fits(<<>>, n, a, S) /\ Told(<<>>, n, n)
  BY FitsIs DEF Told, Fits
<1>7. f \in Frame(o) /\ f = w[1] /\ 1 \in DOMAIN w /\ Shrunk(w, rest, 1) /\ f.type \in NrTypes
  <2>1. f \in Frame(o) /\ f = w[1]
    BY <1>2, HeadTailProperties
  <2>2. Shrunk(w, rest, 1)
    BY <1>2, LineIs
  <2>3. 1 \in DOMAIN w
    BY <1>2
  <2>4. QED
    BY <2>1, <2>2, <2>3
<1>8. Live(s) /\ (replies # <<>> => Receive(s, f, <<>>).up # <<>>)
  OBVIOUS
<1> HIDE DEF p, s, z, n, o, l, c, w, rest, f, S, b, a, h, v
<1> DEFINE x == g[1]
<1>9. /\ x \in a .. h /\ Names(f.nr, b, x)
      /\ \A j \in Readable(s, w) : j > 1 => g[j] >= x
  <2>1. 1 \in Readable(s, w)
    BY <1>7, <1>8 DEF Readable
  <2>2. x \in 1 .. h /\ x >= a /\ Names(f.nr, b, x)
    BY <1>4, <1>7, <2>1 DEF AcksBy
  <2>3. ASSUME NEW j \in Readable(s, w), j > 1 PROVE g[j] >= x
    <3>1. x <= g[j]
      BY <1>4, <2>1, <2>3 DEF AcksBy
    <3>2. g[j] \in 1 .. h
      BY <1>4 DEF AcksBy, Readable
    <3> HIDE DEF x
    <3>3. QED
      BY <2>2, <3>1, <3>2
  <2> HIDE DEF x
  <2>4. x \in a .. h
    BY <1>3, <2>2 DEF Ordered
  <2>5. QED
    BY <2>2, <2>3, <2>4
<1> HIDE DEF x
<1> DEFINE m == x - a
<1>10. m \in 0 .. Len(s.queue) /\ a + m = x /\ \A u : \A d \in a .. (a + m) - 1 : d \in Seen(l, u)
  <2>1. Len(s.queue) \in Nat
    BY <1>2 DEF Sound
  <2>2. a = Oldest(s, n)
    BY DEF a
  <2>3. QED
    BY <1>3, <1>9, <2>1, <2>2, MayAcknowledge
<1>11. \A d \in a .. (a + m) - 1 : d \in S
  BY <1>10 DEF S
<1>12. Names(f.nr, b, a + m)
  BY <1>9, <1>10
<1> HIDE DEF m
<1>13. Hears(t, n, k, o, S, b, a, v, m, f)
  BY <1>2, <1>3, <1>6, <1>7, <1>8, <1>10, <1>11, <1>12, HearsRuns
<1>14. Hears(Receive(s, f, <<>>), n, n, o, S, b, a, v, m, f)
  BY <1>2, <1>3, <1>6, <1>7, <1>8, <1>10, <1>11, <1>12, HearsRuns
<1>15. f.type = "I" /\ f.ns = v => f.data = Wanted(z, o, c)
  <2>1. SUFFICES ASSUME f.type = "I", f.ns = v PROVE f.data = Wanted(z, o, c)
    OBVIOUS
  <2>2. Live(z)
    BY <1>5, <1>7 DEF Speaks
  <2>3. Synced
    <3>1. ASSUME NEW y \in Ends PROVE Live(station[y])
      BY <1>1, <1>8, <2>2 DEF s, z
    <3>2. QED
      BY <3>1 DEF Synced
  <2>4. Agrees(z, o, c, w[1].ns)
    BY <1>5, <1>7, <2>1, <2>3 DEF v
  <2>5. w[1].type = "I"
    BY <1>7, <2>1
  <2>6. QED
    BY <1>2, <1>5, <1>7, <2>4, <2>5, ArrivesWanted
<1>16. k = n \/ (f.type = "I" /\ f.ns = v)
  <2>1. CASE replies = <<>>
    BY <1>6, <2>1 DEF Told
  <2>2. CASE replies # <<>>
    BY <1>8, <1>14, <2>2 DEF Hears
  <2>3. QED
    BY <2>1, <2>2
<1>17. k \in {n, n + 1}
  BY <1>2, <1>6 DEF Told
<1> HIDE DEF t
<1>18. Hears(t, n, k, o, S, b, a, v, x - a, f)
  BY <1>13 DEF m
<1>19. f.type = "I" /\ f.ns = v => 1 = 1 /\ f = w[1] /\ f.data = Wanted(z, o, c)
  BY <1>7, <1>15
<1>20. /\ Live(station[e]) /\ k \in {submitted[e], submitted[e] + 1} /\ Moves(e, t, rest, k)
       /\ Shrunk(wire[e], rest, 1)
       /\ AcksBy(g, Readable(station[e], wire[e]), wire[e], Base(station[e], submitted[e]),
                 Oldest(station[e], submitted[e]), Wanted(station[e], submitted[e], last[Peer(e)]))
       /\ x \in Oldest(station[e], submitted[e]) .. Wanted(station[e], submitted[e], last[Peer(e)])
       /\ \A j \in Readable(station[e], wire[e]) : j > 1 => g[j] >= x
       /\ Hears(t, submitted[e], k, submitted[Peer(e)], Seen(last[Peer(e)], wire[Peer(e)]),
                Base(station[e], submitted[e]), Oldest(station[e], submitted[e]), station[e].v_r,
                x - Oldest(station[e], submitted[e]), f)
       /\ f.type = "I" /\ f.ns = station[e].v_r =>
             /\ 1 = 1 /\ f = wire[e][1]
             /\ f.data = Wanted(station[Peer(e)], submitted[Peer(e)], last[e])
       /\ k = submitted[e] \/ (f.type = "I" /\ f.ns = station[e].v_r)
  BY <1>4, <1>6, <1>7, <1>8, <1>9, <1>16, <1>17, <1>18, <1>19 DEF p, s, z, n, o, l, c, w, S, b, a, h, v
<1>21. QED
  BY <1>20, HearsNumbers

-----------------------------------------------------------------------------
(* Any frame arrives.                                                       *)

\* What arrives, and at what: a frame with a number, or one that opens the link.
LEMMA ArrivesIs ==
  ASSUME IInv, NInv, NEW e \in Ends, wire[e] # <<>>
  PROVE  LET f == Head(wire[e])
         IN  /\ f \in Frame(submitted[Peer(e)]) /\ f = wire[e][1] /\ f.type \in NrTypes \cup Opens
             /\ 1 \in DOMAIN wire[e] /\ Shrunk(wire[e], Tail(wire[e]), 1)
<1> DEFINE w == wire[e]
           p == Peer(e)
           o == submitted[p]
<1>1. w \in Seq(Frame(o)) /\ w # <<>>
  BY StandIs DEF Stand
<1>2. Sends(w, Base(station[p], o), Wanted(station[p], o, last[e]))
  <2>1. p \in Ends /\ Peer(p) = e
    BY PeerIs
  <2>2. QED
    BY <2>1 DEF NInv, Numbers, Speaks
<1> HIDE DEF w, o
<1>3. Head(w) \in Frame(o) /\ Head(w) = w[1] /\ 1 \in DOMAIN w
  BY <1>1, HeadTailProperties
<1>4. Shrunk(w, Tail(w), 1)
  BY <1>1, LineIs
<1>5. w[1].type \in NrTypes \cup Opens
  BY <1>2, <1>3 DEF Sends
<1>6. QED
  BY <1>3, <1>4, <1>5 DEF w, o, p

\* A frame arrives that opens the link, or one that a station takes no notice of.
LEMMA OpenNumbers ==
  ASSUME IInv, NInv, ~stale, NEW e \in Ends, wire[e] # <<>>,
         Head(wire[e]).type \in Opens \/ ~Live(station[e]),
         Moves(e, Receive(station[e], Head(wire[e]), <<>>), Tail(wire[e]), submitted[e]),
         stale' = (stale \/ KeepsNumbers(e, Head(wire[e])))
  PROVE  NInv' /\ Serves(e)
<1> DEFINE p == Peer(e)
           s == station[e]
           n == submitted[e]
           o == submitted[p]
           l == last[p]
           w == wire[e]
           rest == Tail(w)
           f == Head(w)
           t == Receive(s, f, <<>>)
           S == Seen(l, wire[p])
           b == Base(s, n)
           a == Oldest(s, n)
           h == Wanted(s, n, l)
           v == s.v_r
<1>1. /\ n \in Nat /\ o \in Nat /\ Sound(s, n, o) /\ s.out = <<>> /\ s.up = <<>>
  BY StandIs DEF Stand
<1>2. Runs(s, n, o, S, Plain, b, a, v) /\ Ordered(n, l, a, h)
  BY StartsIs
<1>3. PICK g : AcksBy(g, Readable(s, w), w, b, a, h)
  BY StartsIs
<1>4. /\ f \in Frame(o) /\ f = w[1] /\ f.type \in NrTypes \cup Opens /\ Shrunk(w, rest, 1)
  BY ArrivesIs
<1>5. f.type \in Opens \/ (f.type \in NrTypes /\ ~Live(s))
  BY <1>4
<1>6. Moves(e, t, rest, n)
  OBVIOUS
<1>7. f.type = "SABME" /\ Live(s) => stale' \/ Renewed(s, n, l)
  BY RenewedIs
<1> HIDE DEF p, s, n, o, l, w, rest, f, S, b, a, h, v
<1>8. /\ t.up = <<>> /\ Runs(t, n, o, S, Opens, b, a, v)
      /\ Live(s) => Live(t)
      /\ Live(t) => Live(s) \/ f.type \in Opens
      /\ Live(s) /\ f.type # "SABME" => Runs(t, n, o, S, Plain, b, a, v)
  BY <1>1, <1>2, <1>4, <1>5, OpensRuns
<1> HIDE DEF t
<1>9. a \in a .. h /\ n \in {n, n + 1}
  BY <1>1, <1>2 DEF Ordered
<1>10. \A j \in Readable(s, w) : j > 1 => g[j] >= a
  BY <1>3 DEF AcksBy
<1>11. Plain # Opens
  BY DEF Plain, Opens
<1>12. CASE Live(s) /\ f.type # "SABME"
  <2>1. Goes(e, t, rest, n, Plain, a, v, 1, g)
    BY <1>1, <1>3, <1>4, <1>8, <1>9, <1>10, <1>11, <1>12 DEF Goes, p, s, n, o, l, w, S, b, a, h, v
  <2>2. QED
    BY <1>6, <2>1, ContinueKeeps
<1>13. CASE ~(Live(s) /\ f.type # "SABME")
  <2>1. Goes(e, t, rest, n, Opens, a, v, 1, g)
    BY <1>1, <1>3, <1>4, <1>7, <1>8, <1>9, <1>10, <1>13 DEF Goes, p, s, n, o, l, w, S, b, a, h, v
  <2>2. QED
    BY <1>6, <2>1, ContinueKeeps
<1>14. QED
  BY <1>12, <1>13

\* A frame arrives and layer 3 only takes what it brings.
LEMMA SilentNumbers ==
  ASSUME IInv, NInv, ~stale, NEW e \in Ends, HearSilently(e)
  PROVE  NInv' /\ Serves(e)
<1> DEFINE n == submitted[e]
           f == Head(wire[e])
           t == Receive(station[e], f, <<>>)
           rest == Tail(wire[e])
<1>1. /\ wire[e] # <<>> /\ Becomes(e, t, rest) /\ stale' = (stale \/ KeepsNumbers(e, f))
      /\ submitted' = [submitted EXCEPT ![e] = n + Len(<<>>)]
  BY DEF HearSilently, Hear
<1>2. n \in Nat /\ submitted' = [submitted EXCEPT ![e] = n]
  <2>1. n \in Nat
    BY EndIs
  <2>2. n + Len(<<>>) = n
    BY <2>1
  <2>3. QED
    BY <1>1, <2>1, <2>2
<1>3. Moves(e, t, rest, n)
  <2> HIDE DEF t, rest, n
  <2>1. QED
    BY <1>1, <1>2, BecomesIs
<1>4. f.type \in NrTypes \cup Opens
  BY <1>1, ArrivesIs
<1>5. CASE f.type \in NrTypes /\ Live(station[e])
  <2>1. Told(<<>>, n, n)
    BY DEF Told
  <2>2. QED
    BY <1>1, <1>3, <1>5, <2>1, NumberNumbers
<1>6. CASE f.type \in Opens \/ ~Live(station[e])
  BY <1>1, <1>3, <1>6, OpenNumbers
<1>7. QED
  BY <1>4, <1>5, <1>6

\* A frame arrives with a message that layer 3 answers at once.
LEMMA ReplyNumbers ==
  ASSUME IInv, NInv, ~stale, NEW e \in Ends, HearAndReply(e)
  PROVE  NInv' /\ Serves(e)
<1> DEFINE n == submitted[e]
           s == station[e]
           f == Head(wire[e])
           k == n + 1
           y == <<k>>
           t == Receive(s, f, y)
           rest == Tail(wire[e])
<1>1. /\ wire[e] # <<>> /\ Becomes(e, t, rest)
      /\ submitted' = [submitted EXCEPT ![e] = n + Len(y)]
      /\ Len(s.queue) < Mod - 1 /\ Receive(s, f, <<>>).up # <<>>
  BY DEF HearAndReply, Hear, HasMessage
<1>2. n \in Nat /\ submitted' = [submitted EXCEPT ![e] = k] /\ Told(y, n, k)
  <2>1. n \in Nat
    BY EndIs
  <2>2. Len(y) = 1
    OBVIOUS
  <2>3. QED
    BY <1>1, <2>1, <2>2 DEF Told
<1>3. f.type \in NrTypes \cup Opens /\ f \in Frame(submitted[Peer(e)])
  BY <1>1, ArrivesIs
<1>4. f.type \in NrTypes /\ Live(s)
  <2> DEFINE o == submitted[Peer(e)]
             S == Seen(last[Peer(e)], wire[Peer(e)])
             b == Base(s, n)
             a == Oldest(s, n)
             v == s.v_r
             r == Receive(s, f, <<>>)
  <2>1. SUFFICES ASSUME ~(f.type \in NrTypes /\ Live(s)) PROVE FALSE
    OBVIOUS
  <2>2. /\ n \in Nat /\ o \in Nat /\ s.out = <<>> /\ s.up = <<>> /\ Runs(s, n, o, S, Plain, b, a, v)
    BY StandIs, StartsIs DEF Stand
  <2>3. f.type \in Opens \/ (f.type \in NrTypes /\ ~Live(s))
    BY <1>3, <2>1
  <2> HIDE DEF o, S, b, a, v, s, n, f
  <2>4. Receive(s, f, <<>>).up = <<>>
    BY <1>3, <2>2, <2>3, OpensRuns DEF o
  <2>5. QED
    BY <1>1, <2>4
<1>5. Moves(e, t, rest, k)
  <2> HIDE DEF t, rest, n, k
  <2>1. QED
    BY <1>1, <1>2, BecomesIs
<1> HIDE DEF y, k
<1>6. QED
  BY <1>1, <1>2, <1>4, <1>5, NumberNumbers

\* A station as it is allocated.
LEMMA FreshIs ==
  Sound(Fresh, 0, 0)
<1> DEFINE o == [t \in Timers |-> "off"]
<1>1. o \in [Timers -> Events]
  BY DEF Events
<1>2. /\ 0 \in 0 .. 0 + Mod - 1 /\ 0 \in Num /\ 0 \in 0 .. N200
      /\ <<>> \in Seq(Entry(0)) /\ <<>> \in Seq(Frame(0)) /\ <<>> \in Seq(1 .. 0)
  BY ConstantsAre
<1> HIDE DEF o
<1>3. Fresh = [state |-> "released", v_s |-> 0, v_a |-> 0, v_r |-> 0, v_na |-> 0, windowlen |-> 0,
        busy |-> FALSE, solicit |-> FALSE, retrans |-> 0, sentrej |-> FALSE, queue |-> <<>>,
        on |-> o, out |-> <<>>, up |-> <<>>, event |-> "none"]
  BY DEF Fresh, o
<1>4. QED
  BY <1>1, <1>2, <1>3 DEF Sound, Fields

\* Both ends start with nothing sent.
LEMMA InitNumbers ==
  Init => NInv
<1> SUFFICES ASSUME Init PROVE NInv
  OBVIOUS
<1>1. IInv
  BY InitHolds
<1>2. ASSUME NEW e \in Ends
      PROVE  /\ station[e] = Settled(Begin(e)) /\ wire[e] = Begin(Peer(e)).out
             /\ submitted[e] = 0 /\ last[e] = 0
  BY DEF Init
<1>3. ASSUME NEW e \in Ends PROVE Ended(Begin(e)) /\ Sound(Begin(e), 0, 0) /\ Watched(Begin(e))
  <2> DEFINE Now == e = "user"
  <2>1. Now \in BOOLEAN /\ Begin(e) = LinkStart(Fresh, Now)
    BY DEF Begin
  <2>2. Fresh.up = <<>> /\ Opening(Fresh)
    <3>1. Fresh.up = <<>> /\ Fresh.out = <<>> /\ DOMAIN <<>> = {}
      BY DEF Fresh
    <3>2. QED
      BY <3>1 DEF Opening
  <2> HIDE DEF Now
  <2>3. Sound(LinkStart(Fresh, Now), 0, 0) /\ Watched(LinkStart(Fresh, Now))
    BY <2>1, FreshIs, LinkStartIs
  <2>4. Ended(LinkStart(Fresh, Now))
    BY <2>1, <2>2, FreshIs, StartEnded
  <2>5. QED
    BY <2>1, <2>3, <2>4
<1>4. ASSUME NEW e \in Ends
      PROVE  /\ Speaks(station[e], 0, 0, Begin(e).out) /\ Listens(station[e], 0, 0, <<>>)
             /\ ~Live(station[e]) /\ station[e].v_r = 0
             /\ \A k \in DOMAIN Begin(e).out : Begin(e).out[k].type \notin NrTypes
             /\ Begin(e).out \in Seq(Frame(0)) /\ Len(Begin(e).out) <= MaxWire
  <2> DEFINE t == Begin(e)
             r == t.out
  <2>1. Sound(t, 0, 0) /\ Ended(t)
    BY <1>3
  <2>2. r \in Seq(Frame(0)) /\ Len(r) <= MaxWire
    <3>1. wire[Peer(e)] = r
      BY <1>2, PeerIs
    <3>2. wire[Peer(e)] \in Seq(Frame(submitted[e])) /\ Len(wire[Peer(e)]) <= MaxWire
      BY <1>1, StandIs DEF Stand
    <3>3. QED
      BY <1>2, <3>1, <3>2
  <2> HIDE DEF t, r
  <2>3. Grown(<<>>, r, r)
    <3>1. Len(<<>>) = 0 /\ DOMAIN <<>> = {} /\ 1 .. 0 = {} /\ Len(r) \in Nat /\ DOMAIN r = 1 .. Len(r)
      BY <2>2
    <3>2. \A k \in 0 + 1 .. Len(r) : k - 0 \in DOMAIN r /\ r[k] = r[k - 0]
      BY <3>1
    <3>3. QED
      BY <3>1, <3>2 DEF Grown
  <2>4. Grown(<<>>, t.out, r) /\ 0 \in Nat /\ 0 \in 0 .. 0
    BY <2>3 DEF r
  <2>5. /\ Speaks(Settled(t), 0, 0, r) /\ Listens(Settled(t), 0, 0, <<>>) /\ ~Live(Settled(t)) /\ Settled(t).v_r = 0
        /\ \A k \in DOMAIN r : r[k].type \notin NrTypes
    BY <2>1, <2>4, EndedIs
  <2>6. QED
    BY <1>2, <2>2, <2>5 DEF t, r
<1>5. ASSUME NEW e \in Ends PROVE Numbers(e)
  <2> DEFINE s == station[e]
             u == Begin(e).out
             w == Begin(Peer(e)).out
  <2>1. Peer(e) \in Ends /\ Peer(Peer(e)) = e
    BY PeerIs
  <2>2. /\ Speaks(s, 0, 0, u) /\ Listens(s, 0, 0, <<>>) /\ ~Live(s)
        /\ u \in Seq(Frame(0)) /\ w \in Seq(Frame(0)) /\ Len(w) <= MaxWire
        /\ \A k \in DOMAIN w : w[k].type \notin NrTypes
        /\ station[Peer(e)].v_r = 0
    BY <1>4, <2>1
  <2>3. Sound(s, 0, 0) /\ s.out = <<>>
    BY <1>1, <1>2, <2>1, StandIs DEF Stand
  <2>4. wire[e] = w /\ wire[Peer(e)] = u /\ submitted[e] = 0 /\ last[Peer(e)] = 0
    BY <1>2, <2>1
  <2> HIDE DEF s, u, w
  <2>5. Ordered(0, 0, Oldest(s, 0), Wanted(s, 0, 0)) /\ Names(0, Base(s, 0), Wanted(s, 0, 0))
    <3>1. 0 \in Nat /\ 0 \in 0 .. 0
      OBVIOUS
    <3>2. QED
      BY <2>2, <2>3, <3>1, SpeaksIs
  <2>6. Listens(s, 0, 0, w)
    <3>1. Grown(<<>>, w, w)
      <4>1. Len(<<>>) = 0 /\ DOMAIN <<>> = {} /\ 1 .. 0 = {} /\ Len(w) \in Nat /\ DOMAIN w = 1 .. Len(w)
        BY <2>2
      <4>2. \A k \in 0 + 1 .. Len(w) : k - 0 \in DOMAIN w /\ w[k] = w[k - 0]
        BY <4>1
      <4>3. QED
        BY <4>1, <4>2 DEF Grown
    <3>2. \A j \in Readable(s, w) : j > Len(<<>>) => Agrees(s, 0, 0, w[j].nr)
      BY <2>2 DEF Readable
    <3>3. QED
      BY <2>2, <2>5, <3>1, <3>2, ListensMore
  <2>7. Agrees(s, 0, 0, station[Peer(e)].v_r)
    BY <2>2, <2>5 DEF Agrees
  <2>8. QED
    BY <2>2, <2>4, <2>6, <2>7 DEF Numbers, s
<1>6. QED
  BY <1>5 DEF NInv

-----------------------------------------------------------------------------
(* The invariant holds.                                                     *)

\* Every step keeps the numbers.
LEMMA NumbersStay ==
  IInv /\ NInv /\ [Next]_vars => NInv'
<1> SUFFICES ASSUME IInv, NInv, [Next]_vars PROVE NInv'
  OBVIOUS
<1>1. CASE Next
  <2>1. ~stale
    BY <1>1 DEF Next
  <2>2. ASSUME NEW e \in Ends, Submit(e) PROVE NInv'
    BY <2>1, <2>2, SubmitNumbers
  <2>3. ASSUME NEW e \in Ends, NEW timer \in Timers, Expire(e, timer) PROVE NInv'
    BY <2>1, <2>3, ExpireNumbers
  <2>4. ASSUME NEW e \in Ends, Lose(e) PROVE NInv'
    BY <2>1, <2>4, LoseNumbers
  <2>5. ASSUME NEW e \in Ends, HearSilently(e) PROVE NInv'
    BY <2>1, <2>5, SilentNumbers
  <2>6. ASSUME NEW e \in Ends, HearAndReply(e) PROVE NInv'
    BY <2>1, <2>6, ReplyNumbers
  <2>7. ASSUME NEW e \in Ends, HearForeign(e) PROVE NInv'
    BY <2>1, <2>7, ForeignNumbers
  <2>8. QED
    BY <1>1, <2>2, <2>3, <2>4, <2>5, <2>6, <2>7 DEF Next
<1>2. CASE UNCHANGED vars
  <2>1. /\ station' = station /\ wire' = wire /\ submitted' = submitted /\ last' = last /\ stale' = stale
    BY <1>2 DEF vars
  <2>2. Synced' <=> Synced
    BY <2>1 DEF Synced
  <2>3. ASSUME NEW e \in Ends PROVE Numbers(e)'
    <3>1. Numbers(e)
      BY DEF NInv
    <3>2. QED
      BY <2>1, <2>2, <3>1 DEF Numbers
  <2>4. QED
    BY <2>3 DEF NInv
<1>3. QED
  BY <1>1, <1>2

\* Both ends keep to the same numbers, whatever is lost and however often layer 3 or the timers start
\* the link anew: what each acknowledges is what it took, and what each takes is what comes next.
THEOREM NumbersAgree == Spec => [](IInv /\ NInv)
<1>1. Init => IInv /\ NInv
  BY InitHolds, InitNumbers
<1>2. IInv /\ NInv /\ [Next]_vars => (IInv /\ NInv)'
  BY NextKeeps, NumbersStay
<1>3. QED
  BY <1>1, <1>2, PTL DEF Spec

\* windowlen of q921.c stays between 0 and the window and never understates what was sent and is not
\* acknowledged, though seven functions count it up and down: WindowKept of the run Q921.
THEOREM WindowIsKept == Spec => []WindowKept
<1>1. IInv /\ NInv => WindowKept
  <2> SUFFICES ASSUME IInv, NInv, NEW e \in Ends
               PROVE  /\ station[e].windowlen \in 0 .. K
                      /\ Cardinality(DOMAIN station[e].queue \ Unsent(station[e])) <= station[e].windowlen
    BY DEF WindowKept
  <2> DEFINE s == station[e]
             n == submitted[e]
             S == Seen(last[Peer(e)], wire[Peer(e)])
             x == DOMAIN s.queue \ Unsent(s)
             y == Outstanding(s, S)
  <2>1. s.windowlen \in 0 .. K /\ Cardinality(y) <= s.windowlen
    BY DEF NInv, Numbers, Speaks, Counted
  <2>2. x \subseteq y
    BY DEF Unsent, Outstanding
  <2>3. IsFiniteSet(y)
    <3>1. IsFiniteSet({}) /\ Sound(s, n, submitted[Peer(e)])
      BY FS_EmptySet, StandIs DEF Stand
    <3>2. y \subseteq y \cup {}
      OBVIOUS
    <3> HIDE DEF S
    <3>3. QED
      BY <3>1, <3>2, CountedLess
  <2> HIDE DEF x, y
  <2>4. Cardinality(x) <= Cardinality(y) /\ Cardinality(x) \in Nat /\ Cardinality(y) \in Nat
    BY <2>2, <2>3, FS_Subset, FS_CardinalityType
  <2>5. s.windowlen \in Int
    BY <2>1
  <2> HIDE DEF s
  <2>6. QED
    BY <2>1, <2>4, <2>5 DEF x, s
<1>2. QED
  BY <1>1, NumbersAgree, PTL

-----------------------------------------------------------------------------
(* The service: messages of one end.                                        *)

\* The messages of one end, between the last that arrived and the last handed down: those that
\* wait are h .. n, those before it in limbo.
Lie(P, L, l, h, n) ==
    /\ l \in Nat /\ h \in Nat /\ n \in Nat /\ l < h /\ h <= n + 1
    /\ P \in Seq(1 .. n) /\ Len(P) = (n + 1) - h
    /\ \A i \in 1 .. (n + 1) - h : P[i] = h + (i - 1)
    /\ Range(P) = h .. n /\ L = l + 1 .. h - 1

\* That is how they lie at e.
Lies(e) == Lie(Pending(e), Limbo(e), last[Peer(e)], First(e), submitted[e])

\* The invariants say so of both ends.
LEMMA LiesIs ==
  IInv /\ NInv => \A e \in Ends : Lies(e)
<1> SUFFICES ASSUME IInv, NInv, NEW e \in Ends PROVE Lies(e)
  OBVIOUS
<1> DEFINE n == submitted[e]
           l == last[Peer(e)]
           h == First(e)
           P == Pending(e)
           L == Limbo(e)
<1>1. /\ n \in Nat /\ l \in Nat /\ h \in Int /\ l < h /\ h <= n + 1
  <2>1. Ordered(n, l, Oldest(station[e], n), h)
    <3> DEFINE s == station[e]
    <3>1. /\ n \in Nat /\ Sound(s, n, submitted[Peer(e)]) /\ s.out = <<>> /\ l \in 0 .. n
          /\ Speaks(s, n, l, wire[Peer(e)])
      BY StandIs DEF Stand, NInv, Numbers
    <3>2. h = Wanted(s, n, l)
      BY DEF First
    <3> HIDE DEF n, l, h, s
    <3>3. QED
      BY <3>1, <3>2, SpeaksIs DEF s
  <2> HIDE DEF n, l, h
  <2>2. l \in Nat /\ n \in Nat /\ h \in Int /\ l < h /\ h <= n + 1
    BY <2>1 DEF Ordered
  <2>3. QED
    BY <2>2
<1>2. P \in Seq(1 .. n) /\ Len(P) = (n + 1) - h /\ \A i \in 1 .. (n + 1) - h : P[i] = h + (i - 1)
  BY PendingIs DEF PendingAre, First
<1>3. L = {d \in l + 1 .. n : d \notin Range(P)}
  BY DEF Limbo
<1> HIDE DEF n, l, h, P, L
<1> DEFINE k == (n + 1) - h
<1>4. k \in Nat /\ DOMAIN P = 1 .. k
  BY <1>1, <1>2
<1>5. Range(P) = h .. n
  <2>1. ASSUME NEW i \in 1 .. k PROVE P[i] \in h .. n
    <3>1. P[i] = h + (i - 1)
      BY <1>2
    <3>2. QED
      BY <1>1, <3>1
  <2>2. ASSUME NEW d \in h .. n PROVE \E i \in 1 .. k : P[i] = d
    <3>1. (d - h) + 1 \in 1 .. k /\ h + (((d - h) + 1) - 1) = d
      BY <1>1
    <3>2. QED
      BY <1>2, <3>1
  <2>3. Range(P) = {P[i] : i \in 1 .. k}
    BY <1>4 DEF Range
  <2> HIDE DEF k
  <2>4. QED
    BY <2>1, <2>2, <2>3
<1>6. L = l + 1 .. h - 1
  <2>1. \A d \in Int : (d \in l + 1 .. n /\ d \notin h .. n) <=> d \in l + 1 .. h - 1
    BY <1>1
  <2>2. QED
    BY <1>1, <1>3, <1>5, <2>1
<1>7. QED
  BY <1>1, <1>2, <1>5, <1>6 DEF Lies, Lie, n, l, h, P, L

\* Of the next state too.
LEMMA LiesNext ==
  (IInv /\ NInv)' => (\A e \in Ends : Lies(e))'
BY LiesIs, PTL

\* Sequences that agree everywhere are the same.
LEMMA SameSeq ==
  ASSUME NEW n, NEW m, NEW x \in Seq(1 .. n), NEW y \in Seq(1 .. m), Len(x) = Len(y), \A i \in 1 .. Len(x) : x[i] = y[i]
  PROVE  x = y
OBVIOUS

\* Nothing changes, a message is added, the next one arrives, or all are given up.
LEMMA LieSame ==
  ASSUME NEW P, NEW L, NEW l, NEW h, NEW n, Lie(P, L, l, h, n), NEW Q, NEW M, Lie(Q, M, l, h, n)
  PROVE  Q = P /\ M = L
<1>1. Len(P) \in Nat /\ Len(Q) = Len(P) /\ \A i \in 1 .. Len(P) : P[i] = Q[i]
  BY DEF Lie
<1>2. P \in Seq(1 .. n) /\ Q \in Seq(1 .. n)
  BY DEF Lie
<1>3. P = Q
  BY <1>1, <1>2, SameSeq
<1>4. QED
  BY <1>3 DEF Lie

\* A message is added.
LEMMA LieMore ==
  ASSUME NEW P, NEW L, NEW l, NEW h, NEW n, Lie(P, L, l, h, n), NEW Q, NEW M, Lie(Q, M, l, h, n + 1)
  PROVE  Len(Q) = Len(P) + 1 /\ IsPrefix(P, Q) /\ M = L
<1>1. /\ n \in Nat /\ h \in Nat /\ h <= n + 1 /\ Len(P) = (n + 1) - h /\ Len(Q) = ((n + 1) + 1) - h /\ M = L
      /\ P \in Seq(1 .. n) /\ Q \in Seq(1 .. n + 1)
  BY DEF Lie
<1>2. Len(Q) = Len(P) + 1 /\ Len(P) \in Nat
  BY <1>1
<1>3. \A i \in 1 .. Len(P) : P[i] = Q[i]
  <2>1. ASSUME NEW i \in 1 .. Len(P) PROVE P[i] = Q[i]
    <3>1. i \in 1 .. (n + 1) - h /\ i \in 1 .. ((n + 1) + 1) - h
      BY <1>1
    <3>2. QED
      BY <3>1 DEF Lie
  <2>2. QED
    BY <2>1
<1>4. SubSeq(P, 1, Len(P)) = SubSeq(Q, 1, Len(P))
  <2> DEFINE x == SubSeq(P, 1, Len(P))
             y == SubSeq(Q, 1, Len(P))
  <2>1. x \in Seq(1 .. n) /\ Len(x) = Len(P) /\ \A i \in 1 .. Len(P) : x[i] = P[i]
    BY <1>1, <1>2
  <2>2. y \in Seq(1 .. n + 1) /\ Len(y) = Len(P) /\ \A i \in 1 .. Len(P) : y[i] = Q[i]
    BY <1>1, <1>2
  <2> HIDE DEF x, y
  <2>3. \A i \in 1 .. Len(x) : x[i] = y[i]
    BY <1>3, <2>1, <2>2
  <2>4. QED
    BY <2>1, <2>2, <2>3, SameSeq DEF x, y
<1>5. QED
  BY <1>1, <1>2, <1>4 DEF IsPrefix

\* The next one arrives, and what was in limbo never will.
LEMMA LieNext ==
  ASSUME NEW P, NEW L, NEW l, NEW h, NEW n, Lie(P, L, l, h, n), h <= n, NEW Q, NEW M, Lie(Q, M, h, h + 1, n)
  PROVE  P # <<>> /\ Q = Tail(P) /\ M = {}
<1>1. /\ n \in Nat /\ h \in Nat /\ Len(P) = (n + 1) - h /\ Len(Q) = (n + 1) - (h + 1)
      /\ P \in Seq(1 .. n) /\ Q \in Seq(1 .. n) /\ M = h + 1 .. (h + 1) - 1
  BY DEF Lie
<1>2. P # <<>>
  BY <1>1
<1>3. Tail(P) \in Seq(1 .. n) /\ Len(Tail(P)) = Len(P) - 1 /\ \A i \in 1 .. Len(P) - 1 : Tail(P)[i] = P[i + 1]
  BY <1>1, <1>2, HeadTailProperties
<1>4. Len(Q) = Len(Tail(P))
  BY <1>1, <1>3
<1>5. ASSUME NEW i \in 1 .. Len(Q) PROVE Q[i] = Tail(P)[i]
  <2>1. i \in 1 .. (n + 1) - (h + 1) /\ i \in 1 .. Len(P) - 1 /\ i + 1 \in 1 .. (n + 1) - h
    BY <1>1
  <2>2. Q[i] = (h + 1) + (i - 1) /\ P[i + 1] = h + ((i + 1) - 1)
    BY <2>1 DEF Lie
  <2>3. QED
    BY <1>1, <1>3, <2>1, <2>2
<1>6. Q = Tail(P)
  BY <1>1, <1>3, <1>4, <1>5, SameSeq
<1>7. M = {}
  BY <1>1
<1>8. QED
  BY <1>2, <1>6, <1>7

\* All are given up: they are in limbo now.
LEMMA LieNone ==
  ASSUME NEW P, NEW L, NEW l, NEW h, NEW n, Lie(P, L, l, h, n), NEW Q, NEW M, Lie(Q, M, l, n + 1, n)
  PROVE  Q = <<>> /\ M = L \cup Range(P)
<1>1. /\ n \in Nat /\ h \in Nat /\ l \in Nat /\ l < h /\ h <= n + 1 /\ Len(Q) = (n + 1) - (n + 1) /\ Q \in Seq(1 .. n)
      /\ M = l + 1 .. (n + 1) - 1 /\ L = l + 1 .. h - 1 /\ Range(P) = h .. n
  BY DEF Lie
<1>2. Q = <<>>
  BY <1>1
<1>3. M = L \cup Range(P)
  <2>1. \A d \in Int : d \in l + 1 .. (n + 1) - 1 <=> d \in l + 1 .. h - 1 \/ d \in h .. n
    BY <1>1
  <2>2. QED
    BY <1>1, <2>1
<1>4. QED
  BY <1>2, <1>3

-----------------------------------------------------------------------------
(* The service: steps.                                                      *)

\* The step that some end makes.
LEMMA EachServes ==
  IInv /\ NInv /\ Next => \E e \in Ends : Serves(e)
<1> SUFFICES ASSUME IInv, NInv, Next PROVE \E e \in Ends : Serves(e)
  OBVIOUS
<1>1. ~stale
  BY DEF Next
<1>2. ASSUME NEW e \in Ends, Submit(e) PROVE Serves(e)
  BY <1>1, <1>2, SubmitNumbers
<1>3. ASSUME NEW e \in Ends, NEW timer \in Timers, Expire(e, timer) PROVE Serves(e)
  BY <1>1, <1>3, ExpireNumbers
<1>4. ASSUME NEW e \in Ends, Lose(e) PROVE Serves(e)
  BY <1>1, <1>4, LoseNumbers
<1>5. ASSUME NEW e \in Ends, HearSilently(e) PROVE Serves(e)
  BY <1>1, <1>5, SilentNumbers
<1>6. ASSUME NEW e \in Ends, HearAndReply(e) PROVE Serves(e)
  BY <1>1, <1>6, ReplyNumbers
<1>7. ASSUME NEW e \in Ends, HearForeign(e) PROVE Serves(e)
  BY <1>1, <1>7, ForeignNumbers
<1>8. QED
  BY <1>2, <1>3, <1>4, <1>5, <1>6, <1>7 DEF Next

\* A step of e, seen from layer 3.
LEMMA ServesSteps ==
  ASSUME NEW e \in Ends, Serves(e), Lies(e), Lies(Peer(e)), Lies(e)', Lies(Peer(e))'
  PROVE  LET p == Peer(e)
         IN  /\ \/ Pending(e)' = Pending(e) /\ Limbo(e)' = Limbo(e)
                \/ Len(Pending(e)') = Len(Pending(e)) + 1 /\ IsPrefix(Pending(e), Pending(e)') /\ Limbo(e)' = Limbo(e)
                \/ Pending(e)' = <<>> /\ Limbo(e)' = Limbo(e) \cup Range(Pending(e))
             /\ \/ Pending(p)' = Pending(p) /\ Limbo(p)' = Limbo(p)
                \/ Pending(p) # <<>> /\ Pending(p)' = Tail(Pending(p)) /\ Limbo(p)' = {}
<1> DEFINE p == Peer(e)
<1>1. Peer(p) = e
  BY PeerIs
<1>2. /\ Lie(Pending(e), Limbo(e), last[p], First(e), submitted[e])
      /\ Lie(Pending(e)', Limbo(e)', last'[p], First(e)', submitted'[e])
      /\ Lie(Pending(p), Limbo(p), last[e], First(p), submitted[p])
      /\ Lie(Pending(p)', Limbo(p)', last'[e], First(p)', submitted'[p])
  BY <1>1 DEF Lies
<1>3. /\ last'[p] = last[p] /\ submitted'[p] = submitted[p]
      /\ \/ First(e)' = First(e) /\ submitted'[e] \in {submitted[e], submitted[e] + 1}
         \/ First(e)' = submitted[e] + 1 /\ submitted'[e] = submitted[e]
      /\ \/ First(p)' = First(p) /\ last'[e] = last[e]
         \/ First(p) <= submitted[p] /\ last'[e] = First(p) /\ First(p)' = First(p) + 1
  BY DEF Serves
<1>4. \/ Pending(e)' = Pending(e) /\ Limbo(e)' = Limbo(e)
      \/ Len(Pending(e)') = Len(Pending(e)) + 1 /\ IsPrefix(Pending(e), Pending(e)') /\ Limbo(e)' = Limbo(e)
      \/ Pending(e)' = <<>> /\ Limbo(e)' = Limbo(e) \cup Range(Pending(e))
  <2>1. CASE First(e)' = First(e) /\ submitted'[e] = submitted[e]
    <3>1. Lie(Pending(e)', Limbo(e)', last[p], First(e), submitted[e])
      BY <1>2, <1>3, <2>1
    <3>2. QED
      BY <1>2, <3>1, LieSame
  <2>2. CASE First(e)' = First(e) /\ submitted'[e] = submitted[e] + 1
    <3>1. Lie(Pending(e)', Limbo(e)', last[p], First(e), submitted[e] + 1)
      BY <1>2, <1>3, <2>2
    <3>2. QED
      BY <1>2, <3>1, LieMore
  <2>3. CASE First(e)' = submitted[e] + 1 /\ submitted'[e] = submitted[e]
    <3>1. Lie(Pending(e)', Limbo(e)', last[p], submitted[e] + 1, submitted[e])
      BY <1>2, <1>3, <2>3
    <3>2. QED
      BY <1>2, <3>1, LieNone
  <2>4. QED
    BY <1>3, <2>1, <2>2, <2>3
<1>5. \/ Pending(p)' = Pending(p) /\ Limbo(p)' = Limbo(p)
      \/ Pending(p) # <<>> /\ Pending(p)' = Tail(Pending(p)) /\ Limbo(p)' = {}
  <2>1. CASE First(p)' = First(p) /\ last'[e] = last[e]
    <3>1. Lie(Pending(p)', Limbo(p)', last[e], First(p), submitted[p])
      BY <1>2, <1>3, <2>1
    <3>2. QED
      BY <1>2, <3>1, LieSame
  <2>2. CASE First(p) <= submitted[p] /\ last'[e] = First(p) /\ First(p)' = First(p) + 1
    <3>1. Lie(Pending(p)', Limbo(p)', First(p), First(p) + 1, submitted[p])
      BY <1>2, <1>3, <2>2
    <3>2. QED
      BY <1>2, <2>2, <3>1, LieNext
  <2>3. QED
    BY <1>3, <2>1, <2>2
<1>6. QED
  BY <1>4, <1>5

\* At first nothing waits.
LEMMA InitServes ==
  Init => Service!Init
<1> SUFFICES ASSUME Init PROVE Service!Init
  OBVIOUS
<1>1. ASSUME NEW e \in Ends PROVE Pending(e) = <<>> /\ Limbo(e) = {}
  <2>1. Lies(e)
    BY InitHolds, InitNumbers, LiesIs
  <2>2. submitted[e] = 0
    BY DEF Init
  <2> DEFINE l == last[Peer(e)]
             h == First(e)
             P == Pending(e)
             L == Limbo(e)
  <2>3. Lie(P, L, l, h, 0)
    BY <2>1, <2>2 DEF Lies
  <2> HIDE DEF l, h, P, L
  <2>4. /\ l \in Nat /\ h \in Nat /\ l < h /\ h <= 0 + 1 /\ P \in Seq(1 .. 0) /\ Len(P) = (0 + 1) - h
        /\ L = l + 1 .. h - 1
    BY <2>3 DEF Lie
  <2>5. P = <<>> /\ L = {}
    <3>1. h = 1 /\ l = 0
      BY <2>4
    <3>2. L = {} /\ Len(P) = 0
      BY <2>4, <3>1
    <3>3. QED
      BY <2>4, <3>2
  <2>6. QED
    BY <2>5 DEF P, L
<1>2. QED
  BY <1>1 DEF Service!Init

\* Every step of the two stations and the line is one of LinkService, or leaves it as it is.
LEMMA NextServes ==
  IInv /\ NInv /\ (IInv /\ NInv)' /\ [Next]_vars => [Service!Next]_Service!vars
<1> SUFFICES ASSUME IInv, NInv, (IInv /\ NInv)', [Next]_vars PROVE [Service!Next]_Service!vars
  OBVIOUS
<1>1. ASSUME NEW e \in Ends PROVE Lies(e) /\ Lies(e)'
  BY LiesIs, LiesNext
<1>2. CASE Next
  <2>1. PICK e \in Ends : Serves(e)
    BY <1>2, EachServes
  <2> DEFINE p == Peer(e)
  <2>2. p \in Ends /\ p # e
    BY PeerIs
  <2>3. /\ \/ Pending(e)' = Pending(e) /\ Limbo(e)' = Limbo(e)
           \/ Len(Pending(e)') = Len(Pending(e)) + 1 /\ IsPrefix(Pending(e), Pending(e)') /\ Limbo(e)' = Limbo(e)
           \/ Pending(e)' = <<>> /\ Limbo(e)' = Limbo(e) \cup Range(Pending(e))
        /\ \/ Pending(p)' = Pending(p) /\ Limbo(p)' = Limbo(p)
           \/ Pending(p) # <<>> /\ Pending(p)' = Tail(Pending(p)) /\ Limbo(p)' = {}
    BY <1>1, <2>1, <2>2, ServesSteps
  <2>4. Service!Unchanged(e) \/ Service!Accept(e) \/ Service!Down(e)
    <3>1. CASE Pending(e)' = Pending(e) /\ Limbo(e)' = Limbo(e)
      BY <3>1 DEF Service!Unchanged
    <3>2. CASE Len(Pending(e)') = Len(Pending(e)) + 1 /\ IsPrefix(Pending(e), Pending(e)') /\ Limbo(e)' = Limbo(e)
      <4>1. Service!IsPrefix(Pending(e), Pending(e)')
        BY <3>2 DEF IsPrefix, Service!IsPrefix
      <4>2. QED
        BY <3>2, <4>1 DEF Service!Accept
    <3>3. CASE Pending(e)' = <<>> /\ Limbo(e)' = Limbo(e) \cup Range(Pending(e))
      <4>1. Service!Range(Pending(e)) = Range(Pending(e))
        BY DEF Range, Service!Range
      <4>2. QED
        BY <3>3, <4>1 DEF Service!Down
    <3>4. QED
      BY <2>3, <3>1, <3>2, <3>3
  <2>5. Service!Unchanged(p) \/ Service!ArriveNext(p) \/ Service!ArriveLate(p)
    BY <2>2, <2>3 DEF Service!Unchanged, Service!ArriveNext
  <2>6. QED
    BY <2>2, <2>4, <2>5 DEF Service!Next
<1>3. CASE UNCHANGED vars
  <2>1. \A e \in Ends : Pending(e)' = Pending(e) /\ Limbo(e)' = Limbo(e)
    BY <1>3 DEF vars, Pending, Limbo
  <2>2. QED
    BY <2>1 DEF Service!vars
<1>4. QED
  BY <1>2, <1>3

\* Two stations of q921.c over a line that loses frames implement LinkService: messages arrive in
\* order, none twice, none left out unless the link went down: ServiceKept of the run Q921.
THEOREM ServiceIsKept == Spec => ServiceKept
<1>1. Init => Service!Init
  BY InitServes
<1>2. IInv /\ NInv /\ (IInv /\ NInv)' /\ [Next]_vars => [Service!Next]_Service!vars
  BY NextServes
<1>3. QED
  BY <1>1, <1>2, NumbersAgree, PTL DEF Spec, ServiceKept, Service!Spec
=============================================================================
