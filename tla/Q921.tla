-------------------------------- MODULE Q921 --------------------------------
(***************************************************************************)
(* One end of a Q.921 link as libpri keeps it (q921.c).  A station is a    *)
(* record; each function of the library is an operator from station to     *)
(* station, which appends the frames it transmits to "out" and what it     *)
(* passes to layer 3 to "up", and notes in "event" that the link went      *)
(* down.  TEI management (BRI) is left out: a PRI never reaches it.        *)
(***************************************************************************)
EXTENDS Integers, Sequences, FiniteSets, SequencesExt

CONSTANTS
    Mod,       \* sequence numbers are 0 .. Mod-1 (128)
    K,         \* window (PRI_TIMER_K)
    N200       \* retransmissions before the link is given up

ASSUME Q921Assumption ==
    /\ {Mod, K, N200} \subseteq Nat \ {0}
    /\ K + 1 < Mod     \* v_a stays at the last number acknowledged

-----------------------------------------------------------------------------
(* Timers.  A timer is "off" or holds the event that is scheduled in it:   *)
(* T203 may hold the event of T200.  The slots of the scheduler            *)
(* (prisched.c) are left out: a field whose event ran is "off" here, where *)
(* in the code it keeps the number of a slot that may be another timer's   *)
(* by then; and a field set anew (q921.c:438, 462, 566, 804) or to 0 (445, *)
(* 469, 481, 570) forgets its event here, where in the code the event      *)
(* stays scheduled and runs once more.                                     *)

Timers == {"t200", "t203", "sabme"}

Start(s, timer, event) == [s EXCEPT !.on[timer] = event]

Stop(s, timer) == [s EXCEPT !.on[timer] = "off"]

\* reschedule_t200, reschedule_t203
Again(s, timer) == Start(s, timer, timer)

-----------------------------------------------------------------------------
(* Frames and what transmits them.                                         *)

Transmit(s, f) == [s EXCEPT !.out = Append(@, f)]

IFrame(s, f, p) == [type |-> "I", ns |-> f.ns, nr |-> s.v_r, p |-> p, data |-> f.data]

SFrame(type, s, p, cmd) == [type |-> type, nr |-> s.v_r, p |-> p, cmd |-> cmd]

UFrame(type) == [type |-> type]

SendRR(s, p, cmd) == Transmit([s EXCEPT !.v_na = s.v_r], SFrame("RR", s, p, cmd))

SendReject(s, p) == Transmit([s EXCEPT !.sentrej = TRUE], SFrame("REJ", s, p, FALSE))

\* q921_reset
Reset(s) ==
    LET t == Stop(Stop(Stop(s, "sabme"), "t203"), "t200")
    IN  [t EXCEPT !.state = "released", !.v_s = 0, !.v_a = 0, !.v_r = 0, !.v_na = 0,
                  !.windowlen = 0, !.busy = FALSE, !.solicit = FALSE, !.retrans = 0,
                  !.sentrej = FALSE, !.queue = <<>>]

\* q921_send_sabme: the timer always, the frame only at once.
SendSabme(s, now) ==
    LET t == Again(s, "sabme")
    IN  IF now THEN [Transmit(t, UFrame("SABME")) EXCEPT !.state = "awaiting"] ELSE t

\* q921_start
LinkStart(s, now) == SendSabme(Reset(s), now)

\* q921_dchannel_down, then q921_start: the link is given up and set up anew.
GiveUp(s) == LinkStart([Reset(s) EXCEPT !.event = "down"], TRUE)

Unsent(s) == {i \in DOMAIN s.queue : ~s.queue[i].sent}

\* Frames of the queue that may go out now: the first unsent ones, up to the
\* window.
Room(s) == {i \in Unsent(s) : Cardinality({j \in Unsent(s) : j < i}) < K - s.windowlen}

\* The frames at some places of a queue, in its order.
Only(q, S) ==
    LET place == CHOOSE f \in [1 .. Cardinality(S) -> S] : \A i, j \in DOMAIN f : i < j => f[i] < f[j]
    IN  [n \in 1 .. Cardinality(S) |-> q[place[n]]]

\* I-frames made of frames of the queue.
IFrames(s, q) == [n \in 1 .. Len(q) |-> IFrame(s, q[n], FALSE)]

\* A queue with the frames at some places marked as sent.
Marked(q, S) == [i \in DOMAIN q |-> [q[i] EXCEPT !.sent = @ \/ i \in S]]

\* q921_send_queued_iframes
SendQueued(s) ==
    LET now == Room(s)
    IN  [s EXCEPT !.windowlen = @ + Cardinality(now),
                  !.queue = Marked(@, now),
                  !.out = @ \o IFrames(s, Only(s.queue, now))]

-----------------------------------------------------------------------------
(* Acknowledgement.                                                        *)

\* The loop from v_a finds the number before v_s.  v_s is never reduced
\* modulo 128, so that once it is beyond every number is found.
InWindow(s, ack) ==
    s.v_s >= Mod \/ (ack - s.v_a) % Mod <= (s.v_s - s.v_a) % Mod

\* Mutant: the number acknowledged is the last one taken, not the next one wanted.
AckedUpTo(s, ack) == {i \in DOMAIN s.queue : (s.queue[i].ns - s.v_a) % Mod <= (ack - s.v_a) % Mod}

\* q921_ack_packet for all numbers from v_a up to ack.  It takes the first
\* frame with a number, sent or not: here no two have the same, for fewer
\* than Mod wait.
Acked(s, ack) == {i \in DOMAIN s.queue : (s.queue[i].ns - s.v_a) % Mod < (ack - s.v_a) % Mod}

Acknowledge(s, ack) ==
    LET acked == Acked(s, ack)
    IN  IF acked = {} THEN s
        ELSE [s EXCEPT !.v_a = s.queue[CHOOSE i \in acked : \A j \in acked : j <= i].ns,
                       !.queue = Only(@, DOMAIN @ \ acked),
                       !.retrans = 0,
                       !.windowlen = @ - Cardinality(acked)]

\* q921_ack_rx, for a number within the window.
AckRx(s, ack, sendunsent) ==
    LET a == Acknowledge(s, ack)
        b == IF a.queue = <<>> THEN Stop(a, "t200") ELSE a
        c == Stop(b, "t203")
        d == IF ~c.busy /\ sendunsent THEN SendQueued([c EXCEPT !.retrans = 0]) ELSE c
    IN  IF c.queue = <<>> THEN Start(c, "t203", "t203") ELSE Again(d, "t200")

-----------------------------------------------------------------------------
(* What layer 3 and the timers call.                                       *)

\* q921_transmit_iframe
TransmitIframe(s, data) ==
    LET up   == s.state = "established"
        now  == up /\ s.retrans = 0 /\ ~s.busy /\ s.windowlen < K
        f    == [ns |-> s.v_s % Mod, sent |-> now, data |-> data]
        q    == [s EXCEPT !.queue = Append(@, f), !.v_s = @ + 1, !.v_na = s.v_r]
        sent == IF now THEN Transmit([q EXCEPT !.windowlen = @ + 1], IFrame(s, f, FALSE)) ELSE q
        t    == Stop(sent, "t203")
    IN  IF up THEN Again(t, "t200") ELSE t

\* The last frame of the queue that was sent goes out again, polling.
RetransmitLast(s) ==
    LET sent == {i \in DOMAIN s.queue : s.queue[i].sent}
    IN  IF sent = {} THEN s
        ELSE Transmit([s EXCEPT !.v_na = s.v_r],
                      IFrame(s, s.queue[CHOOSE i \in sent : \A j \in sent : j <= i], TRUE))

\* Mutant: gives up one retransmission late.
T200ExpireLate(s) ==
    IF s.queue = <<>> /\ ~s.solicit THEN [s EXCEPT !.on["t200"] = "off"]
    ELSE IF s.retrans > N200 THEN GiveUp([s EXCEPT !.on["t200"] = "off"])
    ELSE LET t == [s EXCEPT !.solicit = TRUE, !.retrans = @ + 1]
         IN  Start(IF s.queue = <<>> \/ s.busy THEN SendRR(t, TRUE, TRUE) ELSE RetransmitLast(t),
                   "t200", "t200")

\* t200_expire
T200Expire(s) ==
    IF s.queue = <<>> /\ ~s.solicit THEN [s EXCEPT !.on["t200"] = "off"]
    ELSE IF s.retrans >= N200 THEN GiveUp([s EXCEPT !.on["t200"] = "off"])
    ELSE LET t == [s EXCEPT !.solicit = TRUE, !.retrans = @ + 1]
         IN  Start(IF s.queue = <<>> \/ s.busy THEN SendRR(t, TRUE, TRUE) ELSE RetransmitLast(t),
                   "t200", "t200")

\* Mutant: nothing guards the poll.
T203ExpireUnguarded(s) ==
    IF s.state # "established" THEN [s EXCEPT !.on["t203"] = "off"]
    ELSE SendRR([s EXCEPT !.solicit = TRUE, !.retrans = 0], TRUE, TRUE)

\* t203_expire: its poll is guarded by T200, kept as the T203 timer.
T203Expire(s) ==
    IF s.state # "established" THEN [s EXCEPT !.on["t203"] = "off"]
    ELSE Start(SendRR([s EXCEPT !.solicit = TRUE, !.retrans = 0], TRUE, TRUE), "t203", "t200")

\* __pri_schedule_run: the slot is freed, then its event called.
Fire(s, x) ==
    LET t == [s EXCEPT !.on[x] = "off"]
    IN  CASE s.on[x] = "t200" -> T200Expire(t)
          [] s.on[x] = "t203" -> T203Expire(t)
          [] s.on[x] = "sabme" -> SendSabme(t, TRUE)

-----------------------------------------------------------------------------
(* Reception.  "replies" is what layer 3 hands to the link while it works  *)
(* on the message: <<>> or one message.                                    *)

\* q921_dchannel_up
DchannelUp(s) ==
    LET t == Stop(s, "sabme")
    IN  SendQueued(Start([t EXCEPT !.sentrej = FALSE, !.state = "established"], "t203", "t203"))

\* q931_receive, then an RR if nothing carried the acknowledgement.
Deliver(s, data, replies) ==
    LET u == [s EXCEPT !.up = Append(@, data)]
        t == IF replies = <<>> THEN u ELSE TransmitIframe(u, Head(replies))
    IN  IF t.v_na # t.v_r THEN SendRR(t, FALSE, FALSE) ELSE t

\* Mutant: a frame further on in the window will do.
ExpectedSoon(s, f) == (f.ns - s.v_r) % Mod < K

Expected(s, f) == f.ns = s.v_r

\* q921_handle_iframe
HandleIframe(s, f, replies) ==
    LET c == [s EXCEPT !.solicit = FALSE]
        n == [c EXCEPT !.v_r = (@ + 1) % Mod, !.sentrej = FALSE]
        a == AckRx(n, f.nr, FALSE)
        r == IF f.p THEN SendRR(a, TRUE, FALSE)
             ELSE IF a.busy \/ a.retrans > 0 THEN SendRR(a, FALSE, FALSE) ELSE a
    IN  IF ~Expected(s, f)
        THEN IF ~s.sentrej THEN SendReject(c, f.p)
             ELSE IF f.p THEN SendRR(c, TRUE, FALSE) ELSE c
        ELSE IF ~InWindow(n, f.nr) THEN GiveUp(n) ELSE Deliver(r, f.data, replies)

\* The RR and RNR cases of __q921_receive_qualified.
ReceiveRR(s, f) ==
    LET b == [s EXCEPT !.busy = FALSE]
        a == AckRx(b, f.nr, TRUE)
        c == IF f.cmd THEN [a EXCEPT !.solicit = FALSE] ELSE a
    IN  IF ~InWindow(b, f.nr) THEN GiveUp(b)
        ELSE IF ~f.p THEN c
        ELSE IF f.cmd THEN SendRR(c, TRUE, FALSE) ELSE [c EXCEPT !.retrans = 0]

ReceiveRNR(s, f) ==
    LET b == [s EXCEPT !.busy = TRUE]
        a == AckRx(b, f.nr, FALSE)
        r == IF f.p /\ f.cmd THEN SendRR(a, TRUE, FALSE) ELSE a
    IN  IF ~InWindow(b, f.nr) THEN GiveUp(b)
        ELSE Again(Stop([r EXCEPT !.solicit = TRUE, !.retrans = 0], "t203"), "t200")

\* Frames sent again after a reject: from the one asked for on, the sent ones
\* and as many others as the window has room for; those stay marked unsent.
Resent(s, nr) ==
    {i \in DOMAIN s.queue : (\E j \in 1 .. i : s.queue[j].ns = nr) /\ (s.queue[i].sent \/ i \in Room(s))}

Resend(s, nr) ==
    LET again == Resent(s, nr)
    IN  [s EXCEPT !.windowlen = @ + Cardinality(again \cap Unsent(s)),
                  !.out = @ \o IFrames(s, Only(s.queue, again))]

\* The reject case: the result of q921_ack_rx is not looked at.
ReceiveREJ(s, f) ==
    LET b == [s EXCEPT !.solicit = @ /\ ~(s.busy /\ ~f.cmd), !.busy = FALSE]
        r == IF f.cmd /\ f.p THEN SendRR(b, TRUE, FALSE) ELSE b
        a == IF InWindow(r, f.nr) THEN AckRx(r, f.nr, FALSE) ELSE GiveUp(r)
        c == [a EXCEPT !.solicit = FALSE, !.retrans = 0]
        e == IF c.queue = <<>> THEN [c EXCEPT !.v_a = f.nr, !.v_s = f.nr] ELSE Resend(c, f.nr)
    IN  IF a.solicit /\ (f.cmd \/ ~f.p) THEN a ELSE Again(Stop(e, "t200"), "t203")

\* q921_restart after a DM or DISC: SABME follows when the timer expires.
LinkDown(s) == LinkStart([Reset(s) EXCEPT !.event = "down"], FALSE)

\* __q921_receive_qualified
Qualified(s, f, replies) ==
    CASE f.type \in {"I", "RR", "RNR", "REJ"} /\ s.state # "established" -> s
      [] f.type = "I" /\ s.state = "established" -> HandleIframe(s, f, replies)
      [] f.type = "RR" /\ s.state = "established" -> ReceiveRR(s, f)
      [] f.type = "RNR" /\ s.state = "established" -> ReceiveRNR(s, f)
      [] f.type = "REJ" /\ s.state = "established" -> ReceiveREJ(s, f)
      [] f.type = "SABME" -> DchannelUp(Transmit(s, UFrame("UA")))
      [] f.type = "UA" -> IF s.state = "awaiting" THEN DchannelUp(s) ELSE s
      [] f.type = "DM" -> LinkDown(s)
      [] f.type = "DISC" -> LinkDown(Transmit(s, UFrame("UA")))

\* __q921_receive: T203 starts again after every frame, in every state.
Receive(s, f, replies) == Again(Qualified(s, f, replies), "t203")

-----------------------------------------------------------------------------
\* __pri_new_tei: all zero.
Fresh == [state |-> "released", v_s |-> 0, v_a |-> 0, v_r |-> 0, v_na |-> 0, windowlen |-> 0,
          busy |-> FALSE, solicit |-> FALSE, retrans |-> 0, sentrej |-> FALSE, queue |-> <<>>,
          on |-> [t \in Timers |-> "off"],
          out |-> <<>>, up |-> <<>>, event |-> "none"]

\* The part of a station that outlives a step.
Settled(s) == [s EXCEPT !.out = <<>>, !.up = <<>>, !.event = "none"]
=============================================================================
