----------------------------- MODULE Q931Proofs -----------------------------
(***************************************************************************)
(* What holds of the calls of one span for every set of references and     *)
(* channels, on either side of the interface, whatever the network sends   *)
(* and Loads allows; AliveIsServed says itself that it is about a polite   *)
(* network.  The functions of q931.c are taken first, each as a lemma on   *)
(* the call it is given and the call it                                    *)
(* leaves; then the messages; then every step of Q931Span.  The inductive  *)
(* invariant Inv says, beyond the four properties, which calls can be met  *)
(* (Sound), that an established call is served also while an event waits   *)
(* for its handler, and what a RING and a HANGUP_REQ that waits still      *)
(* promises of its call.                                                   *)
(***************************************************************************)
EXTENDS Q931Span, TLAPS

Timers == {"off", "t313", "t305", "t308", "t308final"}
Watches == {"t305", "t308", "t308final"}

Wire == {"STATUS", "RELEASE", "RELEASE COMPLETE", "DISCONNECT", "CONNECT", "CONNECT ACKNOWLEDGE"}

Events == {"none", "RING", "HANGUP_REQ", "HANGUP", "HANGUP_ACK", "RINGING", "ANSWER", "PROCEEDING",
           "PROGRESS", "SETUP_ACK", "KEYPAD_DIGIT", "FACNAME", "NOTIFY"}

\* A call in the middle of a function of the library.
Raw == [our : CallStates, peer : PeerStates, alive : BOOLEAN, ack : BOOLEAN, acked : BOOLEAN, told : BOOLEAN,
        timer : Timers, tries : 0 .. 2, new : BOOLEAN,
        chan : Chans \cup {0}, sent : Seq(Wire), event : Events, gone : BOOLEAN]

Up(c) == c.alive /\ c.our # "NULL"

Watched(c) == c.told /\ c.our # "NULL" => c.timer \in Watches

Phases == {"none", "starting", "running", "ending", "ended"}

Quiet == {"NULL", "DISCONNECT_REQUEST", "DISCONNECT_INDICATION", "RELEASE_REQUEST"}

Fresh(c) ==
    /\ c.our = "NULL" /\ c.peer = "NULL" /\ c.chan = 0
    /\ ~c.alive /\ ~c.told /\ c.timer = "off" /\ c.tries = 0

Connected(c) ==
    /\ c.our \notin {"DISCONNECT_REQUEST", "RELEASE_REQUEST"}
    /\ c.our \in Ringing => c.peer \notin Quiet
    /\ c.our = "DISCONNECT_INDICATION" => c.peer = "DISCONNECT_REQUEST"

\* The timers of a call that may still be cleared for the first time.
Timed(c) ==
    /\ c.told => c.acked
    /\ c.timer = "t313" => ~c.told /\ c.tries = 0
    /\ c.timer \in {"t305", "t308"} => c.tries = 0

Sound(c) ==
    /\ Timed(c)
    /\ c.tries \in 0 .. 1
    /\ c.new => Fresh(c)
    /\ c.alive => ~c.told /\ c.timer \in {"off", "t313"} /\ c.tries = 0
    /\ Up(c) => Connected(c)
    /\ c.our = "NULL" => c.timer \in {"off", "t313"} /\ c.peer \in {"NULL", "RELEASE_REQUEST"}

-----------------------------------------------------------------------------
\* A message of the library goes out: the call stays one.
LEMMA SendIn ==
  ASSUME NEW c \in Raw, NEW m \in Wire
  PROVE  Send(c, m) \in Raw
<1> DEFINE s == Append(c.sent, m)
           t == c.told \/ m \in {"DISCONNECT", "RELEASE"}
<1>1. s \in Seq(Wire) /\ t \in BOOLEAN
  BY DEF Raw
<1>2. Send(c, m) = [c EXCEPT !.sent = s, !.acked = TRUE, !.told = t]
  BY DEF Send
<1> HIDE DEF s, t
<1>3. QED
  BY <1>1, <1>2 DEF Raw

\* An event is left for the application.
LEMMA TellIn ==
  ASSUME NEW c \in Raw, NEW e \in Events
  PROVE  Tell(c, e) \in Raw
  BY DEF Tell, Raw

\* A timer is started or stopped.
LEMMA TimerIn ==
  ASSUME NEW c \in Raw, NEW t \in Timers
  PROVE  Timer(c, t) \in Raw
  BY DEF Timer, Raw

\* UPDATE_OURCALLSTATE.
LEMMA StatesIn ==
  ASSUME NEW c \in Raw, NEW our \in CallStates, NEW peer \in PeerStates
  PROVE  States(c, our, peer) \in Raw
  BY DEF States, Raw

\* This end's state alone changes.
LEMMA OurIn ==
  ASSUME NEW c \in Raw, NEW our \in CallStates
  PROVE  [c EXCEPT !.our = our] \in Raw
  BY DEF Raw

\* The call is taken for alive or dead.
LEMMA AliveIn ==
  ASSUME NEW c \in Raw, NEW b \in BOOLEAN
  PROVE  [c EXCEPT !.alive = b] \in Raw
  BY DEF Raw

\* T308 ran out.
LEMMA TriesIn ==
  ASSUME NEW c \in Raw, NEW n \in 0 .. 2
  PROVE  [c EXCEPT !.tries = n, !.alive = TRUE] \in Raw
  BY DEF Raw

\* q931_destroy frees the record and takes back no event.
LEMMA DestroyIn ==
  ASSUME NEW c \in Raw
  PROVE  Destroy(c) \in Raw /\ Destroy(c).gone /\ Destroy(c).event = c.event
<1>1. Timer(c, "off") \in Raw
  BY TimerIn DEF Timers
<1> DEFINE t == Timer(c, "off")
<1>2. [t EXCEPT !.gone = TRUE] \in Raw
  BY <1>1 DEF Raw
<1>3. QED
  BY <1>2 DEF Destroy, Timer, Raw

-----------------------------------------------------------------------------
\* q931_release leaves a call.
LEMMA ReleaseIn ==
  ASSUME NEW c \in Raw
  PROVE  Release(c) \in Raw
<1> DEFINE r == [c EXCEPT !.our = "RELEASE_REQUEST"]
           s == [r EXCEPT !.alive = FALSE]
           t == IF c.tries = 0 THEN "t308" ELSE "t308final"
<1>1. r \in Raw
  BY OurIn DEF CallStates
<1>2. s \in Raw
  BY <1>1, AliveIn
<1>3. t \in Timers /\ "RELEASE" \in Wire /\ "RELEASE COMPLETE" \in Wire
  BY DEF Timers, Wire
<1> HIDE DEF r, s, t
<1>4. Send(Timer(s, t), "RELEASE") \in Raw /\ Send(s, "RELEASE COMPLETE") \in Raw
  BY <1>2, <1>3, TimerIn, SendIn
<1>5. QED
  BY <1>1, <1>4 DEF Release, r, s, t

\* q931_disconnect leaves a call.
LEMMA DisconnectIn ==
  ASSUME NEW c \in Raw
  PROVE  Disconnect(c) \in Raw
<1> DEFINE d == States(c, "DISCONNECT_REQUEST", "DISCONNECT_INDICATION")
           e == [d EXCEPT !.alive = FALSE, !.ack = TRUE]
<1>1. d \in Raw
  BY StatesIn DEF CallStates, PeerStates
<1>2. e \in Raw
  BY <1>1 DEF Raw
<1>3. "t305" \in Timers /\ "DISCONNECT" \in Wire
  BY DEF Timers, Wire
<1> HIDE DEF d, e
<1>4. Send(Timer(e, "t305"), "DISCONNECT") \in Raw
  BY <1>2, <1>3, TimerIn, SendIn
<1>5. QED
  BY <1>1, <1>4 DEF Disconnect, d, e

\* q931_release_complete frees the record.
LEMMA ReleaseCompleteIn ==
  ASSUME NEW c \in Raw
  PROVE  LET d == ReleaseComplete(c) IN d \in Raw /\ d.gone /\ d.event = c.event
<1> DEFINE n == States(c, "NULL", "NULL")
           s == Send(n, "RELEASE COMPLETE")
           a == [s EXCEPT !.alive = FALSE]
<1>1. n \in Raw /\ n.event = c.event
  <2>1. n \in Raw
    BY StatesIn DEF CallStates, PeerStates
  <2>2. QED
    BY <2>1 DEF States, Raw
<1>2. s \in Raw /\ s.event = c.event
  <2>1. s \in Raw
    BY <1>1, SendIn DEF Wire
  <2>2. QED
    BY <1>1, <2>1 DEF Send, Raw
<1>3. a \in Raw /\ a.event = c.event
  <2>1. a \in Raw
    BY <1>2, AliveIn
  <2>2. QED
    BY <1>2 DEF Raw
<1>4. ReleaseComplete(c) = Destroy(a)
  BY DEF ReleaseComplete
<1>5. QED
  BY <1>3, <1>4, DestroyIn

\* q931_release leaves a call that is cleared, and watched if it was or if it was alive.
LEMMA ReleaseClears ==
  ASSUME NEW c \in Raw, Timed(c), c.tries \in 0 .. 1, ~c.new, ~c.gone
  PROVE  LET d == Release(c)
         IN  /\ d.event = c.event /\ ~d.gone /\ ~d.new /\ d.chan = c.chan
             /\ Sound(d) /\ ~d.alive
             /\ c.alive \/ c.timer \in Watches => Watched(d)
<1>1. CASE ~c.alive
  BY <1>1 DEF Raw, Release, Sound, Timed, Fresh, Up, Connected, Watched, Watches
<1>2. CASE c.alive
  <2> DEFINE d == Release(c)
  <2>1. /\ d.our = "RELEASE_REQUEST" /\ ~d.alive /\ d.acked /\ d.told = (c.told \/ c.acked)
        /\ d.timer = IF ~c.acked THEN c.timer ELSE IF c.tries = 0 THEN "t308" ELSE "t308final"
        /\ d.tries = c.tries /\ d.new = c.new /\ d.chan = c.chan /\ d.event = c.event /\ d.gone = c.gone
    BY <1>2 DEF Release, Send, Timer, Raw
  <2> HIDE DEF d
  <2>2. QED
    BY <2>1 DEF d, Raw, Sound, Timed, Fresh, Up, Connected, Watched, Watches
<1>3. QED
  BY <1>1, <1>2

\* q931_disconnect leaves a call that is cleared, and watched if the peer hears of it now.
LEMMA DisconnectClears ==
  ASSUME NEW c \in Raw, Timed(c), c.tries \in 0 .. 1, ~c.new, ~c.gone, c.alive => c.tries = 0
  PROVE  LET d == Disconnect(c)
         IN  /\ d.event = c.event /\ ~d.gone /\ ~d.new /\ d.chan = c.chan
             /\ Sound(d) /\ ~d.alive
             /\ c.alive \/ c.timer \in Watches \/ ~c.told => Watched(d)
<1>1. CASE ~c.alive
  BY <1>1 DEF Raw, Disconnect, States, Sound, Timed, Fresh, Up, Connected, Watched, Watches
<1>2. CASE c.alive
  <2> DEFINE d == Disconnect(c)
  <2>1. /\ d.our = "DISCONNECT_REQUEST" /\ ~d.alive /\ d.acked /\ d.told
        /\ d.timer = "t305"
        /\ d.tries = c.tries /\ d.new = c.new /\ d.chan = c.chan /\ d.event = c.event /\ d.gone = c.gone
    BY <1>2 DEF Disconnect, States, Send, Timer, Raw
  <2> HIDE DEF d
  <2>2. QED
    BY <1>2, <2>1 DEF d, Raw, Sound, Timed, Fresh, Up, Connected, Watched, Watches
<1>3. QED
  BY <1>1, <1>2

\* The call is freed, or it is left cleared.
Cleared(c, d) ==
    /\ d \in Raw /\ d.event = c.event
    /\ ~d.gone => ~d.new /\ d.chan = c.chan /\ Sound(d) /\ ~Up(d)

\* q931_hangup frees the call or leaves it cleared, and watched if it was or if the
\* peer disconnected.
LEMMA HangupClears ==
  ASSUME NEW c \in Raw, Sound(c), ~c.gone, NEW by \in {"DISCONNECT", "RELEASE COMPLETE"}
  PROVE  LET d == Hangup(c, by)
         IN  /\ Cleared(c, d)
             /\ by = "DISCONNECT" /\ c.our # "NULL" => ~d.gone
             /\ ~d.gone /\ (Watched(c) \/ (c.our = "DISCONNECT_INDICATION" /\ c.peer = "DISCONNECT_REQUEST")) => Watched(d)
<1> DEFINE d == Hangup(c, by)
<1> USE DEF Cleared
<1>1. CASE c.our = "NULL"
  <2>1. CASE c.peer = "NULL"
    BY <1>1, <2>1, DestroyIn DEF Hangup, Ringing
  <2>2. CASE c.peer = "RELEASE_REQUEST"
    BY <1>1, <2>2, ReleaseCompleteIn DEF Hangup, Ringing
  <2>3. c.peer \in {"NULL", "RELEASE_REQUEST"}
    BY <1>1 DEF Sound
  <2>4. QED
    BY <2>1, <2>2, <2>3
<1>2. CASE c.our \in Ringing
  <2>1. c.our # "NULL" /\ ~c.new /\ (c.alive => c.tries = 0)
    BY <1>2 DEF Ringing, Sound, Fresh
  <2>2. CASE c.peer \in Quiet
    <3>1. d = c
      BY <1>2, <2>1, <2>2 DEF Hangup, Quiet, Ringing
    <3>2. ~Up(c)
      BY <1>2, <2>1, <2>2 DEF Sound, Connected
    <3>3. QED
      BY <1>2, <2>1, <3>1, <3>2 DEF Ringing
  <2>3. CASE c.peer \notin Quiet /\ by = "DISCONNECT"
    <3>1. d = Disconnect(c)
      BY <1>2, <2>1, <2>3 DEF Hangup, Quiet, Ringing
    <3>2. d \in Raw
      BY <3>1, DisconnectIn
    <3>3. Watched(c) => c.timer \in Watches \/ ~c.told
      BY <2>1 DEF Watched
    <3>4. QED
      BY <1>2, <2>1, <3>1, <3>2, <3>3, DisconnectClears DEF Sound, Up, Ringing
  <2>4. CASE c.peer \notin Quiet /\ by = "RELEASE COMPLETE"
    <3>1. d = ReleaseComplete(c)
      BY <1>2, <2>1, <2>4 DEF Hangup, Quiet, Ringing
    <3>2. QED
      BY <2>4, <3>1, ReleaseCompleteIn
  <2>5. QED
    BY <2>2, <2>3, <2>4
<1>3. CASE c.our = "ACTIVE"
  <2>1. ~c.new /\ (c.alive => c.tries = 0)
    BY <1>3 DEF Sound, Fresh
  <2>2. d = Disconnect(c)
    BY <1>3 DEF Hangup, Ringing
  <2>3. d \in Raw
    BY <2>2, DisconnectIn
  <2>4. Watched(c) => c.timer \in Watches \/ ~c.told
    BY <1>3 DEF Watched
  <2>5. QED
    BY <1>3, <2>1, <2>2, <2>3, <2>4, DisconnectClears DEF Sound, Up
<1>4. CASE c.our = "DISCONNECT_REQUEST"
  <2>1. ~c.new
    BY <1>4 DEF Sound, Fresh
  <2>2. d = Release(c)
    BY <1>4 DEF Hangup, Ringing
  <2>3. d \in Raw
    BY <2>2, ReleaseIn
  <2>4. Watched(c) => c.timer \in Watches \/ ~c.told
    BY <1>4 DEF Watched
  <2>5. ~c.told => ~Release(c).told
    <3>1. ~c.alive
      BY <1>4 DEF Sound, Up, Connected
    <3>2. QED
      BY <3>1 DEF Release, Raw
  <2>6. QED
    BY <1>4, <2>1, <2>2, <2>3, <2>4, <2>5, ReleaseClears DEF Sound, Up, Watched
<1>5. CASE c.our = "DISCONNECT_INDICATION"
  <2>1. ~c.new
    BY <1>5 DEF Sound, Fresh
  <2>2. CASE c.peer = "DISCONNECT_REQUEST"
    <3> DEFINE a == [c EXCEPT !.alive = TRUE]
    <3>1. a \in Raw /\ a.alive /\ Timed(a) /\ a.tries = c.tries /\ ~a.new /\ ~a.gone
      BY <2>1 DEF Raw, Sound, Timed
    <3>2. a.event = c.event /\ a.chan = c.chan
      BY DEF Raw
    <3>3. d = Release(a)
      BY <1>5, <2>2 DEF Hangup, Ringing
    <3> HIDE DEF a, d
    <3>4. d \in Raw
      BY <3>1, <3>3, ReleaseIn
    <3>5. QED
      BY <3>1, <3>2, <3>3, <3>4, ReleaseClears DEF Sound, Up, d
  <2>3. CASE c.peer # "DISCONNECT_REQUEST"
    <3>1. d = c
      BY <1>5, <2>3 DEF Hangup, Ringing
    <3>2. ~Up(c)
      BY <1>5, <2>3 DEF Sound, Connected
    <3>3. QED
      BY <2>1, <2>3, <3>1, <3>2
  <2>4. QED
    BY <2>2, <2>3
<1>6. CASE c.our = "RELEASE_REQUEST"
  <2>1. d = c
    BY <1>6 DEF Hangup, Ringing
  <2>2. ~Up(c) /\ ~c.new
    BY <1>6 DEF Sound, Connected, Fresh
  <2>3. QED
    BY <1>6, <2>1, <2>2
<1>7. c.our \in CallStates
  BY DEF Raw
<1>8. QED
  BY <1>1, <1>2, <1>3, <1>4, <1>5, <1>6, <1>7 DEF CallStates

\* q931_connect establishes a call that was never cleared.
LEMMA ConnectServes ==
  ASSUME NEW c \in Raw, Sound(c), ~c.gone, ~c.new, ~c.told, c.tries = 0
  PROVE  LET d == Connect(c)
         IN  /\ d \in Raw /\ ~d.gone /\ Sound(d) /\ Watched(d) /\ d.chan = c.chan
<1> DEFINE our == IF LocalNetwork THEN "ACTIVE" ELSE "CONNECT_REQUEST"
           t == IF LocalNetwork THEN "off" ELSE "t313"
           a == [c EXCEPT !.our = our, !.peer = "ACTIVE", !.alive = TRUE]
           d == Send(Timer(a, t), "CONNECT")
<1>1. our \in {"ACTIVE", "CONNECT_REQUEST"} /\ our \in CallStates /\ t \in {"off", "t313"} /\ t \in Timers
  BY DEF CallStates, Ringing, Timers
<1>2. Connect(c) = d
  BY DEF Connect
<1> HIDE DEF our, t
<1>3. d \in Raw
  <2>1. a \in Raw
    BY <1>1 DEF Raw, PeerStates, CallStates
  <2> HIDE DEF a
  <2>2. QED
    BY <1>1, <2>1, TimerIn, SendIn DEF Wire
<1>4. /\ d.our = our /\ d.peer = "ACTIVE" /\ d.alive /\ d.timer = t /\ ~d.told /\ d.acked
      /\ d.tries = 0 /\ ~d.new /\ ~d.gone /\ d.chan = c.chan
  BY DEF Send, Timer, Raw
<1> HIDE DEF d
<1>5. QED
  BY <1>1, <1>2, <1>3, <1>4 DEF Sound, Timed, Fresh, Up, Connected, Watched, Watches, Ringing, Quiet

-----------------------------------------------------------------------------
\* A timer that runs out frees the call or leaves it cleared and watched.
LEMMA ExpiredClears ==
  ASSUME NEW c \in Raw, Sound(c), ~c.gone, c.timer # "off", c.event = "none"
  PROVE  LET d == Expired(c)
         IN  /\ d \in Raw /\ d.event \in {"none", "HANGUP_ACK"}
             /\ ~d.gone => /\ d.event = "none" /\ ~d.new /\ d.chan = c.chan /\ Sound(d) /\ ~Up(d)
                           /\ Watched(c) => Watched(d)
<1> DEFINE d == Expired(c)
           f == Timer(c, "off")
<1>1. /\ f.our = c.our /\ f.peer = c.peer /\ f.alive = c.alive /\ f.acked = c.acked /\ f.told = c.told
      /\ f.timer = "off" /\ f.tries = c.tries /\ f.new = c.new /\ f.chan = c.chan /\ f.event = "none" /\ ~f.gone
  BY DEF Timer, Raw
<1>2. f \in Raw
  BY TimerIn DEF Timers
<1>3. Timed(f) /\ ~f.new /\ f.tries \in 0 .. 1
  BY <1>1 DEF Timed, Sound, Fresh
<1>4. CASE c.timer = "t313"
  <2>1. d = Disconnect(f)
    BY <1>4 DEF Expired
  <2>2. ~f.told /\ f.tries = 0
    BY <1>1, <1>4 DEF Sound, Timed
  <2> HIDE DEF d, f
  <2>3. d \in Raw
    BY <1>2, <2>1, DisconnectIn
  <2>4. QED
    BY <1>1, <1>2, <1>3, <2>1, <2>2, <2>3, DisconnectClears DEF d, Up
<1>5. ASSUME NEW g \in Raw, d = Release(g), Timed(g), g.tries \in 0 .. 1, ~g.new, ~g.gone, g.alive,
             g.event = "none", g.chan = c.chan
      PROVE  /\ d \in Raw /\ d.event = "none"
             /\ ~d.new /\ d.chan = c.chan /\ Sound(d) /\ ~Up(d) /\ Watched(d)
  <2> HIDE DEF d
  <2>1. d \in Raw
    BY <1>5, ReleaseIn
  <2>2. QED
    BY <1>5, <2>1, ReleaseClears DEF Up
<1>6. CASE c.timer = "t305"
  <2> DEFINE g == [f EXCEPT !.alive = TRUE]
  <2> HIDE DEF f
  <2>1. d = Release(g)
    BY <1>6 DEF Expired, f
  <2>2. g \in Raw
    BY <1>2, AliveIn
  <2>3. g.alive /\ ~g.new /\ ~g.gone /\ g.event = "none" /\ g.chan = c.chan /\ g.tries = f.tries /\ Timed(g)
    BY <1>1, <1>2, <1>3 DEF Timed, Raw
  <2> HIDE DEF d, g
  <2>4. QED
    BY <1>3, <1>5, <2>1, <2>2, <2>3 DEF d
<1>7. CASE c.timer = "t308"
  <2> DEFINE g == [f EXCEPT !.tries = f.tries + 1, !.alive = TRUE]
  <2>0. f.tries = 0
    BY <1>1, <1>7 DEF Sound, Timed
  <2> HIDE DEF f
  <2>1. d = Release(g)
    BY <1>7 DEF Expired, f
  <2>2. g \in Raw
    <3>1. f.tries + 1 \in 0 .. 2
      BY <2>0
    <3>2. QED
      BY <1>2, <3>1, TriesIn
  <2>3. g.alive /\ ~g.new /\ ~g.gone /\ g.event = "none" /\ g.chan = c.chan /\ g.tries = 1 /\ Timed(g)
    BY <1>1, <1>2, <1>3, <2>0 DEF Timed, Raw
  <2> HIDE DEF d, g
  <2>4. QED
    BY <1>5, <2>1, <2>2, <2>3 DEF d
<1>8. CASE c.timer = "t308final"
  <2> DEFINE g == [f EXCEPT !.tries = f.tries + 1, !.alive = TRUE]
             s == States(g, "NULL", "NULL")
             t == Tell(s, "HANGUP_ACK")
  <2> HIDE DEF f
  <2>1. d = Destroy(t)
    BY <1>8 DEF Expired, f
  <2>2. g \in Raw
    <3>1. f.tries + 1 \in 0 .. 2
      BY <1>3
    <3>2. QED
      BY <1>2, <3>1, TriesIn
  <2> HIDE DEF g
  <2>3. s \in Raw
    BY <2>2, StatesIn DEF CallStates, PeerStates
  <2> HIDE DEF s
  <2>4. t \in Raw /\ t.event = "HANGUP_ACK"
    <3>1. "HANGUP_ACK" \in Events
      BY DEF Events
    <3>2. QED
      BY <2>3, <3>1, TellIn DEF Tell, Raw
  <2> HIDE DEF t, d
  <2>5. QED
    BY <2>1, <2>4, DestroyIn DEF d
<1>9. c.timer \in Timers
  BY DEF Raw
<1>10. QED
  BY <1>4, <1>6, <1>7, <1>8, <1>9 DEF Timers

-----------------------------------------------------------------------------
\* A call that is offered to the application.
Offered(c) ==
    /\ c.our = "CALL_PRESENT" /\ c.peer = "CALL_INITIATED"
    /\ ~c.alive /\ ~c.new /\ ~c.told /\ c.timer = "off" /\ c.tries = 0

\* What a message may make of call c.  One a polite network sends (regular) makes no
\* call established and moves none to another channel.
Handled(regular, c, d) ==
    /\ d \in Raw
    /\ d.event \notin {"none", "HANGUP_ACK"} => ~d.gone
    /\ ~d.gone => Sound(d) /\ (~c.new => ~d.new)
    /\ ~d.gone /\ regular => (Up(d) => Up(c) /\ d.chan = c.chan)
    /\ d.event # "RING"
    /\ d.event = "HANGUP_REQ" => Up(d)

\* A new call is offered to the application on the channel of its SETUP.
Rings(c, m, d) ==
    /\ d \in Raw /\ d.event = "RING" /\ ~d.gone
    /\ c.new /\ Offered(d) /\ d.chan = m.chan

\* The calls and messages a handler meets.
Met(c) == c \in Raw /\ Sound(c) /\ ~c.gone /\ c.event = "none"

\* A message may free any call.
LEMMA FreedIsHandled ==
  ASSUME NEW regular \in BOOLEAN, NEW c, NEW b \in Raw, b.event = "none"
  PROVE  /\ Handled(regular, c, ReleaseComplete(b)) /\ ReleaseComplete(b).gone /\ ReleaseComplete(b).event = "none"
         /\ Handled(regular, c, Destroy(b)) /\ Destroy(b).gone
<1> DEFINE d == ReleaseComplete(b)
           e == Destroy(b)
<1>1. d \in Raw /\ d.gone /\ d.event = "none" /\ e \in Raw /\ e.gone /\ e.event = "none"
  BY ReleaseCompleteIn, DestroyIn
<1> HIDE DEF d, e
<1>2. Handled(regular, c, d) /\ Handled(regular, c, e)
  BY <1>1 DEF Handled
<1>3. QED
  BY <1>1, <1>2 DEF d, e

\* The end of a STATUS and of a RELEASE COMPLETE frees a dead call and reports a live one.
LEMMA FinishHandles ==
  ASSUME NEW regular \in BOOLEAN, NEW c, NEW n \in Raw, n.our = "NULL", n.peer = "NULL", n.event = "none", ~n.gone, n.alive => Sound(n),
         ~c.new => ~n.new
  PROVE  LET d == Finish(n)
         IN  Handled(regular, c, d) /\ (~d.gone => Watched(d))
<1> DEFINE d == Finish(n)
<1>2. CASE n.alive
  <2> DEFINE a == [n EXCEPT !.alive = FALSE]
  <2>1. a \in Raw /\ Sound(a) /\ ~a.gone /\ a.our = "NULL" /\ a.new = n.new
    BY <1>2 DEF Raw, Sound, Timed, Fresh, Up, Connected
  <2> HIDE DEF a
  <2>2. d = Tell(a, "HANGUP")
    BY <1>2 DEF Finish, a
  <2>3. "HANGUP" \in Events
    BY DEF Events
  <2>4. d \in Raw
    BY <2>1, <2>2, <2>3, TellIn
  <2>5. Sound(d) /\ ~d.gone /\ d.our = "NULL" /\ d.event = "HANGUP" /\ d.new = n.new
    BY <2>1, <2>2 DEF Tell, Raw, Sound, Timed, Fresh, Up, Connected
  <2> HIDE DEF d
  <2>6. QED
    BY <2>4, <2>5 DEF Handled, Up, Watched, d
<1>3. CASE ~n.alive
  <2> DEFINE t == IF n.ack THEN Tell(n, "HANGUP_ACK") ELSE n
  <2>1. t \in Raw
    <3>1. "HANGUP_ACK" \in Events
      BY DEF Events
    <3>2. QED
      BY <3>1, TellIn
  <2>2. t.our = "NULL" /\ t.peer = "NULL" /\ t.event \in {"none", "HANGUP_ACK"}
    BY DEF Tell, Raw
  <2>3. d = Hangup(t, "DISCONNECT")
    BY <1>3 DEF Finish
  <2> HIDE DEF t, d
  <2>4. d = Destroy(t)
    BY <2>2, <2>3 DEF Hangup, Ringing
  <2>5. d \in Raw /\ d.gone /\ d.event \in {"none", "HANGUP_ACK"}
    BY <2>1, <2>2, <2>4, DestroyIn
  <2>6. QED
    BY <2>5 DEF Handled, d
<1>4. QED
  BY <1>2, <1>3 DEF Raw

\* A call told of a new state by a message the network sent.
LEMMA ToldState ==
  ASSUME NEW c, Met(c), ~c.new,
         NEW our \in CallStates, NEW peer \in PeerStates,
         our \notin {"NULL", "DISCONNECT_REQUEST", "RELEASE_REQUEST", "DISCONNECT_INDICATION"},
         our \in Ringing => peer \notin Quiet
  PROVE  LET d == States(c, our, peer)
         IN  /\ Met(d) /\ ~d.new /\ d.chan = c.chan /\ d.told = c.told
             /\ c.our # "NULL" => Up(d) = Up(c) /\ (Watched(c) => Watched(d))
<1> DEFINE d == States(c, our, peer)
<1>1. d \in Raw
  BY StatesIn DEF Met
<1>2. /\ d.our = our /\ d.peer = peer /\ d.alive = c.alive /\ d.told = c.told /\ d.timer = c.timer
      /\ d.acked = c.acked /\ d.tries = c.tries /\ ~d.new /\ d.chan = c.chan /\ d.event = "none" /\ ~d.gone
  BY DEF States, Met, Raw
<1> HIDE DEF d
<1>3. QED
  BY <1>1, <1>2 DEF d, Met, Sound, Timed, Fresh, Up, Connected, Watched

\* An event but RING, HANGUP_REQ and HANGUP_ACK may be reported for any call that stays.
LEMMA TellHandles ==
  ASSUME NEW regular \in BOOLEAN, NEW c, NEW b, Met(b), NEW e \in Events \ {"RING", "HANGUP_REQ", "HANGUP_ACK"},
         regular => (Up(b) => Up(c) /\ b.chan = c.chan), ~c.new => ~b.new
  PROVE  Handled(regular, c, Tell(b, e)) /\ (Watched(b) => Watched(Tell(b, e)))
<1> DEFINE d == Tell(b, e)
<1>1. d \in Raw
  BY TellIn DEF Met
<1>2. /\ d.our = b.our /\ d.peer = b.peer /\ d.alive = b.alive /\ d.told = b.told /\ d.timer = b.timer
      /\ d.acked = b.acked /\ d.tries = b.tries /\ d.new = b.new /\ d.chan = b.chan /\ d.event = e /\ ~d.gone
  BY DEF Tell, Met, Raw
<1> HIDE DEF d
<1>3. QED
  BY <1>1, <1>2 DEF d, Met, Handled, Sound, Timed, Fresh, Up, Connected, Watched

\* A message may leave the call alone.
LEMMA SameHandles ==
  ASSUME NEW regular \in BOOLEAN, NEW c, NEW b, Met(b),
         regular => (Up(b) => Up(c) /\ b.chan = c.chan), ~c.new => ~b.new
  PROVE  Handled(regular, c, b)
  BY DEF Met, Handled

\* Answering a message that does not clear leaves the call as it was.
LEMMA SendHandles ==
  ASSUME NEW regular \in BOOLEAN, NEW c, NEW b \in Raw, Sound(b), ~b.gone, b.event \in Events \ {"RING", "HANGUP_REQ", "HANGUP_ACK"}, ~b.new,
         NEW m \in Wire \ {"DISCONNECT", "RELEASE"},
         regular => (Up(b) => Up(c) /\ b.chan = c.chan)
  PROVE  Handled(regular, c, Send(b, m)) /\ (Watched(b) => Watched(Send(b, m)))
<1> DEFINE d == Send(b, m)
<1>1. d \in Raw
  BY SendIn
<1>2. /\ d.our = b.our /\ d.peer = b.peer /\ d.alive = b.alive /\ d.timer = b.timer
      /\ d.acked /\ d.tries = b.tries /\ d.new = b.new /\ d.chan = b.chan /\ d.event = b.event /\ ~d.gone
  BY DEF Send, Raw
<1>3. d.told = b.told
  <2> DEFINE s == Append(b.sent, m)
             t == b.told \/ m \in {"DISCONNECT", "RELEASE"}
  <2>1. t = b.told
    BY DEF Raw
  <2>2. d = [b EXCEPT !.sent = s, !.acked = TRUE, !.told = t]
    BY DEF Send
  <2> HIDE DEF s, t, d
  <2>3. QED
    BY <2>1, <2>2 DEF Raw
<1> HIDE DEF d
<1>4. QED
  BY <1>1, <1>2, <1>3 DEF d, Handled, Sound, Timed, Fresh, Up, Connected, Watched

-----------------------------------------------------------------------------
\* A SETUP rings for a new call, and only for a new call.
LEMMA SetupHandles ==
  ASSUME NEW regular \in BOOLEAN, NEW c, Met(c), NEW m, m.bad \in {"no", "missing", "bearer"}, m.chan \in Chans,
         regular /\ c.our # "NULL" => m.chan = c.chan
  PROVE  LET d == HandleSetup([c EXCEPT !.chan = m.chan], m)
         IN  \/ Handled(regular, c, d) /\ (~d.gone /\ Watched(c) => Watched(d))
             \/ Rings(c, m, d)
<1> DEFINE b == [c EXCEPT !.chan = m.chan]
           k == [b EXCEPT !.new = FALSE, !.alive = FALSE]
           n == States(k, "CALL_PRESENT", "CALL_INITIATED")
           d == HandleSetup(b, m)
<1>1. b \in Raw /\ b.event = "none"
  BY DEF Met, Raw
<1>2. CASE m.bad = "missing"
  <2>1. d = ReleaseComplete(b)
    BY <1>2 DEF HandleSetup
  <2> HIDE DEF b, d
  <2>2. QED
    BY <1>1, <2>1, FreedIsHandled DEF b, d
<1>3. CASE m.bad # "missing" /\ ~c.new
  <2>1. b.new = c.new
    BY DEF Met, Raw
  <2>2. d = b
    BY <1>3, <2>1 DEF HandleSetup
  <2>3. Met(b) /\ ~b.new /\ (regular => (Up(b) => Up(c) /\ b.chan = c.chan)) /\ (Watched(c) => Watched(b))
    BY <1>1, <1>3 DEF Met, Raw, Sound, Timed, Fresh, Up, Connected, Watched
  <2> HIDE DEF b, d
  <2>4. QED
    BY <2>2, <2>3, SameHandles DEF b, d, Met
<1>4. CASE m.bad # "missing" /\ c.new
  <2>1. k \in Raw
    BY <1>1 DEF Raw
  <2>2. n \in Raw
    <3> HIDE DEF k
    <3>1. QED
      BY <2>1, StatesIn DEF CallStates, PeerStates, Ringing
  <2>3. /\ n.our = "CALL_PRESENT" /\ n.peer = "CALL_INITIATED" /\ ~n.alive /\ ~n.new /\ ~n.told
        /\ n.timer = "off" /\ n.tries = 0 /\ n.chan = m.chan /\ n.event = "none" /\ ~n.gone
    BY <1>4 DEF States, Met, Raw, Sound, Fresh
  <2>4. b.new
    BY <1>4 DEF Met, Raw
  <2>5. CASE m.bad = "bearer"
    <3>1. d = ReleaseComplete(n)
      BY <2>4, <2>5 DEF HandleSetup
    <3> HIDE DEF b, d, n
    <3>2. QED
      BY <2>2, <2>3, <3>1, FreedIsHandled DEF b, d
  <2>6. CASE m.bad = "no"
    <3>1. d = Tell(n, "RING")
      BY <2>4, <2>6 DEF HandleSetup
    <3> HIDE DEF b, d, n
    <3>2. d \in Raw
      <4>1. "RING" \in Events
        BY DEF Events
      <4>2. QED
        BY <2>2, <3>1, <4>1, TellIn
    <3>3. Offered(d) /\ ~d.gone /\ d.event = "RING" /\ d.chan = m.chan
      BY <2>2, <2>3, <3>1 DEF Tell, Raw, Offered
    <3>4. QED
      BY <1>4, <3>2, <3>3 DEF Rings, b, d
  <2>7. QED
    BY <1>4, <2>5, <2>6
<1>5. QED
  BY <1>2, <1>3, <1>4

\* What prepare_to_handle leaves of a call whose timer it stops.
LEMMA StoppedIsMet ==
  ASSUME NEW c, Met(c)
  PROVE  LET b == Timer(c, "off")
         IN  /\ Met(b) /\ b.timer = "off" /\ b.our = c.our /\ b.peer = c.peer /\ b.alive = c.alive /\ b.told = c.told
             /\ b.new = c.new /\ b.chan = c.chan /\ Up(b) = Up(c)
<1> DEFINE b == Timer(c, "off")
<1>1. b \in Raw
  BY TimerIn DEF Met, Timers
<1>2. /\ b.timer = "off" /\ b.our = c.our /\ b.peer = c.peer /\ b.alive = c.alive /\ b.told = c.told
      /\ b.acked = c.acked /\ b.tries = c.tries
      /\ b.new = c.new /\ b.chan = c.chan /\ b.event = "none" /\ ~b.gone
  BY DEF Met, Raw, Timer
<1> HIDE DEF b
<1>3. QED
  BY <1>1, <1>2 DEF b, Met, Sound, Timed, Fresh, Up, Connected, Watched

\* A RELEASE leaves a call in the null state, no longer established.
LEMMA ReleaseHandles ==
  ASSUME NEW regular \in BOOLEAN, NEW c, NEW b, Met(b), b.timer = "off"
  PROVE  LET d == HandleRelease(b)
         IN  Handled(regular, c, d) /\ (~d.gone => Watched(d))
<1> DEFINE p == IF b.our = "RELEASE_REQUEST" THEN "NULL" ELSE "RELEASE_REQUEST"
           r == States(b, "NULL", p)
           d == HandleRelease(b)
<1>1. p \in {"NULL", "RELEASE_REQUEST"}
  OBVIOUS
<1>2. p \in PeerStates /\ "NULL" \in CallStates
  BY DEF PeerStates, CallStates
<1>3. d = IF b.new THEN ReleaseComplete(r) ELSE Tell(r, "HANGUP")
  BY DEF HandleRelease
<1> HIDE DEF p
<1>4. r \in Raw
  BY <1>2, StatesIn DEF Met
<1>5. /\ r.our = "NULL" /\ r.peer = p /\ r.alive = b.alive /\ r.told = b.told /\ r.timer = "off"
      /\ r.acked = b.acked /\ r.tries = b.tries /\ r.new = b.new /\ r.chan = b.chan /\ r.event = "none" /\ ~r.gone
  BY DEF States, Met, Raw
<1> HIDE DEF r, d
<1>6. CASE b.new
  BY <1>3, <1>4, <1>5, <1>6, FreedIsHandled DEF d
<1>7. CASE ~b.new
  <2>1. Met(r) /\ ~Up(r) /\ Watched(r)
    BY <1>1, <1>4, <1>5, <1>7 DEF Met, Sound, Timed, Fresh, Up, Connected, Watched
  <2>2. "HANGUP" \in Events
    BY DEF Events
  <2>3. Handled(regular, c, Tell(r, "HANGUP")) /\ Watched(Tell(r, "HANGUP"))
    BY <1>5, <1>7, <2>1, <2>2, TellHandles
  <2>4. QED
    BY <1>3, <1>7, <2>3 DEF d
<1>8. QED
  BY <1>6, <1>7

\* A DISCONNECT is reported for an established call and answered at once for another.
LEMMA DisconnectHandles ==
  ASSUME NEW regular \in BOOLEAN, NEW c, NEW b, Met(b), b.timer = "off", ~b.new, regular => b.our # "NULL",
         Up(b) = Up(c), b.chan = c.chan
  PROVE  LET d == HandleDisconnect(b)
         IN  Handled(regular, c, d) /\ (~d.gone => Watched(d))
<1> DEFINE n == States(b, "DISCONNECT_INDICATION", "DISCONNECT_REQUEST")
           k == [n EXCEPT !.ack = TRUE]
           d == HandleDisconnect(b)
<1>1. k \in Raw
  <2>1. n \in Raw
    BY StatesIn DEF Met, CallStates, PeerStates
  <2> HIDE DEF n
  <2>2. QED
    BY <2>1 DEF Raw
<1>2. /\ k.our = "DISCONNECT_INDICATION" /\ k.peer = "DISCONNECT_REQUEST" /\ k.alive = b.alive /\ k.told = b.told
      /\ k.timer = "off" /\ k.acked = b.acked /\ k.tries = b.tries /\ ~k.new /\ k.chan = b.chan /\ k.event = "none"
      /\ ~k.gone
  BY DEF States, Met, Raw
<1>3. d = IF b.alive THEN Tell(k, "HANGUP_REQ") ELSE Hangup(k, "DISCONNECT")
  BY DEF HandleDisconnect
<1> HIDE DEF k, d
<1>4. Sound(k)
  BY <1>2 DEF Met, Sound, Timed, Fresh, Up, Connected, Ringing
<1>5. CASE b.alive
  <2> DEFINE t == Tell(k, "HANGUP_REQ")
  <2>1. t \in Raw
    <3>1. "HANGUP_REQ" \in Events
      BY DEF Events
    <3>2. QED
      BY <1>1, <3>1, TellIn
  <2>2. /\ t.our = k.our /\ t.peer = k.peer /\ t.alive = k.alive /\ t.told = k.told /\ t.timer = k.timer
        /\ t.acked = k.acked /\ t.tries = k.tries /\ t.new = k.new /\ t.chan = k.chan /\ t.event = "HANGUP_REQ"
        /\ ~t.gone
    BY <1>1, <1>2 DEF Tell, Raw
  <2> HIDE DEF t
  <2>3. Sound(t) /\ Up(t) /\ (b.our # "NULL" => Up(b)) /\ ~t.told
    BY <1>2, <1>4, <1>5, <2>2 DEF Sound, Timed, Fresh, Up, Connected
  <2>4. Handled(regular, c, t) /\ Watched(t)
    BY <1>2, <2>1, <2>2, <2>3 DEF Handled, Watched
  <2>5. QED
    BY <1>3, <1>5, <2>4 DEF d, t
<1>6. CASE ~b.alive
  <2>1. d = Hangup(k, "DISCONNECT")
    BY <1>3, <1>6
  <2>2. Cleared(k, d) /\ (~d.gone => Watched(d))
    BY <1>1, <1>2, <1>4, <2>1, HangupClears
  <2>3. QED
    BY <1>2, <2>2 DEF Cleared, Handled, d
<1>7. QED
  BY <1>5, <1>6

\* A STATUS frees the call, ends it, or leaves it alone.
LEMMA StatusHandles ==
  ASSUME NEW regular \in BOOLEAN, NEW c, Met(c), NEW m, m.bad \in {"no", "missing", "null"}
  PROVE  LET d == HandleStatus(c, m)
         IN  Handled(regular, c, d) /\ (~d.gone /\ Watched(c) => Watched(d))
<1>1. CASE m.bad = "missing"
  <2>1. Status(c) \in Raw /\ Status(c).event = "none"
    <3>1. Status(c) \in Raw
      BY SendIn DEF Met, Status, Wire
    <3>2. QED
      BY <3>1 DEF Status, Send, Met, Raw
  <2>2. QED
    BY <1>1, <2>1, FreedIsHandled DEF HandleStatus
<1>2. CASE m.bad # "missing" /\ c.new
  BY <1>2, FreedIsHandled DEF HandleStatus, Met
<1>3. CASE m.bad = "null" /\ ~c.new
  <2> DEFINE n == States(c, "NULL", "NULL")
             d == Finish(n)
  <2>1. n \in Raw
    BY StatesIn DEF Met, CallStates, PeerStates
  <2>2. /\ n.our = "NULL" /\ n.peer = "NULL" /\ n.alive = c.alive /\ n.told = c.told /\ n.timer = c.timer
        /\ n.acked = c.acked /\ n.tries = c.tries /\ ~n.new /\ n.event = "none" /\ ~n.gone
    BY <1>3 DEF States, Met, Raw
  <2>3. HandleStatus(c, m) = d
    BY <1>3 DEF HandleStatus
  <2> HIDE DEF n
  <2>4. n.alive => Sound(n)
    BY <1>3, <2>2 DEF Met, Sound, Timed, Fresh, Up, Connected
  <2>5. Handled(regular, c, d) /\ (~d.gone => Watched(d))
    BY <1>3, <2>1, <2>2, <2>4, FinishHandles
  <2>6. QED
    BY <2>3, <2>5
<1>4. CASE m.bad = "no" /\ ~c.new
  BY <1>4, SameHandles DEF HandleStatus
<1>5. QED
  BY <1>1, <1>2, <1>3, <1>4

\* The states a message may call for.
LEMMA KnownHandles ==
  ASSUME NEW regular \in BOOLEAN, NEW c, Met(c), ~c.new, NEW m, m.type \in KnownOnly \ {"CONNECT ACKNOWLEDGE"},
         regular => c.our # "NULL" \/ m.type \notin Revives
  PROVE  LET d == HandleKnown(c, m)
         IN  /\ Handled(regular, c, d)
             /\ ~d.gone /\ Watched(c) /\ (c.our # "NULL" \/ m.type \notin Revives) => Watched(d)
<1> DEFINE d == HandleKnown(c, m)
<1>1. Handled(regular, c, Status(c)) /\ (Watched(c) => Watched(Status(c)))
  <2>1. "STATUS" \in Wire \ {"DISCONNECT", "RELEASE"} /\ "none" \in Events \ {"RING", "HANGUP_REQ", "HANGUP_ACK"}
    BY DEF Wire, Events
  <2>2. QED
    BY <2>1, SendHandles DEF Status, Met
<1>2. /\ {"RINGING", "ANSWER", "PROCEEDING", "PROGRESS", "SETUP_ACK", "KEYPAD_DIGIT", "FACNAME"}
             \subseteq Events \ {"RING", "HANGUP_REQ", "HANGUP_ACK"}
      /\ "CONNECT ACKNOWLEDGE" \in Wire \ {"DISCONNECT", "RELEASE"}
  BY DEF Wire, Events
<1>3. ASSUME NEW e \in {"PROGRESS", "KEYPAD_DIGIT", "FACNAME"}
      PROVE  Handled(regular, c, Tell(c, e)) /\ (Watched(c) => Watched(Tell(c, e)))
  BY <1>2, TellHandles
<1>4. ASSUME NEW our \in {"CALL_DELIVERED", "ACTIVE", "OUTGOING_PROCEEDING", "OVERLAP_SENDING"},
             NEW peer \in {"CALL_RECEIVED", "CONNECT_REQUEST", "INCOMING_PROCEEDING", "OVERLAP_RECEIVING"},
             NEW e \in {"RINGING", "ANSWER", "PROCEEDING", "SETUP_ACK"}, regular => c.our # "NULL"
      PROVE  LET t == Tell(States(c, our, peer), e)
             IN  Handled(regular, c, t) /\ (c.our # "NULL" /\ Watched(c) => Watched(t))
  <2> DEFINE s == States(c, our, peer)
  <2>1. our \in CallStates /\ peer \in PeerStates
    BY DEF CallStates, PeerStates, Ringing
  <2>2. our \notin {"NULL", "DISCONNECT_REQUEST", "RELEASE_REQUEST", "DISCONNECT_INDICATION"} /\ peer \notin Quiet
    BY DEF Quiet
  <2>3. /\ Met(s) /\ ~s.new /\ s.chan = c.chan
        /\ c.our # "NULL" => Up(s) = Up(c) /\ (Watched(c) => Watched(s))
    <3>1. our \in Ringing => peer \notin Quiet
      BY <2>2
    <3>2. QED
      BY <2>1, <2>2, <3>1, ToldState
  <2> HIDE DEF s
  <2>4. QED
    BY <1>2, <1>4, <2>3, TellHandles DEF s
<1>5. CASE m.type = "CONNECT" /\ c.our # "ACTIVE"
  <2> DEFINE s == States(c, "ACTIVE", "CONNECT_REQUEST")
             t == Tell(s, "ANSWER")
             w == Send(t, "CONNECT ACKNOWLEDGE")
  <2>1. "ACTIVE" \in CallStates /\ "CONNECT_REQUEST" \in PeerStates /\ "CONNECT_REQUEST" \notin Quiet
    BY DEF CallStates, PeerStates, Ringing, Quiet
  <2>2. Met(s) /\ (c.our # "NULL" => Up(s) = Up(c) /\ s.chan = c.chan /\ (Watched(c) => Watched(s)))
    <3>1. "ACTIVE" \notin {"NULL", "DISCONNECT_REQUEST", "RELEASE_REQUEST", "DISCONNECT_INDICATION"}
      OBVIOUS
    <3>2. QED
      BY <2>1, <3>1, ToldState
  <2>0. regular => c.our # "NULL"
    BY <1>5 DEF Revives
  <2>3. s.new = c.new
    BY DEF States, Met, Raw
  <2> HIDE DEF s
  <2>4. Handled(regular, c, t) /\ (c.our # "NULL" /\ Watched(c) => Watched(t))
    BY <1>2, <2>0, <2>2, <2>3, TellHandles
  <2>5. t.new = s.new /\ ~t.gone /\ t.event = "ANSWER"
    BY <2>2 DEF Tell, Met, Raw
  <2> HIDE DEF t
  <2>6. Handled(regular, c, w) /\ (c.our # "NULL" /\ Watched(c) => Watched(w))
    BY <1>2, <2>3, <2>4, <2>5, SendHandles DEF Handled
  <2>7. d = w
    BY <1>5 DEF HandleKnown, s, t
  <2>8. QED
    BY <1>5, <2>6, <2>7 DEF Revives
<1>6. CASE m.type = "CONNECT" /\ c.our = "ACTIVE"
  BY <1>1, <1>6 DEF HandleKnown
<1>7. CASE m.type = "ALERTING"
  BY <1>4, <1>7 DEF HandleKnown, Revives
<1>8. CASE m.type = "CALL PROCEEDING"
  BY <1>1, <1>4, <1>8 DEF HandleKnown
<1>9. CASE m.type = "PROGRESS"
  BY <1>1, <1>3, <1>9 DEF HandleKnown
<1>10. CASE m.type = "SETUP ACKNOWLEDGE"
  BY <1>4, <1>10 DEF HandleKnown, Revives
<1>11. CASE m.type \in {"INFORMATION", "FACILITY"}
  BY <1>3, <1>11 DEF HandleKnown
<1>12. CASE m.type = "STATUS ENQUIRY"
  BY <1>1, <1>12 DEF HandleKnown
<1>13. QED
  BY <1>5, <1>6, <1>7, <1>8, <1>9, <1>10, <1>11, <1>12 DEF KnownOnly

\* The acknowledgement finds the timer stopped.
LEMMA AckHandles ==
  ASSUME NEW regular \in BOOLEAN, NEW c, Met(c), ~c.new, NEW m, m.type = "CONNECT ACKNOWLEDGE"
  PROVE  LET d == HandleKnown(c, m)
         IN  Handled(regular, c, d) /\ (~d.gone /\ Watched(c) => Watched(d))
<1> DEFINE s == States(c, "ACTIVE", "ACTIVE")
<1>1. Handled(regular, c, Status(c)) /\ (Watched(c) => Watched(Status(c)))
  <2>1. "STATUS" \in Wire \ {"DISCONNECT", "RELEASE"} /\ "none" \in Events \ {"RING", "HANGUP_REQ", "HANGUP_ACK"}
    BY DEF Wire, Events
  <2>2. QED
    BY <2>1, SendHandles DEF Status, Met
<1>2. "ACTIVE" \in CallStates /\ "ACTIVE" \in PeerStates /\ "ACTIVE" \notin Ringing
  BY DEF CallStates, PeerStates, Ringing
<1>3. Met(s) /\ ~s.new /\ s.chan = c.chan /\ (c.our # "NULL" => Up(s) = Up(c) /\ (Watched(c) => Watched(s)))
  BY <1>2, ToldState
<1>4. c.our # "NULL" => Handled(regular, c, s)
  BY <1>3, SameHandles
<1> HIDE DEF s
<1>5. HandleKnown(c, m) = Status(c) \/ (HandleKnown(c, m) = s /\ c.our # "NULL")
  BY DEF HandleKnown, s
<1>6. QED
  BY <1>1, <1>3, <1>4, <1>5

-----------------------------------------------------------------------------
\* A polite network may send m for call c.
Regular(c, m) ==
    /\ c.our = "NULL" /\ ~c.new => m.type \notin Revives
    /\ m.type = "SETUP" /\ c.our # "NULL" => m.chan = c.chan

\* The message stops the timer of a clearing, or revives the call.
Late(c, m) ==
    \/ m.type = "CONNECT ACKNOWLEDGE" /\ c.timer \in Watches
    \/ c.our = "NULL" /\ ~c.new /\ m.type \in Revives

\* q931_receive leaves a sound call or none, whatever it is sent.
LEMMA ReceivedIsHandled ==
  ASSUME NEW c, Met(c), NEW m \in Messages, NEW regular \in BOOLEAN, regular => Regular(c, m)
  PROVE  LET d == Received(c, m)
         IN  \/ Handled(regular, c, d) /\ (~d.gone /\ Watched(c) => Watched(d) \/ Late(c, m))
             \/ m.type = "SETUP" /\ Rings(c, m, d)
<1> DEFINE d == Received(c, m)
           b == Timer(c, "off")
           n == States(b, "NULL", "NULL")
<1>a. c.new => c.our = "NULL"
  BY DEF Met, Sound, Fresh
<1>b. /\ Met(b) /\ b.timer = "off" /\ b.our = c.our /\ b.peer = c.peer /\ b.alive = c.alive /\ b.told = c.told
      /\ b.new = c.new /\ b.chan = c.chan /\ Up(b) = Up(c)
  BY StoppedIsMet
<1>c. ASSUME NEW x, Handled(regular, b, x)
      PROVE  Handled(regular, c, x)
  BY <1>b, <1>c DEF Handled
<1>e. m.type \in {"SETUP", "RELEASE", "RELEASE COMPLETE", "DISCONNECT", "STATUS", "NOTIFY", "PROGRESS"} \cup KnownOnly
  BY DEF Messages, KnownOnly
<1>1. CASE m.type = "SETUP"
  <2>1. d = HandleSetup([c EXCEPT !.chan = m.chan], m)
    BY <1>1 DEF Received, Prepare, Handle, KnownOnly
  <2>2. m.bad \in {"no", "missing", "bearer"} /\ m.chan \in Chans
    BY <1>1 DEF Messages, KnownOnly
  <2> HIDE DEF d
  <2>3. QED
    BY <1>1, <2>1, <2>2, SetupHandles DEF Regular, d
<1>2. CASE m.type = "RELEASE"
  <2>1. d = HandleRelease(b)
    BY <1>2 DEF Received, Prepare, Handle, KnownOnly
  <2> HIDE DEF d, b
  <2>2. Handled(regular, c, d) /\ (~d.gone => Watched(d))
    BY <1>b, <2>1, ReleaseHandles
  <2>3. QED
    BY <2>2 DEF d
<1>3. CASE m.type = "RELEASE COMPLETE"
  <2>1. d = Finish(n)
    BY <1>3 DEF Received, Prepare, Handle, KnownOnly
  <2> HIDE DEF b
  <2>2. n \in Raw
    BY <1>b, StatesIn DEF Met, CallStates, PeerStates
  <2>3. /\ n.our = "NULL" /\ n.peer = "NULL" /\ n.alive = b.alive /\ n.told = b.told /\ n.timer = b.timer
        /\ n.acked = b.acked /\ n.tries = b.tries /\ n.new = b.new /\ n.event = "none" /\ ~n.gone
    BY <1>b DEF States, Met, Raw
  <2> HIDE DEF n
  <2>4. n.alive => Sound(n)
    BY <1>b, <2>3 DEF Met, Sound, Timed, Fresh, Up, Connected
  <2> HIDE DEF d
  <2>5. Handled(regular, c, d) /\ (~d.gone => Watched(d))
    BY <1>b, <2>1, <2>2, <2>3, <2>4, FinishHandles
  <2>6. QED
    BY <2>5 DEF d
<1>4. CASE m.type = "DISCONNECT"
  <2>1. d = IF b.new THEN ReleaseComplete(b) ELSE HandleDisconnect(b)
    BY <1>4 DEF Received, Prepare, Handle, KnownOnly
  <2> HIDE DEF d, b
  <2>2. CASE b.new
    BY <1>b, <2>1, <2>2, FreedIsHandled DEF d, Met
  <2>3. CASE ~b.new
    <3>1. regular => c.our # "NULL"
      BY <1>4, <1>b, <2>3 DEF Regular, Revives
    <3>2. Handled(regular, c, d) /\ (~d.gone => Watched(d))
      BY <1>b, <2>1, <2>3, <3>1, DisconnectHandles
    <3>3. QED
      BY <1>b, <2>3, <3>2 DEF d
  <2>4. QED
    BY <2>2, <2>3
<1>5. CASE m.type = "STATUS"
  <2>1. d = HandleStatus(c, m)
    BY <1>5 DEF Received, Prepare, Handle, KnownOnly
  <2>2. m.bad \in {"no", "missing", "null"}
    BY <1>5 DEF Messages, KnownOnly
  <2> HIDE DEF d
  <2>4. Handled(regular, c, d) /\ (~d.gone /\ Watched(c) => Watched(d))
    BY <2>1, <2>2, StatusHandles
  <2>5. QED
    BY <2>4 DEF d
<1>6. CASE m.type = "NOTIFY"
  <2>1. d = Tell(c, "NOTIFY")
    BY <1>6 DEF Received, Prepare, Handle, KnownOnly
  <2>2. "NOTIFY" \in Events \ {"RING", "HANGUP_REQ", "HANGUP_ACK"}
    BY DEF Events
  <2> HIDE DEF d
  <2>4. Handled(regular, c, d) /\ (Watched(c) => Watched(d))
    BY <2>1, <2>2, TellHandles
  <2>5. QED
    BY <2>4 DEF d
<1>7. CASE m.type = "PROGRESS" /\ m.bad = "missing"
  <2>1. d = Destroy(Status(c))
    BY <1>7 DEF Received, Prepare, Handle, KnownOnly
  <2>2. Status(c) \in Raw /\ Status(c).event = "none"
    <3>1. Status(c) \in Raw
      BY SendIn DEF Met, Status, Wire
    <3>2. QED
      BY <3>1 DEF Status, Send, Met, Raw
  <2> HIDE DEF d
  <2>3. Handled(regular, c, d) /\ d.gone
    BY <2>1, <2>2, FreedIsHandled
  <2>4. QED
    BY <2>3 DEF d
<1>8. CASE m.type \in KnownOnly /\ ~(m.type = "PROGRESS" /\ m.bad = "missing")
  <2>0. m.type = "PROGRESS" => m.bad = "no"
    BY <1>8 DEF Messages, KnownOnly
  <2>1. CASE m.type = "CONNECT ACKNOWLEDGE"
    <3>1. d = IF b.new THEN ReleaseComplete(b) ELSE HandleKnown(b, m)
      BY <2>1 DEF Received, Prepare, Handle, KnownOnly
    <3> HIDE DEF d, b
    <3>2. CASE b.new
      BY <1>b, <3>1, <3>2, FreedIsHandled DEF d, Met
    <3>3. CASE ~b.new
      <4>2. Handled(regular, c, d) /\ (~d.gone /\ Watched(b) => Watched(d))
        BY <1>b, <1>c, <2>1, <3>1, <3>3, AckHandles
      <4>3. Watched(c) /\ c.timer \notin Watches => Watched(b)
        BY <1>b DEF Watched
      <4>4. QED
        BY <1>b, <2>1, <3>3, <4>2, <4>3 DEF d, Late
    <3>4. QED
      BY <3>2, <3>3
  <2>2. CASE m.type # "CONNECT ACKNOWLEDGE"
    <3>1. d = IF c.new THEN ReleaseComplete(c) ELSE HandleKnown(c, m)
      BY <1>8, <2>0, <2>2 DEF Received, Prepare, Handle, KnownOnly
    <3> HIDE DEF d
    <3>2. CASE c.new
      BY <3>1, <3>2, FreedIsHandled DEF d, Met
    <3>3. CASE ~c.new
      <4>1. regular => c.our # "NULL" \/ m.type \notin Revives
        BY <3>3 DEF Regular
      <4>2. /\ Handled(regular, c, d)
            /\ ~d.gone /\ Watched(c) /\ (c.our # "NULL" \/ m.type \notin Revives) => Watched(d)
        BY <1>8, <2>2, <3>1, <3>3, <4>1, KnownHandles
      <4>3. QED
        BY <3>3, <4>2 DEF d, Late
    <3>4. QED
      BY <3>2, <3>3
  <2>3. QED
    BY <2>1, <2>2
<1>9. \/ m.type \in {"SETUP", "RELEASE", "RELEASE COMPLETE", "DISCONNECT", "STATUS", "NOTIFY"}
      \/ m.type = "PROGRESS" /\ m.bad = "missing"
      \/ m.type \in KnownOnly /\ ~(m.type = "PROGRESS" /\ m.bad = "missing")
  BY <1>e DEF KnownOnly
<1> HIDE DEF b, d, n
<1>10. QED
  BY <1>1, <1>2, <1>3, <1>4, <1>5, <1>6, <1>7, <1>8, <1>9 DEF d

-----------------------------------------------------------------------------
(* The calls between steps.                                                *)

\* A call between steps is one in the middle of a function.
LEMMA CallIsRaw == Call \subseteq Raw
<1>1. SUFFICES ASSUME NEW c \in Call PROVE c \in Raw
  OBVIOUS
<1>2. <<>> \in Seq(Wire) /\ None \in Events
  BY DEF Events, None
<1>3. {<<>>} \subseteq Seq(Wire) /\ {None} \subseteq Events /\ {FALSE} \subseteq BOOLEAN /\ 0 .. 1 \subseteq 0 .. 2
  BY <1>2
<1> DEFINE E == {<<>>}
           N == {None}
           F == {FALSE}
<1>4. c \in [our : CallStates, peer : PeerStates, alive : BOOLEAN, ack : BOOLEAN, acked : BOOLEAN, told : BOOLEAN,
              timer : Timers, tries : 0 .. 1, new : BOOLEAN, chan : Chans \cup {0}, sent : E, event : N, gone : F]
  BY DEF Call, Timers
<1>5. E \subseteq Seq(Wire) /\ N \subseteq Events /\ F \subseteq BOOLEAN
  BY <1>3
<1> HIDE DEF E, N, F
<1>6. QED
  BY <1>3, <1>4, <1>5 DEF Raw

\* A new record is one a message may meet, and is neither established nor to be watched.
LEMMA NewCallIsMet == Met(NewCall) /\ NoCall.gone /\ ~Up(NewCall) /\ Watched(NewCall)
<1>1. NewCall \in Raw
  <2>1. <<>> \in Seq(Wire) /\ "none" \in Events /\ "NULL" \in CallStates /\ "NULL" \in PeerStates /\ "off" \in Timers
    BY DEF Events, CallStates, PeerStates, Timers
  <2>2. QED
    BY <2>1 DEF NewCall, Raw
<1>2. NoCall.gone
  BY <1>1, DestroyIn DEF NoCall
<1>3. Sound(NewCall) /\ ~Up(NewCall) /\ Watched(NewCall)
  BY DEF NewCall, Sound, Timed, Fresh, Up, Connected, Watched
<1>4. QED
  BY <1>1, <1>2, <1>3 DEF Met, NewCall

\* A call keeps all but what it sent and reported.
LEMMA KeptIsCall ==
  ASSUME NEW d \in Raw, Sound(d), ~d.gone
  PROVE  LET k == Kept(d)
         IN  /\ k \in Call /\ Met(k) /\ k.chan = d.chan /\ Up(k) = Up(d) /\ Watched(k) = Watched(d)
             /\ k.new = d.new /\ Offered(k) = Offered(d)
<1> DEFINE k == Kept(d)
<1>1. d.tries \in 0 .. 1
  BY DEF Sound
<1>2. k \in Call
  BY <1>1 DEF Kept, Raw, Call, Timers, None
<1>3. /\ k.our = d.our /\ k.peer = d.peer /\ k.alive = d.alive /\ k.told = d.told /\ k.timer = d.timer
      /\ k.acked = d.acked /\ k.tries = d.tries /\ k.new = d.new /\ k.chan = d.chan /\ k.event = "none" /\ ~k.gone
  BY DEF Kept, Raw
<1> HIDE DEF k
<1>4. Sound(k) /\ Up(k) = Up(d) /\ Watched(k) = Watched(d) /\ Offered(k) = Offered(d)
  BY <1>3 DEF Sound, Timed, Fresh, Up, Connected, Watched, Offered
<1>5. QED
  BY <1>2, <1>3, <1>4, CallIsRaw DEF k, Met

-----------------------------------------------------------------------------
(* The inductive invariant.                                                *)

TypeInv ==
    /\ calls \in [Refs -> Call \cup {NoCall}]
    /\ stored \in [Chans -> Refs \cup {None, Freed}]
    /\ media \in [Chans -> Phases]
    /\ need_hangup \in BOOLEAN
    /\ joining \in {0} \cup Chans
    /\ late \subseteq Live
    /\ polite \in BOOLEAN
    /\ astray \in BOOLEAN

CallsInv ==
    \A r \in Live : Sound(calls[r]) /\ (IF r \in late THEN ~calls[r].new ELSE Watched(calls[r]))

\* An established call is the stored one of its channel, on every step of the way, if
\* the network has been polite.
ServedInv ==
    polite => \A r \in Live :
        Up(calls[r]) =>
            /\ calls[r].chan \in Chans
            /\ media[calls[r].chan] # "none"
            /\ stored[calls[r].chan] = r

\* A call whose RING is not handled yet is offered on a channel, one no established call
\* has if the network has been polite.
RingInv ==
    event.type = "RING" =>
        /\ event.call \in Live \ late
        /\ Offered(calls[event.call])
        /\ calls[event.call].chan \in Chans
        /\ polite => \A q \in Live : Up(calls[q]) => calls[q].chan # calls[event.call].chan

\* A call whose HANGUP_REQ is not handled yet is still up.
HangupInv == event.type = "HANGUP_REQ" => event.call \in Live /\ Up(calls[event.call])

Inv == TypeInv /\ CallsInv /\ ServedInv /\ RingInv /\ HangupInv /\ EventNamesLiveCall

\* Any record in the table may be met by a message or a timer.
LEMMA LiveIsMet ==
  ASSUME TypeInv, CallsInv, NEW r \in Live
  PROVE  calls[r] \in Call /\ Met(calls[r])
<1>1. calls[r] \in Call
  BY NewCallIsMet DEF TypeInv, Live
<1>2. QED
  BY <1>1, CallIsRaw DEF CallsInv, Call, Met, None

\* What the end of a step leaves of the table and of the stored calls.
LEMMA BecomesKeeps ==
  ASSUME TypeInv, CallsInv, NEW r \in Refs, NEW d \in Raw, ~d.gone => Sound(d),
         NEW kept \in [Chans -> Refs \cup {None, Freed}], Becomes(r, d, kept)
  PROVE  /\ calls' \in [Refs -> Call \cup {NoCall}]
         /\ stored' \in [Chans -> Refs \cup {None, Freed}]
         /\ \A ch \in Chans : kept[ch] # r \/ ~d.gone => stored'[ch] = kept[ch]
         /\ \A q \in Refs \ {r} : calls'[q] = calls[q]
         /\ Live' = IF d.gone THEN Live \ {r} ELSE Live \cup {r}
         /\ ~d.gone => /\ Met(calls'[r]) /\ calls'[r].chan = d.chan /\ Up(calls'[r]) = Up(d)
                       /\ Watched(calls'[r]) = Watched(d) /\ Offered(calls'[r]) = Offered(d)
                       /\ calls'[r].new = d.new
<1>1. calls' = [calls EXCEPT ![r] = IF d.gone THEN NoCall ELSE Kept(d)]
  BY DEF Becomes
<1>2. stored' = [ch \in Chans |-> IF d.gone /\ kept[ch] = r THEN Freed ELSE kept[ch]]
  BY DEF Becomes
<1>3. calls \in [Refs -> Call \cup {NoCall}]
  BY DEF TypeInv
<1>4. ~d.gone => /\ Kept(d) \in Call /\ Met(Kept(d)) /\ Kept(d).chan = d.chan /\ Up(Kept(d)) = Up(d)
                 /\ Watched(Kept(d)) = Watched(d) /\ Offered(Kept(d)) = Offered(d) /\ Kept(d).new = d.new
  BY KeptIsCall
<1>5. calls' \in [Refs -> Call \cup {NoCall}]
  BY <1>1, <1>3, <1>4
<1>6. calls'[r] = (IF d.gone THEN NoCall ELSE Kept(d)) /\ \A q \in Refs \ {r} : calls'[q] = calls[q]
  BY <1>1, <1>3
<1>7. stored' \in [Chans -> Refs \cup {None, Freed}]
  BY <1>2
<1>8. \A ch \in Chans : kept[ch] # r \/ ~d.gone => stored'[ch] = kept[ch]
  BY <1>2
<1>9. Live' = IF d.gone THEN Live \ {r} ELSE Live \cup {r}
  <2>1. Live' = {q \in Refs : ~calls'[q].gone}
    BY DEF Live
  <2>2. calls'[r].gone = d.gone
    <3>1. CASE d.gone
      BY <1>6, <3>1, NewCallIsMet DEF Raw, NoCall, Destroy, NewCall, Timer
    <3>2. CASE ~d.gone
      BY <1>4, <1>6, <3>2 DEF Raw, Met
    <3>3. QED
      BY <3>1, <3>2
  <2>3. QED
    BY <1>6, <2>1, <2>2 DEF Live, Raw
<1>10. QED
  BY <1>4, <1>5, <1>6, <1>7, <1>8, <1>9

-----------------------------------------------------------------------------
(* Every step keeps the invariant.                                         *)

\* A step of the library on one call, with the channels as they were.
LEMMA OneCallSteps ==
  ASSUME Inv, NEW r \in Refs, NEW d \in Raw, ~d.gone => Sound(d), Becomes(r, d, stored),
         media' \in [Chans -> Phases],
         polite' => \A ch \in Chans : media[ch] # "none" /\ stored[ch] # r => media'[ch] # "none",
         UNCHANGED <<need_hangup, joining, astray>>, polite' \in BOOLEAN, polite' => polite,
         polite' /\ ~d.gone /\ Up(d) => UNCHANGED media /\ r \in Live /\ Up(calls[r]) /\ d.chan = calls[r].chan,
         late' \subseteq Live', \A q \in Live' \ {r} : q \in late <=> q \in late',
         ~d.gone => IF r \in late' THEN ~d.new ELSE Watched(d)
  PROVE  TypeInv' /\ CallsInv' /\ ServedInv'
<1> USE DEF Inv
<1>1. stored \in [Chans -> Refs \cup {None, Freed}]
  BY DEF TypeInv
<1>2. /\ calls' \in [Refs -> Call \cup {NoCall}]
      /\ stored' \in [Chans -> Refs \cup {None, Freed}]
      /\ \A ch \in Chans : stored[ch] # r \/ ~d.gone => stored'[ch] = stored[ch]
      /\ \A q \in Refs \ {r} : calls'[q] = calls[q]
      /\ Live' = IF d.gone THEN Live \ {r} ELSE Live \cup {r}
      /\ ~d.gone => /\ Met(calls'[r]) /\ calls'[r].chan = d.chan /\ Up(calls'[r]) = Up(d)
                    /\ Watched(calls'[r]) = Watched(d) /\ calls'[r].new = d.new
  BY <1>1, BecomesKeeps
<1>3. TypeInv'
  BY <1>2 DEF TypeInv
<1>4. ASSUME NEW q \in Live', q # r
      PROVE  q \in Live /\ calls'[q] = calls[q]
  BY <1>2, <1>4 DEF Live
<1>5. r \in Live' => ~d.gone
  BY <1>2
<1>6. CallsInv'
  <2>1. SUFFICES ASSUME NEW q \in Live'
                 PROVE  Sound(calls'[q]) /\ (IF q \in late' THEN ~calls'[q].new ELSE Watched(calls'[q]))
    BY DEF CallsInv
  <2>2. CASE q = r
    BY <1>2, <1>5, <2>2 DEF Met
  <2>3. CASE q # r
    BY <1>4, <2>3 DEF CallsInv
  <2>4. QED
    BY <2>2, <2>3
<1>7. ServedInv'
  <2>1. SUFFICES ASSUME polite', NEW q \in Live', Up(calls'[q])
                 PROVE  /\ calls'[q].chan \in Chans
                        /\ media'[calls'[q].chan] # "none"
                        /\ stored'[calls'[q].chan] = q
    BY DEF ServedInv
  <2>2. CASE q = r
    <3>1. ~d.gone /\ Up(d) /\ r \in Live /\ Up(calls[r]) /\ calls'[r].chan = calls[r].chan /\ UNCHANGED media
      BY <1>2, <1>5, <2>1, <2>2
    <3>2. QED
      BY <1>2, <2>1, <2>2, <3>1 DEF ServedInv
  <2>3. CASE q # r
    BY <1>2, <1>4, <2>1, <2>3 DEF ServedInv
  <2>4. QED
    BY <2>2, <2>3
<1>8. QED
  BY <1>3, <1>6, <1>7

\* A message, whatever it is and whichever call it is for.
LEMMA ReceiveKeeps ==
  ASSUME Inv, NEW r \in Refs, Receive(r)
  PROVE  Inv'
<1> USE DEF Inv
<1> DEFINE c == IF r \in Live THEN calls[r] ELSE NewCall
<1>1. Met(c)
  BY LiveIsMet, NewCallIsMet
<1>2. Up(c) => r \in Live /\ c = calls[r]
  BY NewCallIsMet
<1>3. IF r \in late THEN ~c.new ELSE Watched(c)
  <2>1. late \subseteq Live
    BY DEF TypeInv
  <2>2. QED
    BY <2>1, NewCallIsMet DEF CallsInv
<1>4. PICK m \in Messages :
         /\ polite' = (polite /\ Polite(r, m))
         /\ Becomes(r, Received(c, m), stored)
         /\ Returns(r, Received(c, m))
         /\ late' = IF Received(c, m).gone THEN late \ {r}
                    ELSE IF TooLate(r, m) THEN late \cup {r} ELSE late
  BY DEF Receive
<1>5. event = NoEvent /\ UNCHANGED <<media, need_hangup, joining, astray>>
  BY DEF Receive, Idle
<1>0. c.new => c.our = "NULL"
  BY <1>1 DEF Met, Sound, Fresh
<1>6. polite' => Regular(c, m) /\ (m.type = "SETUP" /\ c.new => m.chan \notin Busy)
  <2>1. r \notin Live => c.new /\ c.our = "NULL"
    BY DEF NewCall
  <2>2. r \in Live => c = calls[r]
    OBVIOUS
  <2> HIDE DEF c
  <2>3. QED
    BY <1>0, <1>4, <2>1, <2>2 DEF Polite, Regular, Released
<1> DEFINE d == Received(c, m)
<1>24. polite' \in BOOLEAN /\ (polite' => polite)
  BY <1>4 DEF TypeInv
<1>7. \/ Handled(polite', c, d) /\ (~d.gone /\ Watched(c) => Watched(d) \/ Late(c, m))
      \/ m.type = "SETUP" /\ Rings(c, m, d)
  BY <1>1, <1>6, <1>24, ReceivedIsHandled
<1>8. TooLate(r, m) <=> Late(c, m)
  <2>1. r \notin Live => c.new /\ c.timer \notin Watches
    BY DEF NewCall, Watches
  <2>2. r \in Live => c = calls[r]
    OBVIOUS
  <2> HIDE DEF c
  <2>3. QED
    BY <2>1, <2>2 DEF TooLate, Late, Released, Watches
<1> HIDE DEF c, d
<1>10. d \in Raw /\ (~d.gone => Sound(d)) /\ (d.event \notin {"none", "HANGUP_ACK"} => ~d.gone)
  <2>1. CASE Handled(polite', c, d)
    BY <2>1 DEF Handled
  <2>2. CASE Rings(c, m, d)
    <3>1. Sound(d)
      BY <2>2 DEF Rings, Offered, Sound, Timed, Fresh, Up, Connected
    <3>2. QED
      BY <2>2, <3>1 DEF Rings
  <2>3. QED
    BY <1>7, <2>1, <2>2
<1>11. d.event = "RING" => Rings(c, m, d) /\ m.type = "SETUP"
  BY <1>7 DEF Handled
<1>12. polite' /\ ~d.gone /\ Up(d) => r \in Live /\ Up(calls[r]) /\ d.chan = calls[r].chan
  BY <1>2, <1>7 DEF Handled, Rings, Offered, Up
<1>13. Live' = IF d.gone THEN Live \ {r} ELSE Live \cup {r}
  BY <1>4, <1>10, BecomesKeeps DEF d, TypeInv
<1>14. late' \subseteq Live' /\ (\A q \in Live' \ {r} : q \in late <=> q \in late')
  <2>1. late \subseteq Live
    BY DEF TypeInv
  <2>2. QED
    BY <1>4, <1>13, <2>1 DEF d
<1>15. ~d.gone => IF r \in late' THEN ~d.new ELSE Watched(d)
  <2>1. ASSUME ~d.gone, r \notin late'
        PROVE  Watched(d)
    <3>1. r \notin late /\ ~Late(c, m)
      BY <1>4, <1>8, <2>1 DEF d
    <3>2. CASE Rings(c, m, d)
      BY <3>2 DEF Rings, Offered, Watched
    <3>3. QED
      BY <1>3, <1>7, <2>1, <3>1, <3>2
  <2>2. ASSUME ~d.gone, r \in late'
        PROVE  ~d.new
    <3>1. r \in late \/ Late(c, m)
      BY <1>4, <1>8, <2>2 DEF d
    <3>2. ~c.new
      BY <1>1, <1>3, <3>1 DEF Late, Met, Sound, Fresh, Watches
    <3>3. QED
      BY <1>7, <2>2, <3>2 DEF Handled, Rings
  <2>3. QED
    BY <2>1, <2>2
<1>16. TypeInv' /\ CallsInv' /\ ServedInv'
  <2>2. media \in [Chans -> Phases]
    BY DEF TypeInv
  <2>3. Becomes(r, d, stored)
    BY <1>4 DEF d
  <2>4. QED
    BY <1>5, <1>10, <1>12, <1>14, <1>15, <1>24, <2>2, <2>3, OneCallSteps
<1>17. /\ \A q \in Refs \ {r} : calls'[q] = calls[q]
       /\ ~d.gone => /\ calls'[r].chan = d.chan /\ Up(calls'[r]) = Up(d) /\ Offered(calls'[r]) = Offered(d)
  BY <1>4, <1>10, BecomesKeeps DEF d, TypeInv
<1>18. event' = CASE d.event = "none" -> NoEvent
                  [] d.event \in Told -> [type |-> d.event, call |-> r]
                  [] OTHER -> [type |-> "other", call |-> r]
  BY <1>4 DEF d, Returns
<1>19. /\ event'.type \in {"none", "other"} \cup Told
       /\ event'.type \in Told => event'.type = d.event
       /\ event'.type # "none" => event'.call = r /\ d.event # "none"
       /\ event'.type = "other" => d.event \notin {"none", "HANGUP_ACK"}
  BY <1>18 DEF Told, NoEvent
<1>20. RingInv'
  <2>1. SUFFICES ASSUME event'.type = "RING"
                 PROVE  /\ r \in Live' \ late'
                        /\ Offered(calls'[r])
                        /\ calls'[r].chan \in Chans
                        /\ polite' => \A q \in Live' : Up(calls'[q]) => calls'[q].chan # calls'[r].chan
    BY <1>19 DEF RingInv
  <2>2. Rings(c, m, d) /\ m.type = "SETUP"
    BY <1>11, <1>19, <2>1 DEF Told
  <2>3. ~d.gone /\ r \in Live' /\ Offered(calls'[r]) /\ calls'[r].chan = m.chan /\ m.chan \in Chans
    BY <1>13, <1>17, <2>2 DEF Rings, Messages, KnownOnly
  <2>7. polite' => m.chan \notin Busy
    BY <1>6, <2>2 DEF Rings
  <2>6. r \notin late'
    <3>1. ~Late(c, m) /\ r \notin late
      BY <1>0, <1>3, <2>2 DEF Rings, Late
    <3>2. QED
      BY <1>4, <1>8, <3>1
  <2>4. ASSUME polite', NEW q \in Live', Up(calls'[q])
        PROVE  calls'[q].chan # m.chan
    <3>1. q # r
      BY <2>3, <2>4 DEF Offered, Up
    <3>2. q \in Live /\ calls'[q] = calls[q]
      BY <1>17, <2>4, <3>1 DEF Live
    <3>3. calls[q].chan \in Busy
      BY <2>4, <3>2 DEF Busy, Released, Up
    <3>4. QED
      BY <2>4, <2>7, <3>2, <3>3
  <2>5. QED
    BY <2>3, <2>4, <2>6
<1>21. HangupInv'
  <2>1. SUFFICES ASSUME event'.type = "HANGUP_REQ"
                 PROVE  r \in Live' /\ Up(calls'[r])
    BY <1>19 DEF HangupInv
  <2>2. d.event = "HANGUP_REQ"
    BY <1>19, <2>1 DEF Told
  <2>3. ~d.gone /\ Up(d)
    BY <1>7, <1>10, <2>2 DEF Handled, Rings
  <2>4. QED
    BY <1>13, <1>17, <2>3
<1>22. EventNamesLiveCall'
  <2>1. SUFFICES ASSUME event'.type \notin {"none", "HANGUP_ACK"}
                 PROVE  r \in Live'
    BY <1>19 DEF EventNamesLiveCall
  <2>2. d.event \notin {"none", "HANGUP_ACK"}
    BY <1>19, <2>1 DEF Told
  <2>3. QED
    BY <1>10, <1>13, <2>2
<1>23. QED
  BY <1>16, <1>20, <1>21, <1>22

\* A timer of libpri.
LEMMA TimerKeeps ==
  ASSUME Inv, NEW r \in Refs, TimerRuns(r)
  PROVE  Inv'
<1> USE DEF Inv
<1> DEFINE d == Expired(calls[r])
<1>1. /\ event = NoEvent /\ r \in Live /\ calls[r].timer # "off"
      /\ Becomes(r, d, stored) /\ Returns(r, d)
      /\ late' = IF d.gone THEN late \ {r} ELSE late
      /\ UNCHANGED <<media, need_hangup, joining, polite, astray>>
  BY DEF TimerRuns, Idle
<1>2. Met(calls[r]) /\ (r \notin late => Watched(calls[r]))
  BY <1>1, LiveIsMet DEF CallsInv
<1>3. /\ d \in Raw /\ d.event \in {"none", "HANGUP_ACK"}
      /\ ~d.gone => /\ d.event = "none" /\ ~d.new /\ Sound(d) /\ ~Up(d)
                    /\ Watched(calls[r]) => Watched(d)
  BY <1>1, <1>2, ExpiredClears DEF Met
<1> HIDE DEF d
<1>4. Live' = IF d.gone THEN Live \ {r} ELSE Live \cup {r}
  BY <1>1, <1>3, BecomesKeeps DEF TypeInv
<1>5. TypeInv' /\ CallsInv' /\ ServedInv'
  <2>2. media \in [Chans -> Phases] /\ late \subseteq Live /\ polite' \in BOOLEAN /\ (polite' => polite)
    BY <1>1 DEF TypeInv
  <2>3. late' \subseteq Live' /\ (\A q \in Live' \ {r} : q \in late <=> q \in late')
    BY <1>1, <1>4, <2>2
  <2>4. ~d.gone => IF r \in late' THEN ~d.new ELSE Watched(d)
    BY <1>1, <1>2, <1>3
  <2>5. QED
    BY <1>1, <1>3, <2>2, <2>3, <2>4, OneCallSteps
<1>6. event'.type \in {"none", "HANGUP_ACK"}
  <2>1. event' = CASE d.event = "none" -> NoEvent
                   [] d.event \in Told -> [type |-> d.event, call |-> r]
                   [] OTHER -> [type |-> "other", call |-> r]
    BY <1>1 DEF Returns
  <2>2. QED
    BY <1>3, <2>1 DEF Told, NoEvent
<1>7. RingInv' /\ HangupInv' /\ EventNamesLiveCall'
  BY <1>6 DEF RingInv, HangupInv, EventNamesLiveCall
<1>8. QED
  BY <1>5, <1>7

\* The handlers answer the event they were called for.
LEMMA EventIsGone ==
  ASSUME event' = NoEvent
  PROVE  RingInv' /\ HangupInv' /\ EventNamesLiveCall'
  BY DEF NoEvent, RingInv, HangupInv, EventNamesLiveCall

\* The call on_ring has before it.
LEMMA RungCall ==
  ASSUME Inv, event.type = "RING"
  PROVE  LET r == event.call
         IN  /\ r \in Refs /\ r \in Live \ late /\ Met(calls[r]) /\ Offered(calls[r]) /\ Watched(calls[r])
             /\ ~Up(calls[r]) /\ calls[r].chan \in Chans
             /\ polite => \A q \in Live : Up(calls[q]) => calls[q].chan # calls[r].chan
<1>1. event.call \in Live \ late /\ event.call \in Refs
  BY DEF Inv, RingInv, Live
<1>2. Met(calls[event.call])
  BY <1>1, LiveIsMet DEF Inv
<1>3. QED
  BY <1>1, <1>2 DEF Inv, RingInv, Offered, Up, Watched

\* on_ring gives up a call.
LEMMA RejectKeeps ==
  ASSUME Inv, RejectRing
  PROVE  Inv'
<1> DEFINE r == event.call
           d == Hangup(calls[r], "DISCONNECT")
<1>1. /\ event.type = "RING" /\ event' = NoEvent /\ Becomes(r, d, stored)
      /\ UNCHANGED <<media, need_hangup, joining, late, polite, astray>>
  BY DEF RejectRing, OnRing
<1>2. /\ r \in Refs /\ r \in Live \ late /\ Met(calls[r]) /\ calls[r].our # "NULL" /\ Watched(calls[r])
  BY <1>1, RungCall DEF Offered
<1>3. d \in Raw /\ ~d.gone /\ Sound(d) /\ ~Up(d) /\ ~d.new /\ Watched(d)
  BY <1>2, HangupClears DEF Met, Cleared
<1> HIDE DEF d, r
<1>4. Live' = Live \cup {r}
  BY <1>1, <1>2, <1>3, BecomesKeeps DEF TypeInv, Inv
<1>5. TypeInv' /\ CallsInv' /\ ServedInv'
  <2>1. /\ media \in [Chans -> Phases] /\ late \subseteq Live
        /\ polite' \in BOOLEAN /\ (polite' => polite)
    BY <1>1 DEF Inv, TypeInv
  <2>2. QED
    BY <1>1, <1>2, <1>3, <1>4, <2>1, OneCallSteps
<1>6. QED
  BY <1>1, <1>5, EventIsGone DEF Inv

\* on_hangup joins the thread and hangs up.
LEMMA HangupKeeps ==
  ASSUME Inv, HangupKills
  PROVE  Inv'
<1> DEFINE r == event.call
           d == Hangup(calls[r], "DISCONNECT")
<1>1. /\ event.type = "HANGUP_REQ" /\ event' = NoEvent /\ Becomes(r, d, stored)
      /\ media' = [media EXCEPT ![calls[r].chan] = "none"]
      /\ UNCHANGED <<need_hangup, joining, late, polite, astray>>
  BY DEF HangupKills
<1>2. /\ r \in Refs /\ r \in Live /\ Met(calls[r]) /\ calls[r].our # "NULL"
      /\ (r \notin late => Watched(calls[r]))
      /\ polite => calls[r].chan \in Chans /\ stored[calls[r].chan] = r
  <2>1. r \in Refs /\ r \in Live /\ Up(calls[r])
    BY <1>1 DEF Inv, HangupInv, Live
  <2>2. QED
    BY <2>1, LiveIsMet DEF Inv, CallsInv, ServedInv, Up
<1>3. d \in Raw /\ ~d.gone /\ Sound(d) /\ ~Up(d) /\ ~d.new /\ (r \notin late => Watched(d))
  BY <1>2, HangupClears DEF Met, Cleared
<1> HIDE DEF d, r
<1>4. Live' = Live \cup {r}
  BY <1>1, <1>2, <1>3, BecomesKeeps DEF TypeInv, Inv
<1>5. TypeInv' /\ CallsInv' /\ ServedInv'
  <2>1. /\ media \in [Chans -> Phases] /\ late \subseteq Live
        /\ polite' \in BOOLEAN /\ (polite' => polite)
    BY <1>1 DEF Inv, TypeInv
  <2>2. /\ media' \in [Chans -> Phases]
        /\ polite => \A ch \in Chans : media[ch] # "none" /\ stored[ch] # r => media'[ch] # "none"
    BY <1>1, <1>2, <2>1 DEF Phases
  <2>3. QED
    BY <1>1, <1>2, <1>3, <1>4, <2>1, <2>2, OneCallSteps
<1>6. QED
  BY <1>1, <1>5, EventIsGone DEF Inv

\* on_ring stores a call on the channel it is offered.
LEMMA StoringSteps ==
  ASSUME Inv, event.type = "RING", NEW r, r = event.call, NEW d \in Raw, ~d.gone => Sound(d) /\ Watched(d),
         Becomes(r, d, Stored(r)),
         media' \in [Chans -> Phases],
         \A ch \in Chans \ {calls[r].chan} : media'[ch] = media[ch],
         ~d.gone => d.chan = calls[r].chan /\ media'[d.chan] # "none",
         UNCHANGED <<need_hangup, joining, late, polite, astray>>
  PROVE  TypeInv' /\ CallsInv' /\ ServedInv'
<1> DEFINE kept == Stored(r)
<1>1. /\ r \in Refs /\ r \in Live \ late /\ calls[r].chan \in Chans
      /\ polite => \A q \in Live : Up(calls[q]) => calls[q].chan # calls[r].chan
  BY RungCall
<1>2. stored \in [Chans -> Refs \cup {None, Freed}] /\ late \subseteq Live
  BY DEF Inv, TypeInv
<1>3. /\ kept \in [Chans -> Refs \cup {None, Freed}]
      /\ kept[calls[r].chan] = r
      /\ \A ch \in Chans \ {calls[r].chan} : kept[ch] = stored[ch]
  BY <1>1, <1>2 DEF Stored
<1> HIDE DEF kept
<1>4. /\ calls' \in [Refs -> Call \cup {NoCall}]
      /\ stored' \in [Chans -> Refs \cup {None, Freed}]
      /\ \A ch \in Chans : kept[ch] # r \/ ~d.gone => stored'[ch] = kept[ch]
      /\ \A q \in Refs \ {r} : calls'[q] = calls[q]
      /\ Live' = IF d.gone THEN Live \ {r} ELSE Live \cup {r}
      /\ ~d.gone => /\ Met(calls'[r]) /\ calls'[r].chan = d.chan /\ Up(calls'[r]) = Up(d)
                    /\ Watched(calls'[r]) = Watched(d)
  BY <1>1, <1>3, BecomesKeeps DEF Inv, kept
<1>5. TypeInv'
  BY <1>1, <1>2, <1>4 DEF TypeInv, Inv
<1>6. ASSUME NEW q \in Live', q # r
      PROVE  q \in Live /\ calls'[q] = calls[q]
  BY <1>4, <1>6 DEF Live
<1>7. r \in Live' => ~d.gone
  BY <1>4
<1>8. CallsInv'
  <2>1. SUFFICES ASSUME NEW q \in Live'
                 PROVE  Sound(calls'[q]) /\ (IF q \in late' THEN ~calls'[q].new ELSE Watched(calls'[q]))
    BY DEF CallsInv
  <2>2. CASE q = r
    BY <1>1, <1>4, <1>7, <2>2 DEF Met
  <2>3. CASE q # r
    BY <1>6, <2>3 DEF CallsInv, Inv
  <2>4. QED
    BY <2>2, <2>3
<1>9. ServedInv'
  <2>1. SUFFICES ASSUME polite, NEW q \in Live', Up(calls'[q])
                 PROVE  /\ calls'[q].chan \in Chans
                        /\ media'[calls'[q].chan] # "none"
                        /\ stored'[calls'[q].chan] = q
    BY DEF ServedInv
  <2>2. CASE q = r
    BY <1>1, <1>3, <1>4, <1>7, <2>2
  <2>3. CASE q # r
    <3>1. /\ q \in Live /\ calls'[q] = calls[q] /\ calls[q].chan \in Chans \ {calls[r].chan}
          /\ media[calls[q].chan] # "none" /\ stored[calls[q].chan] = q
      BY <1>1, <1>6, <2>1, <2>3 DEF ServedInv, Inv
    <3>2. QED
      BY <1>3, <1>4, <2>3, <3>1
  <2>4. QED
    BY <2>2, <2>3
<1>10. QED
  BY <1>5, <1>8, <1>9

\* on_ring stores a call whose thread cannot be started.
LEMMA LaunchFailsKeeps ==
  ASSUME Inv, LaunchFails
  PROVE  Inv'
<1> DEFINE r == event.call
           d == Hangup(calls[r], "RELEASE COMPLETE")
<1>1. /\ event.type = "RING" /\ event' = NoEvent /\ Becomes(r, d, Stored(r))
      /\ UNCHANGED <<media, need_hangup, joining, late, polite, astray>>
  BY DEF LaunchFails, OnRing
<1>2. /\ Met(calls[r]) /\ Offered(calls[r])
  BY <1>1, RungCall
<1>3. d \in Raw /\ d.gone
  <2>1. d = ReleaseComplete(calls[r])
    BY <1>2 DEF Offered, Hangup, Ringing
  <2>2. QED
    BY <1>2, <2>1, ReleaseCompleteIn DEF Met
<1>4. media \in [Chans -> Phases]
  BY DEF Inv, TypeInv
<1> HIDE DEF d
<1>5. TypeInv' /\ CallsInv' /\ ServedInv'
  BY <1>1, <1>3, <1>4, StoringSteps
<1>6. QED
  BY <1>1, <1>5, EventIsGone DEF Inv

\* on_ring starts a thread and answers.
LEMMA AcceptKeeps ==
  ASSUME Inv, AcceptRing
  PROVE  Inv'
<1> DEFINE r == event.call
           d == Connect(calls[r])
<1>1. /\ event.type = "RING" /\ event' = NoEvent /\ Becomes(r, d, Stored(r))
      /\ media' = [media EXCEPT ![calls[r].chan] = "starting"]
      /\ UNCHANGED <<need_hangup, joining, late, polite, astray>>
  BY DEF AcceptRing, OnRing
<1>2. /\ Met(calls[r]) /\ Offered(calls[r]) /\ calls[r].chan \in Chans
  BY <1>1, RungCall
<1>3. d \in Raw /\ ~d.gone /\ Sound(d) /\ Watched(d) /\ d.chan = calls[r].chan
  BY <1>2, ConnectServes DEF Met, Offered
<1>4. media \in [Chans -> Phases]
  BY DEF Inv, TypeInv
<1> HIDE DEF d
<1>5. /\ media' \in [Chans -> Phases]
      /\ \A ch \in Chans \ {calls[r].chan} : media'[ch] = media[ch]
      /\ media'[calls[r].chan] # "none"
  BY <1>1, <1>2, <1>4 DEF Phases
<1>6. TypeInv' /\ CallsInv' /\ ServedInv'
  BY <1>1, <1>3, <1>5, StoringSteps
<1>7. QED
  BY <1>1, <1>6, EventIsGone DEF Inv

\* signaling_loop_handler hangs up stored calls and leaves the other channels alone.
LEMMA LoopKeeps ==
  ASSUME Inv, NEW over, over \subseteq Chans, HangsUp(over), event = NoEvent, event' = event,
         polite' = polite,
         need_hangup' \in BOOLEAN, joining' \in {0} \cup Chans
  PROVE  Inv'
<1> DEFINE HungUp == {stored[ch] : ch \in over}
           After == [r \in Refs |-> IF r \in HungUp THEN Hangup(calls[r], "DISCONNECT") ELSE calls[r]]
           Dead == {r \in HungUp \cap Refs : After[r].gone}
<1>1. /\ event = NoEvent /\ event' = event
      /\ calls' = [r \in Refs |-> IF r \in Dead THEN NoCall
                                  ELSE IF r \in HungUp THEN Kept(After[r]) ELSE calls[r]]
      /\ stored' = [ch \in Chans |-> IF stored[ch] \in Dead THEN Freed ELSE stored[ch]]
      /\ late' = late \ Dead
      /\ astray' = (Freed \in HungUp)
      /\ media' = [ch \in Chans |-> IF ch \in over THEN "none" ELSE media[ch]]
  BY DEF HangsUp
<1>2. /\ calls \in [Refs -> Call \cup {NoCall}]
      /\ stored \in [Chans -> Refs \cup {None, Freed}]
      /\ media \in [Chans -> Phases]
      /\ late \subseteq Live
  BY DEF Inv, TypeInv
<1>3. ASSUME NEW q \in Refs, q \in HungUp, q \notin Dead
      PROVE  /\ q \in Live
             /\ calls'[q] \in Call /\ Met(calls'[q]) /\ ~Up(calls'[q]) /\ ~calls'[q].new
             /\ q \notin late => Watched(calls'[q])
  <2> DEFINE d == Hangup(calls[q], "DISCONNECT")
  <2>1. After[q] = d
    BY <1>3
  <2>2. ~d.gone /\ calls'[q] = Kept(d)
    BY <1>1, <1>3, <2>1
  <2>3. q \in Live
    <3>1. SUFFICES ASSUME q \notin Live PROVE d.gone
      BY <2>2
    <3>2. calls[q] = NoCall
      BY <1>2, <3>1 DEF Live, Call
    <3>3. d = Destroy(NoCall)
      BY <3>2 DEF Hangup, NoCall, Destroy, NewCall, Timer, Ringing
    <3>4. NoCall \in Raw
      BY NewCallIsMet, DestroyIn DEF Met, NoCall
    <3>5. QED
      BY <3>3, <3>4, DestroyIn
  <2>4. Met(calls[q]) /\ (q \notin late => Watched(calls[q]))
    BY <2>3, LiveIsMet DEF Inv, CallsInv
  <2>5. d \in Raw /\ Sound(d) /\ ~Up(d) /\ ~d.new /\ (q \notin late => Watched(d))
    BY <2>2, <2>4, HangupClears DEF Met, Cleared
  <2> HIDE DEF d
  <2>6. QED
    BY <2>2, <2>3, <2>5, KeptIsCall
<1>4. ASSUME NEW q \in Refs, q \notin HungUp
      PROVE  calls'[q] = calls[q]
  BY <1>1, <1>4
<1>5. ASSUME NEW q \in Refs, q \in Dead
      PROVE  calls'[q] = NoCall
  BY <1>1, <1>5
<1>6. Dead \subseteq HungUp
  OBVIOUS
<1>7. ASSUME NEW q \in Refs, q \in Live'
      PROVE  q \in Live /\ q \notin Dead /\ (q \in HungUp \/ calls'[q] = calls[q])
  BY <1>3, <1>4, <1>5, <1>7, NewCallIsMet DEF Live
<1>8. Live' \subseteq Refs /\ Live \subseteq Refs
  BY DEF Live
<1>9. \A q \in Live : q \notin Dead => q \in Live'
  <2>1. SUFFICES ASSUME NEW q \in Live, q \notin Dead PROVE ~calls'[q].gone
    BY <1>8 DEF Live
  <2>2. CASE q \in HungUp
    BY <1>3, <1>8, <2>1, <2>2 DEF Met
  <2>3. CASE q \notin HungUp
    BY <1>4, <1>8, <2>1, <2>3 DEF Live
  <2>4. QED
    BY <2>2, <2>3
<1>10. TypeInv'
  <2>1. calls' \in [Refs -> Call \cup {NoCall}]
    <3>1. ASSUME NEW q \in Refs PROVE calls'[q] \in Call \cup {NoCall}
      BY <1>2, <1>3, <1>4, <1>5
    <3>2. QED
      BY <1>1, <3>1
  <2>2. stored' \in [Chans -> Refs \cup {None, Freed}]
    BY <1>1, <1>2
  <2>3. media' \in [Chans -> Phases] /\ need_hangup' \in BOOLEAN
    BY <1>1, <1>2 DEF Phases
  <2>4. late' \subseteq Live'
    BY <1>1, <1>2, <1>9
  <2>5. astray' \in BOOLEAN /\ polite' \in BOOLEAN
    BY <1>1 DEF Inv, TypeInv
  <2>6. QED
    BY <2>1, <2>2, <2>3, <2>4, <2>5 DEF TypeInv
<1>11. ASSUME polite, NEW q \in Live', Up(calls'[q])
       PROVE  /\ calls'[q].chan \in Chans
              /\ media'[calls'[q].chan] # "none"
              /\ stored'[calls'[q].chan] = q
  <2>1. q \in Refs /\ q \in Live /\ q \notin Dead /\ q \notin HungUp /\ calls'[q] = calls[q]
    BY <1>3, <1>7, <1>8, <1>11
  <2>2. /\ calls[q].chan \in Chans /\ media[calls[q].chan] # "none" /\ stored[calls[q].chan] = q
    BY <1>11, <2>1 DEF Inv, ServedInv
  <2>3. calls[q].chan \notin over
    BY <2>1, <2>2
  <2>4. QED
    BY <1>1, <2>1, <2>2, <2>3
<1>12. ASSUME NEW q \in Live'
       PROVE  Sound(calls'[q]) /\ (IF q \in late' THEN ~calls'[q].new ELSE Watched(calls'[q]))
  <2>1. q \in Refs /\ q \in Live /\ q \notin Dead /\ (q \in HungUp \/ calls'[q] = calls[q])
    BY <1>7, <1>8
  <2>2. q \in late' <=> q \in late
    BY <1>1, <2>1
  <2> HIDE DEF HungUp, Dead, After
  <2>3. CASE q \in HungUp
    BY <1>3, <2>1, <2>2, <2>3 DEF Met
  <2>4. CASE calls'[q] = calls[q]
    BY <2>1, <2>2, <2>4 DEF Inv, CallsInv
  <2>5. QED
    BY <2>1, <2>3, <2>4
<1>13. CallsInv' /\ ServedInv'
  BY <1>11, <1>12 DEF CallsInv, ServedInv
<1>14. QED
  BY <1>1, <1>10, <1>13, EventIsGone DEF Inv

\* The media threads leave the calls alone, and no thread ends without a trace.
LEMMA MediaKeeps ==
  ASSUME Inv, UNCHANGED <<calls, stored, late, polite, astray>>,
         event' = event \/ event' = NoEvent, need_hangup' \in BOOLEAN, joining' \in {0} \cup Chans,
         media' \in [Chans -> Phases],
         \A ch \in Chans : media[ch] # "none" => media'[ch] # "none"
  PROVE  Inv'
<1>1. Live' = Live
  BY DEF Live
<1>2. TypeInv' /\ CallsInv' /\ ServedInv'
  BY <1>1 DEF Inv, TypeInv, CallsInv, ServedInv
<1>3. CASE event' = event
  <2>1. RingInv' /\ HangupInv' /\ EventNamesLiveCall'
    BY <1>1, <1>3 DEF Inv, RingInv, HangupInv, EventNamesLiveCall
  <2>2. QED
    BY <1>2, <2>1 DEF Inv
<1>4. CASE event' = NoEvent
  BY <1>2, <1>4, EventIsGone DEF Inv
<1>5. QED
  BY <1>3, <1>4

-----------------------------------------------------------------------------
\* The span starts with no call.
LEMMA InitInv == Init => Inv
<1>1. SUFFICES ASSUME Init PROVE Inv
  OBVIOUS
<1>2. Live = {}
  BY <1>1, NewCallIsMet DEF Init, Live
<1>3. TypeInv
  BY <1>1 DEF Init, TypeInv, Phases
<1>4. event.type = "none"
  BY <1>1 DEF Init, NoEvent
<1>5. QED
  BY <1>2, <1>3, <1>4 DEF Inv, CallsInv, ServedInv, RingInv, HangupInv, EventNamesLiveCall

\* Inv is inductive.
LEMMA StepInv == Inv /\ [Next]_vars => Inv'
<1>1. SUFFICES ASSUME Inv, [Next]_vars PROVE Inv'
  OBVIOUS
<1>2. media \in [Chans -> Phases] /\ need_hangup \in BOOLEAN /\ joining \in {0} \cup Chans
  BY <1>1 DEF Inv, TypeInv
<1>3. ASSUME NEW r \in Refs, Receive(r) PROVE Inv'
  BY <1>1, <1>3, ReceiveKeeps
<1>4. ASSUME NEW r \in Refs, TimerRuns(r) PROVE Inv'
  BY <1>1, <1>4, TimerKeeps
<1>5. CASE RejectRing
  BY <1>1, <1>5, RejectKeeps
<1>6. CASE LaunchFails
  BY <1>1, <1>6, LaunchFailsKeeps
<1>7. CASE AcceptRing
  BY <1>1, <1>7, AcceptKeeps
<1>8. CASE HangupKills
  BY <1>1, <1>8, HangupKeeps
<1>9. CASE HangupIgnored
  BY <1>1, <1>2, <1>9, MediaKeeps DEF HangupIgnored
<1>10. CASE Anything
  BY <1>1, <1>2, <1>10, MediaKeeps DEF Anything
<1>11. CASE LoopHandler
  <2>1. Over \subseteq Chans
    BY DEF Over
  <2>2. QED
    BY <1>1, <1>2, <1>11, <2>1, LoopKeeps DEF LoopHandler
<1>16. CASE LoopSticks
  <2>1. PICK ch \in Waiting : HangsUp({before \in Over : before < ch}) /\ joining' = ch
    BY <1>16 DEF LoopSticks
  <2>2. {before \in Over : before < ch} \subseteq Chans /\ ch \in Chans
    BY DEF Over, Waiting
  <2>3. QED
    BY <1>1, <1>2, <1>16, <2>1, <2>2, LoopKeeps DEF LoopSticks
<1>12. ASSUME NEW ch \in Chans, MediaRuns(ch) PROVE Inv'
  BY <1>1, <1>2, <1>12, MediaKeeps DEF MediaRuns, Phases
<1>13. ASSUME NEW ch \in Chans, MediaEnds(ch) PROVE Inv'
  BY <1>1, <1>2, <1>13, MediaKeeps DEF MediaEnds, Phases
<1>17. ASSUME NEW ch \in Chans, MediaNotifies(ch) PROVE Inv'
  BY <1>1, <1>2, <1>17, MediaKeeps DEF MediaNotifies, Phases
<1>14. CASE UNCHANGED vars
  BY <1>1, <1>2, <1>14, MediaKeeps DEF vars
<1>15. QED
  BY <1>1, <1>3, <1>4, <1>5, <1>6, <1>7, <1>8, <1>9, <1>10, <1>11, <1>12, <1>13, <1>14, <1>16, <1>17 DEF Next

\* Inv is an invariant of the span.
THEOREM Invariant == Spec => []Inv
  BY InitInv, StepInv, PTL DEF Spec

\* Every record of the table is a call the code can produce, and nothing that is
\* sent or reported stays in it.
THEOREM TypeCorrect == Spec => []TypeOK
<1>1. Inv => TypeOK
  BY LiveIsMet DEF Inv, TypeInv, TypeOK, Phases
<1>2. QED
  BY <1>1, Invariant, PTL

\* libpri reports no event but HANGUP_ACK for a record it has freed: the handlers of
\* the signaling thread read the call of the event they are given.
THEOREM EventsNameLiveCalls == Spec => []EventNamesLiveCall
<1>1. Inv => EventNamesLiveCall
  BY DEF Inv
<1>2. QED
  BY <1>1, Invariant, PTL

\* A call that told the peer it is cleared has T305 or T308 running whatever the network
\* sends, unless a CONNECT ACKNOWLEDGE stopped it after the DISCONNECT (prepare_to_handle
\* stops the timer of any call) or a message gave the call its state after a RELEASE.
THEOREM ClearingStaysWatched == Spec => []ClearingIsWatched
<1>1. Inv => ClearingIsWatched
  BY DEF Inv, CallsInv, Watched, Watches, ClearingIsWatched
<1>2. QED
  BY <1>1, Invariant, PTL

\* While the network is polite, a call libpri takes for established has a media thread and
\* is the one on_hangup and signaling_loop_handler find on its channel.
THEOREM EstablishedIsServed == Spec => []AliveIsServed
<1>1. Inv => AliveIsServed
  BY DEF Inv, ServedInv, Up, AliveIsServed
<1>2. QED
  BY <1>1, Invariant, PTL
=============================================================================
