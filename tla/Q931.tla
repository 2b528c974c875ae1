-------------------------------- MODULE Q931 --------------------------------
(***************************************************************************)
(* A call as libpri keeps it (q931.c).  A call is a record; each function  *)
(* of the library is an operator from call to call, which appends the      *)
(* messages it sends to "sent", names what it tells the higher layer in    *)
(* "event", and sets "gone" when the record is freed.  Only what an        *)
(* application does that is called and never calls is here.                *)
(***************************************************************************)
EXTENDS Naturals, Sequences

CONSTANT LocalNetwork    \* whether this end is the network side

ASSUME Q931Assumption == LocalNetwork \in BOOLEAN

-----------------------------------------------------------------------------
(* Call states: this end's, and what it takes the peer's to be.            *)

Ringing == {"CALL_PRESENT", "CONNECT_REQUEST", "CALL_DELIVERED", "OUTGOING_PROCEEDING", "OVERLAP_SENDING"}

CallStates == Ringing \cup
    {"NULL", "ACTIVE", "DISCONNECT_REQUEST", "DISCONNECT_INDICATION", "RELEASE_REQUEST"}

PeerStates == CallStates \cup {"CALL_INITIATED", "CALL_RECEIVED", "INCOMING_PROCEEDING", "OVERLAP_RECEIVING"}

\* q931_getcall: a record for a reference not seen before.
NewCall ==
    [our |-> "NULL", peer |-> "NULL", alive |-> FALSE, ack |-> FALSE, acked |-> FALSE, told |-> FALSE,
     timer |-> "off", tries |-> 0, new |-> TRUE, chan |-> 0,
     sent |-> <<>>, event |-> "none", gone |-> FALSE]

States(c, our, peer) == [c EXCEPT !.our = our, !.peer = peer]

\* "told" is no field of the code: the peer was told that this end clears.
Send(c, m) ==
    [c EXCEPT !.sent = Append(@, m), !.acked = TRUE, !.told = @ \/ m \in {"DISCONNECT", "RELEASE"}]

Tell(c, event) == [c EXCEPT !.event = event]

Timer(c, t) == [c EXCEPT !.timer = t]

Status(c) == Send(c, "STATUS")

Destroy(c) == [Timer(c, "off") EXCEPT !.gone = TRUE]

-----------------------------------------------------------------------------
(* Clearing.                                                               *)

ReleaseForever(c) ==    \* the second T308 is like the first
    LET s == [c EXCEPT !.our = "RELEASE_REQUEST", !.alive = FALSE]
    IN  Send(Timer(s, "t308"), "RELEASE")

\* q931_release
Release(c) ==
    LET r == [c EXCEPT !.our = "RELEASE_REQUEST"]
        s == [r EXCEPT !.alive = FALSE]
    IN  IF ~c.alive THEN r
        ELSE IF c.acked
             THEN Send(Timer(s, IF c.tries = 0 THEN "t308" ELSE "t308final"), "RELEASE")
             ELSE Send(s, "RELEASE COMPLETE")

\* q931_disconnect
Disconnect(c) ==
    LET d == States(c, "DISCONNECT_REQUEST", "DISCONNECT_INDICATION")
    IN  IF c.alive THEN Send(Timer([d EXCEPT !.alive = FALSE, !.ack = TRUE], "t305"), "DISCONNECT")
        ELSE d

\* q931_release_complete; its q931_hangup finds both states NULL.
ReleaseComplete(c) ==
    Destroy([Send(States(c, "NULL", "NULL"), "RELEASE COMPLETE") EXCEPT !.alive = FALSE])

\* q931_hangup.  The cause only tells which message clears a ringing call.
Hangup(c, by) ==
    CASE c.our = "NULL" ->
            (IF c.peer = "NULL" THEN Destroy(c)
             ELSE IF c.peer = "RELEASE_REQUEST" THEN ReleaseComplete(c) ELSE c)
      [] c.our \in Ringing ->
            (IF c.peer \in {"NULL", "DISCONNECT_REQUEST", "DISCONNECT_INDICATION", "RELEASE_REQUEST"}
             THEN c
             ELSE CASE by = "DISCONNECT" -> Disconnect(c)
                    [] by = "RELEASE COMPLETE" -> ReleaseComplete(c)
                    [] by = "RELEASE" -> Release(c))
      [] c.our = "ACTIVE" -> Disconnect(c)
      [] c.our = "DISCONNECT_REQUEST" -> Release(c)
      [] c.our = "DISCONNECT_INDICATION" ->
            (IF c.peer = "DISCONNECT_REQUEST" THEN Release([c EXCEPT !.alive = TRUE]) ELSE c)
      [] c.our = "RELEASE_REQUEST" -> c

\* q931_connect
Connect(c) ==
    LET a == [c EXCEPT !.our = IF LocalNetwork THEN "ACTIVE" ELSE "CONNECT_REQUEST",
                       !.peer = "ACTIVE", !.alive = TRUE]
    IN  Send(Timer(a, IF LocalNetwork THEN "off" ELSE "t313"), "CONNECT")

-----------------------------------------------------------------------------
(* Timers: the slot is free when the function runs.                        *)

\* The end of post_handle's STATUS and RELEASE COMPLETE: the higher layer
\* hangs up itself if the call is alive.
Finish(c) ==
    IF c.alive THEN Tell([c EXCEPT !.alive = FALSE], "HANGUP")
    ELSE Hangup(IF c.ack THEN Tell(c, "HANGUP_ACK") ELSE c, "DISCONNECT")

ExpiredDead(c) ==    \* a call that is not alive is not released
    LET f == Timer(c, "off")
    IN  CASE c.timer = "t313" -> Disconnect(f)
          [] c.timer = "t305" -> Release(f)
          [] c.timer = "t308" -> Release([f EXCEPT !.tries = @ + 1, !.alive = TRUE])
          [] c.timer = "t308final" -> Destroy(Tell(States(f, "NULL", "NULL"), "HANGUP_ACK"))

ExpiredAgain(c) ==    \* the final expiry is like the first
    LET f == Timer(c, "off")
    IN  IF c.timer = "t313" THEN Disconnect(f) ELSE Release([f EXCEPT !.tries = 1, !.alive = TRUE])

Expired(c) ==
    LET f == Timer(c, "off")
    IN  CASE c.timer = "t313" -> Disconnect(f)
          [] c.timer = "t305" -> Release([f EXCEPT !.alive = TRUE])
          [] c.timer = "t308" -> Release([f EXCEPT !.tries = @ + 1, !.alive = TRUE])
          [] c.timer = "t308final" ->
                 Destroy(Tell(States([f EXCEPT !.tries = @ + 1, !.alive = TRUE], "NULL", "NULL"), "HANGUP_ACK"))

-----------------------------------------------------------------------------
(* Messages.  "bad" is a SETUP, STATUS or PROGRESS that lacks a mandatory  *)
(* element, or a SETUP for another bearer; "null" is a STATUS that says    *)
(* the peer has no such call.                                              *)

\* prepare_to_handle_q931_message
Prepare(c, m) ==
    CASE m.type = "SETUP" -> [c EXCEPT !.chan = m.chan]
      [] m.type \in {"CONNECT ACKNOWLEDGE", "RELEASE", "DISCONNECT", "RELEASE COMPLETE"} -> Timer(c, "off")
      [] OTHER -> c

HandleSetup(c, m) ==
    LET n == States([c EXCEPT !.new = FALSE, !.alive = FALSE], "CALL_PRESENT", "CALL_INITIATED")
    IN  CASE m.bad = "missing" -> ReleaseComplete(c)
          [] m.bad # "missing" /\ ~c.new -> c
          [] m.bad = "bearer" /\ c.new -> ReleaseComplete(n)
          [] m.bad = "no" /\ c.new -> Tell(n, "RING")

HandleReleaseReported(c) ==    \* the event is returned for a call just destroyed
    LET r == States(c, "NULL", IF c.our = "RELEASE_REQUEST" THEN "NULL" ELSE "RELEASE_REQUEST")
    IN  Tell(IF c.new THEN ReleaseComplete(r) ELSE r, "HANGUP")

HandleRelease(c) ==
    LET r == States(c, "NULL", IF c.our = "RELEASE_REQUEST" THEN "NULL" ELSE "RELEASE_REQUEST")
    IN  IF c.new THEN ReleaseComplete(r) ELSE Tell(r, "HANGUP")

HandleDisconnect(c) ==
    LET d == [States(c, "DISCONNECT_INDICATION", "DISCONNECT_REQUEST") EXCEPT !.ack = TRUE]
    IN  IF c.alive THEN Tell(d, "HANGUP_REQ") ELSE Hangup(d, "DISCONNECT")

HandleStatus(c, m) ==
    CASE m.bad = "missing" -> Destroy(Status(c))
      [] m.bad # "missing" /\ c.new -> ReleaseComplete(c)
      [] m.bad = "null" /\ ~c.new -> Finish(States(c, "NULL", "NULL"))
      [] m.bad = "no" /\ ~c.new -> c

\* What the other messages do to a call that exists.
HandleKnown(c, m) ==
    CASE m.type = "ALERTING" -> Tell(States(c, "CALL_DELIVERED", "CALL_RECEIVED"), "RINGING")
      [] m.type = "CONNECT" ->
            (IF c.our = "ACTIVE" THEN Status(c)
             ELSE Send(Tell(States(c, "ACTIVE", "CONNECT_REQUEST"), "ANSWER"), "CONNECT ACKNOWLEDGE"))
      [] m.type = "CONNECT ACKNOWLEDGE" ->
            (IF c.our = "CONNECT_REQUEST" \/ (c.our = "ACTIVE" /\ LocalNetwork)
             THEN States(c, "ACTIVE", "ACTIVE") ELSE Status(c))
      [] m.type = "CALL PROCEEDING" ->
            (IF c.our \in {"OVERLAP_SENDING", "CALL_DELIVERED", "OUTGOING_PROCEEDING"}
             THEN Tell(States(c, "OUTGOING_PROCEEDING", "INCOMING_PROCEEDING"), "PROCEEDING")
             ELSE Status(c))
      [] m.type = "PROGRESS" ->
            (IF c.our \in {"OVERLAP_SENDING", "CALL_DELIVERED", "OUTGOING_PROCEEDING"}
             THEN Tell(c, "PROGRESS") ELSE Status(c))
      [] m.type = "SETUP ACKNOWLEDGE" ->
            Tell(States(c, "OVERLAP_SENDING", "OVERLAP_RECEIVING"), "SETUP_ACK")
      [] m.type = "INFORMATION" -> Tell(c, "KEYPAD_DIGIT")
      [] m.type = "FACILITY" -> Tell(c, "FACNAME")
      [] m.type = "STATUS ENQUIRY" -> Status(c)

KnownOnly == {"ALERTING", "CONNECT", "CONNECT ACKNOWLEDGE", "CALL PROCEEDING", "PROGRESS",
              "SETUP ACKNOWLEDGE", "INFORMATION", "FACILITY", "STATUS ENQUIRY"}

\* post_handle_q931_message
Handle(c, m) ==
    CASE m.type = "SETUP" -> HandleSetup(c, m)
      [] m.type = "RELEASE" -> HandleRelease(c)
      [] m.type = "RELEASE COMPLETE" -> Finish(States(c, "NULL", "NULL"))
      [] m.type = "DISCONNECT" -> IF c.new THEN ReleaseComplete(c) ELSE HandleDisconnect(c)
      [] m.type = "STATUS" -> HandleStatus(c, m)
      [] m.type = "NOTIFY" -> Tell(c, "NOTIFY")
      [] m.type = "PROGRESS" /\ m.bad = "missing" -> Destroy(Status(c))
      [] m.type \in KnownOnly /\ (m.type = "PROGRESS" => m.bad = "no") ->
            IF c.new THEN ReleaseComplete(c) ELSE HandleKnown(c, m)

\* q931_receive
Received(c, m) == Handle(Prepare(c, m), m)

\* The part of a call that outlives a step.
Kept(c) == [c EXCEPT !.sent = <<>>, !.event = "none"]
=============================================================================
