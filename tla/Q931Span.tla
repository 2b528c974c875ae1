------------------------------ MODULE Q931Span ------------------------------
(***************************************************************************)
(* The calls of one span: libpri's records (module Q931), what sbridge     *)
(* does on their events (on_ring, on_hangup, signaling_loop_handler) and   *)
(* the media threads, against a network that may send any message for any  *)
(* reference and channel at any time; "polite" tells whether it has so far *)
(* kept to what Polite allows.  Module Span has the threads in detail;     *)
(* here they are told apart where a call or a lock depends on it.          *)
(***************************************************************************)
EXTENDS Q931, FiniteSets

CONSTANTS
    Refs,      \* call references
    Chans,     \* channels of the span, in the order of the loop handler
    Loads      \* what a behaviour may hold, always one of these: calls at a time,
               \* the channels they use, and whether the network must be polite

ASSUME SpanAssumption ==
    /\ Chans \subseteq Nat \ {0}
    /\ \A m \in Loads : m \in [calls : Nat, chans : SUBSET Chans, polite : BOOLEAN]

None == "none"       \* no stored call
Freed == "freed"     \* a stored call whose record libpri has freed

VARIABLES
    calls,      \* per reference: a record of Q931, NoCall if there is none
    stored,     \* per channel: chan->call
    media,      \* per channel: "none"; "starting", waits for chan->lock; "running";
                \* "ending", no longer running, waits for spri->lock; "ended"
    need_hangup,
    joining,    \* the channel whose waiting thread the loop handler joins, which
                \* holds both locks; 0 if none
    event,      \* what libpri returned and its handler has not seen yet
    late,       \* references of calls that got a message too late (TooLate)
    polite,     \* history: the network has kept to Polite
    astray      \* a stored call was used after it was freed; what follows is
                \* not pursued

vars == <<calls, stored, media, need_hangup, joining, event, late, polite, astray>>

NoCall == Destroy(NewCall)

NoEvent == [type |-> "none", call |-> None]

Init ==
    /\ calls = [r \in Refs |-> NoCall]
    /\ stored = [ch \in Chans |-> None]
    /\ media = [ch \in Chans |-> "none"]
    /\ need_hangup = FALSE
    /\ joining = 0
    /\ event = NoEvent
    /\ late = {}
    /\ polite = TRUE
    /\ astray = FALSE

-----------------------------------------------------------------------------
Live == {r \in Refs : ~calls[r].gone}

\* Record r becomes c, where channels have the calls of "kept" stored.
Becomes(r, c, kept) ==
    /\ calls' = [calls EXCEPT ![r] = IF c.gone THEN NoCall ELSE Kept(c)]
    /\ stored' = [ch \in Chans |-> IF c.gone /\ kept[ch] = r THEN Freed ELSE kept[ch]]

Messages ==
    [type : {"SETUP"}, chan : Chans, bad : {"no", "missing", "bearer"}] \cup
    [type : {"STATUS"}, bad : {"no", "missing", "null"}] \cup
    [type : {"PROGRESS"}, bad : {"no", "missing"}] \cup
    [type : {"RELEASE", "RELEASE COMPLETE", "DISCONNECT", "NOTIFY"} \cup (KnownOnly \ {"PROGRESS"})]

\* The network released the call and the record lingers.
Released(r) == r \in Live /\ calls[r].our = "NULL" /\ ~calls[r].new

\* Messages that give a released call a state again.
Revives == {"ALERTING", "CONNECT", "SETUP ACKNOWLEDGE", "DISCONNECT"}

Busy == {calls[q].chan : q \in {p \in Live : ~Released(p)}}

\* A polite network offers a channel only to one call at a time, sends a SETUP
\* again as it was, and does not revive a call it released.
Polite(r, m) ==
    /\ Released(r) => m.type \notin Revives
    /\ m.type = "SETUP" =>
           IF r \in Live /\ ~calls[r].new /\ ~Released(r) THEN m.chan = calls[r].chan
           ELSE m.chan \notin Busy

\* A bound on what a behaviour holds.
Within ==
    \E m \in Loads :
        /\ Cardinality(Live) <= m.calls
        /\ {ch \in Chans : stored[ch] # None \/ \E r \in Live : calls[r].chan = ch} \subseteq m.chans
        /\ m.polite => polite

\* The signaling thread reads the next message or runs a timer.  A notification
\* that comes just before is one that comes just after.
Idle == event = NoEvent /\ ~need_hangup /\ joining = 0

\* The events told apart below; on_anything sees the others.
Told == {"RING", "HANGUP_REQ", "HANGUP", "HANGUP_ACK"}

Returns(r, c) ==
    event' = CASE c.event = "none" -> NoEvent
               [] c.event \in Told -> [type |-> c.event, call |-> r]
               [] OTHER -> [type |-> "other", call |-> r]

\* A CONNECT ACKNOWLEDGE stops T305 or T308, or a message revives a released call.
TooLate(r, m) ==
    \/ /\ r \in Live /\ calls[r].timer \in {"t305", "t308", "t308final"}
       /\ m.type = "CONNECT ACKNOWLEDGE"
    \/ Released(r) /\ m.type \in Revives

Receive(r) ==
    /\ Idle
    /\ \E m \in Messages :
           LET c == Received(IF r \in Live THEN calls[r] ELSE NewCall, m)
           IN  /\ polite' = (polite /\ Polite(r, m))
               /\ Becomes(r, c, stored)
               /\ Returns(r, c)
               /\ late' = IF c.gone THEN late \ {r}
                          ELSE IF TooLate(r, m) THEN late \cup {r} ELSE late
    /\ Within'
    /\ UNCHANGED <<media, need_hangup, joining, astray>>

TimerRuns(r) ==
    /\ Idle
    /\ r \in Live
    /\ calls[r].timer # "off"
    /\ LET c == Expired(calls[r])
       IN  /\ Becomes(r, c, stored)
           /\ Returns(r, c)
           /\ late' = IF c.gone THEN late \ {r} ELSE late
    /\ UNCHANGED <<media, need_hangup, joining, polite, astray>>

-----------------------------------------------------------------------------
(* Handlers of the signaling thread.                                       *)

OnRing ==
    /\ event.type = "RING"
    /\ event' = NoEvent
    /\ UNCHANGED <<need_hangup, joining, polite, astray>>

\* A blacklisted number, and a kind of call that is not served.
RejectRing ==
    /\ OnRing
    /\ Becomes(event.call, Hangup(calls[event.call], "DISCONNECT"), stored)
    /\ UNCHANGED <<media, late>>

Stored(r) == [stored EXCEPT ![calls[r].chan] = r]

\* chan->call is overwritten before the launch is tried.
LaunchFails ==
    /\ OnRing
    /\ Becomes(event.call, Hangup(calls[event.call], "RELEASE COMPLETE"), Stored(event.call))
    /\ UNCHANGED <<media, late>>

AcceptRing ==
    LET r == event.call
    IN  /\ OnRing
        /\ media[calls[r].chan] = "none"
        /\ Becomes(r, Connect(calls[r]), Stored(r))
        /\ media' = [media EXCEPT ![calls[r].chan] = "starting"]
        /\ UNCHANGED late

HangupKillsOnly ==    \* the thread is joined, the call is not hung up
    LET r == event.call
    IN  /\ event.type = "HANGUP_REQ"
        /\ media[calls[r].chan] = "running"
        /\ media' = [media EXCEPT ![calls[r].chan] = "none"]
        /\ event' = NoEvent
        /\ UNCHANGED <<calls, stored, need_hangup, joining, late, polite, astray>>

\* on_hangup cancels and joins a running thread.
HangupKills ==
    LET r == event.call
    IN  /\ event.type = "HANGUP_REQ"
        /\ media[calls[r].chan] = "running"
        /\ media' = [media EXCEPT ![calls[r].chan] = "none"]
        /\ Becomes(r, Hangup(calls[r], "DISCONNECT"), stored)
        /\ event' = NoEvent
        /\ UNCHANGED <<need_hangup, joining, late, polite, astray>>

\* on_hangup leaves it to the thread's signal if the thread is not running.
HangupIgnored ==
    /\ event.type = "HANGUP_REQ"
    /\ media[calls[event.call].chan] # "running"
    /\ event' = NoEvent
    /\ UNCHANGED <<calls, stored, media, need_hangup, joining, late, polite, astray>>

\* on_anything: the application takes no notice of HANGUP and HANGUP_ACK.
Anything ==
    /\ event.type \notin {"none", "RING", "HANGUP_REQ"}
    /\ event' = NoEvent
    /\ UNCHANGED <<calls, stored, media, need_hangup, joining, late, polite, astray>>

\* signaling_loop_handler on the channels of "over": the stored call is hung up,
\* whatever call it is.
HangsUp(over) ==
    LET HungUp == {stored[ch] : ch \in over}
        After == [r \in Refs |-> IF r \in HungUp THEN Hangup(calls[r], "DISCONNECT") ELSE calls[r]]
        Dead == {r \in HungUp \cap Refs : After[r].gone}
    IN  /\ calls' = [r \in Refs |-> IF r \in Dead THEN NoCall
                                    ELSE IF r \in HungUp THEN Kept(After[r]) ELSE calls[r]]
        /\ stored' = [ch \in Chans |-> IF stored[ch] \in Dead THEN Freed ELSE stored[ch]]
        /\ late' = late \ Dead
        /\ astray' = (Freed \in HungUp)
        /\ media' = [ch \in Chans |-> IF ch \in over THEN "none" ELSE media[ch]]

\* The handler joins every thread that is not running: these are over,
Over == {ch \in Chans : media[ch] \in {"none", "ended"}}

\* and these wait for chan->lock or spri->lock.
Waiting == {ch \in Chans : media[ch] \in {"starting", "ending"}}

LoopHandler ==
    /\ event = NoEvent
    /\ need_hangup
    /\ joining = 0
    /\ Waiting = {}
    /\ HangsUp(Over)
    /\ need_hangup' = FALSE
    /\ UNCHANGED <<joining, event, polite>>

\* The handler gets to the first waiting thread and joins it with both locks
\* held: neither thread ever goes on.
LoopSticks ==
    /\ event = NoEvent
    /\ need_hangup
    /\ joining = 0
    /\ \E ch \in Waiting :
           /\ \A other \in Waiting : ch <= other
           /\ HangsUp({before \in Over : before < ch})
           /\ joining' = ch
    /\ UNCHANGED <<need_hangup, event, polite>>

-----------------------------------------------------------------------------
(* Media threads.                                                          *)

MediaRuns(ch) ==
    /\ media[ch] = "starting"
    /\ joining # ch
    /\ media' = [media EXCEPT ![ch] = "running"]
    /\ UNCHANGED <<calls, stored, need_hangup, joining, event, late, polite, astray>>

\* clean_thread_data: "running" is cleared with chan->lock,
MediaEnds(ch) ==
    /\ media[ch] = "running"
    /\ media' = [media EXCEPT ![ch] = "ending"]
    /\ UNCHANGED <<calls, stored, need_hangup, joining, event, late, polite, astray>>

\* and the signaling thread is notified with spri->lock.
MediaNotifies(ch) ==
    /\ media[ch] = "ending"
    /\ joining = 0
    /\ media' = [media EXCEPT ![ch] = "ended"]
    /\ need_hangup' = TRUE
    /\ UNCHANGED <<calls, stored, joining, event, late, polite, astray>>

Next ==
    /\ ~astray
    /\ \/ \E r \in Refs : Receive(r) \/ TimerRuns(r)
       \/ RejectRing \/ LaunchFails \/ AcceptRing
       \/ HangupKills \/ HangupIgnored \/ Anything
       \/ LoopHandler \/ LoopSticks
       \/ \E ch \in Chans : MediaRuns(ch) \/ MediaEnds(ch) \/ MediaNotifies(ch)

\* Timers run out, the signaling thread goes on unless it joins a waiting thread,
\* and so do threads that get their lock.  Nothing makes the network send, or a
\* thread end.
Fairness ==
    /\ WF_vars(~astray /\ (RejectRing \/ LaunchFails \/ AcceptRing \/ HangupKills
                           \/ HangupIgnored \/ Anything \/ LoopHandler \/ LoopSticks))
    /\ \A ch \in Chans : WF_vars(~astray /\ (MediaRuns(ch) \/ MediaNotifies(ch)))
    /\ \A r \in Refs : SF_vars(~astray /\ TimerRuns(r))

Spec == Init /\ [][Next]_vars

FairSpec == Spec /\ Fairness

-----------------------------------------------------------------------------
(* Properties.                                                             *)

Call == [our : CallStates, peer : PeerStates, alive : BOOLEAN, ack : BOOLEAN, acked : BOOLEAN, told : BOOLEAN,
         timer : {"off", "t313", "t305", "t308", "t308final"}, tries : 0 .. 1, new : BOOLEAN,
         chan : Chans \cup {0}, sent : {<<>>}, event : {None}, gone : {FALSE}]

\* Every record, message and channel of the composition is one the code can
\* produce, and nothing a handler sends or reports is left in a record between steps.
TypeOK ==
    /\ \A r \in Live : calls[r] \in Call
    /\ stored \in [Chans -> Refs \cup {None, Freed}]
    /\ media \in [Chans -> {"none", "starting", "running", "ending", "ended"}]
    /\ need_hangup \in BOOLEAN
    /\ joining \in {0} \cup Chans
    /\ late \subseteq Live
    /\ polite \in BOOLEAN
    /\ astray \in BOOLEAN

\* No event but the last one names a call that is gone.
EventNamesLiveCall ==
    event.type \notin {"none", "HANGUP_ACK"} => event.call \in Live

\* A call being cleared is watched by T305 or T308, whatever messages cross.  Late
\* calls are excepted: the code stops their timer, or gives them a state without one.
ClearingIsWatched ==
    \A r \in Live \ late :
        calls[r].our \in {"DISCONNECT_REQUEST", "RELEASE_REQUEST"} /\ calls[r].told
            => calls[r].timer \in {"t305", "t308", "t308final"}

\* What libpri takes for an established call has a thread and is the call its channel
\* has stored, if the network was polite.  (on_ring stores a second call of the channel
\* before it finds that the channel has a thread.)
AliveIsServed ==
    polite /\ event = NoEvent =>
        \A r \in Live :
            calls[r].alive /\ calls[r].our # "NULL" =>
                /\ media[calls[r].chan] # "none"
                /\ stored[calls[r].chan] = r

\* The other end is told that a call it offered is cleared.  (A rejected call is
\* given up in silence: on_ring clears it before it is alive.)
RejectedIsTold ==
    \A r \in Live : calls[r].our \in {"DISCONNECT_REQUEST", "RELEASE_REQUEST"} => calls[r].told

\* A RELEASE is answered: the record goes, or is that of another call.  (The
\* application takes no notice of HANGUP, so the record stays.)
ReleaseAnswered ==
    \A r \in Refs :
        (event.type = "HANGUP" /\ event.call = r) ~> (astray \/ r \notin Live)

\* The signaling thread waits for a thread that waits for it, or uses freed memory.
Lost == joining # 0 \/ astray

\* A clearing of which this end told the peer ends, whatever the peer sends or leaves
\* out: the record is freed or the peer has released the call.  Excepted is what the
\* code does not do: a late call may stay for ever, with no timer; so does every call
\* of a span whose signaling thread waits for ever in its join, or that used freed
\* memory.  A clearing the peer begins is DisconnectAnswered.
Clearing(r) ==
    /\ r \in Live
    /\ calls[r].our \in {"DISCONNECT_REQUEST", "RELEASE_REQUEST"}
    /\ calls[r].told

ClearedInTheEnd ==
    \A r \in Refs :
        Clearing(r) ~> (r \notin Live \/ calls[r].our = "NULL" \/ r \in late \/ Lost)

\* A call the peer disconnects is cleared by the handler, or by the notification of a
\* thread that is no longer running.  (A thread that is not running may not have
\* started yet: nothing clears the call then, and no timer runs.)
DisconnectAnswered ==
    \A r \in Refs :
        (r \in Live /\ calls[r].our = "DISCONNECT_INDICATION")
            ~> (r \notin Live \/ calls[r].our # "DISCONNECT_INDICATION" \/ Lost)
=============================================================================
