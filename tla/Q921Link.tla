------------------------------ MODULE Q921Link ------------------------------
(***************************************************************************)
(* Two stations of module Q921 on a line that may lose frames but does not *)
(* reorder them: libpri as the network on one side, as the user on the     *)
(* other.  Layer 3 hands messages to the link at any time, also while it   *)
(* works on one that has just arrived.                                     *)
(***************************************************************************)
EXTENDS Q921

CONSTANTS
    Loads,      \* what a behaviour may hold, one of these: messages each end sends,
                \* and frames that libpri never sends itself ("foreign")
    MaxWire,    \* frames the line holds per direction; what does not fit is lost
    MaxDown     \* times the link is given up

Ends == {"network", "user"}

Peer(e) == IF e = "user" THEN "network" ELSE "user"

ASSUME LinkAssumption ==
    /\ \A m \in Loads : m \in [network : Nat, user : Nat, foreign : Nat]
    /\ {MaxWire, MaxDown} \subseteq Nat
    /\ MaxWire > 0
    /\ Loads # {}

VARIABLES
    station,    \* per end, see Q921
    wire,       \* frames on their way to each end
    submitted,  \* messages each end has handed to the link; they are 1, 2, ...
    last,       \* last message each end's layer 3 was given
    downs,      \* how often the link was given up
    foreign,    \* how many frames of other equipment came
    stale       \* an end took SABME as a new session and kept numbers of the old;
                \* what follows is not pursued

vars == <<station, wire, submitted, last, downs, foreign, stale>>

-----------------------------------------------------------------------------
Begin(e) == LinkStart(Fresh, e = "user")

Init ==
    /\ station = [e \in Ends |-> Settled(Begin(e))]
    /\ wire = [e \in Ends |-> Begin(Peer(e)).out]
    /\ submitted = [e \in Ends |-> 0]
    /\ last = [e \in Ends |-> 0]
    /\ downs = 0
    /\ foreign = 0
    /\ stale = FALSE

OnLine(frames) == SubSeq(frames, 1, IF Len(frames) < MaxWire THEN Len(frames) ELSE MaxWire)

\* End e becomes s; "rest" is still on its way to e.
Becomes(e, s, rest) ==
    /\ station' = [station EXCEPT ![e] = Settled(s)]
    /\ wire' = [wire EXCEPT ![e] = rest, ![Peer(e)] = OnLine(@ \o s.out)]
    /\ last' = [last EXCEPT ![e] = IF s.up = <<>> THEN @ ELSE Head(s.up)]
    /\ downs' = IF s.event = "down" THEN downs + 1 ELSE downs
    /\ downs' <= MaxDown

Within(sent, others) ==
    \E m \in Loads : m.foreign >= others /\ \A e \in Ends : m[e] >= sent[e]

\* Layer 3 of e has a message to send.  The bound on what waits is below
\* the Mod messages from which the numbers in the queue repeat.
HasMessage(e) ==
    /\ Within([submitted EXCEPT ![e] = @ + 1], foreign)
    /\ Len(station[e].queue) < Mod - 1

Submit(e) ==
    /\ HasMessage(e)
    /\ submitted' = [submitted EXCEPT ![e] = @ + 1]
    /\ Becomes(e, TransmitIframe(station[e], submitted[e] + 1), wire[e])
    /\ UNCHANGED <<foreign, stale>>

\* A frame is on the line for far less than T200, a second: when that expires
\* its own frame has arrived or is lost, but the answer may be on its way.
\* T203 is ten seconds, and giving up takes N200 + 1 times T200: by then the
\* answer has arrived or is lost too.
Slow(s, timer) ==
    \/ s.on[timer] = "t203"
    \/ s.on[timer] = "t200" /\ s.retrans >= N200

Quiet == \A e \in Ends : wire[e] = <<>>

Expire(e, timer) ==
    /\ station[e].on[timer] # "off"
    /\ wire[Peer(e)] = <<>>
    /\ Slow(station[e], timer) => Quiet
    /\ Becomes(e, Fire(station[e], timer), wire[e])
    /\ UNCHANGED <<submitted, foreign, stale>>

Lose(e) ==
    /\ wire[e] # <<>>
    /\ wire' = [wire EXCEPT ![e] = Tail(@)]
    /\ UNCHANGED <<station, submitted, last, downs, foreign, stale>>

\* Messages of e that have not arrived: still in the queue, or not.  Those
\* that have are at its head, as they arrive in order.
Pending(e) ==
    LET queue == station[e].queue
        arrived == Cardinality({i \in DOMAIN queue : queue[i].data <= last[Peer(e)]})
    IN  [i \in 1 .. Len(queue) - arrived |-> queue[arrived + i].data]

Limbo(e) == {d \in last[Peer(e)] + 1 .. submitted[e] : d \notin Range(Pending(e))}

\* A SABME after which e goes on with numbers the peer has forgotten.
KeepsNumbers(e, f) ==
    /\ f.type = "SABME"
    /\ station[e].state = "established"
    /\ station[e].v_r # 0 \/ station[e].v_s # Len(Pending(e))

Hear(e, replies) ==
    /\ wire[e] # <<>>
    /\ Becomes(e, Receive(station[e], Head(wire[e]), replies), Tail(wire[e]))
    /\ submitted' = [submitted EXCEPT ![e] = @ + Len(replies)]
    /\ stale' = (stale \/ KeepsNumbers(e, Head(wire[e])))
    /\ UNCHANGED foreign

\* A message layer 3 only takes, and one it answers at once.
HearSilently(e) == Hear(e, <<>>)

HearAndReply(e) ==
    /\ HasMessage(e)
    /\ wire[e] # <<>>
    /\ Receive(station[e], Head(wire[e]), <<>>).up # <<>>
    /\ Hear(e, <<submitted[e] + 1>>)

\* Frames of other equipment at the far end of e, with its station's numbers.
ForeignFrames(e) ==
    {UFrame("DM"), UFrame("DISC")} \cup
        {SFrame("RNR", station[Peer(e)], p, cmd) : p, cmd \in
            IF station[Peer(e)].state = "established" THEN BOOLEAN ELSE {}}

HearForeign(e) ==
    /\ Within(submitted, foreign + 1)
    /\ foreign' = foreign + 1
    /\ Quiet
    /\ \E f \in ForeignFrames(e) : Becomes(e, Receive(station[e], f, <<>>), wire[e])
    /\ UNCHANGED <<submitted, stale>>

Next ==
    /\ ~stale
    /\ \E e \in Ends :
           \/ Submit(e)
           \/ \E timer \in Timers : Expire(e, timer)
           \/ Lose(e)
           \/ HearSilently(e)
           \/ HearAndReply(e)
           \/ HearForeign(e)

\* Timers run out and the line moves; of the frames that set the link up or
\* carry a message, sent for ever to one end, some arrive.
Arrives(e) == HearSilently(e) \/ HearAndReply(e)

Essential(e) ==
    /\ wire[e] # <<>>
    /\ Head(wire[e]).type \in {"SABME", "UA", "I"}
    /\ Arrives(e)

Fairness ==
    \A e \in Ends :
        /\ SF_vars(~stale /\ Expire(e, "t200"))
        /\ WF_vars(~stale /\ (Expire(e, "t203") \/ Expire(e, "sabme")))
        /\ WF_vars(~stale /\ (Lose(e) \/ Arrives(e)))
        /\ SF_vars(~stale /\ Essential(e))

Spec == Init /\ [][Next]_vars

FairSpec == Spec /\ Fairness

-----------------------------------------------------------------------------
(* Properties.                                                             *)

\* The stations' counters and timers keep to their ranges: nothing is
\* transmitted more than N200 times in a row without an answer.
TypeOK ==
    /\ \A e \in Ends :
          LET s == station[e]
          IN  /\ s.state \in {"released", "awaiting", "established"}
              /\ {s.v_a, s.v_r, s.v_na} \subseteq 0 .. Mod - 1
              /\ s.v_s \in 0 .. submitted[e] + Mod
              /\ s.retrans \in 0 .. N200
              /\ s.on \in [Timers -> {"off", "t200", "t203", "sabme"}]
              /\ Len(wire[e]) <= MaxWire
              /\ last[e] \in 0 .. submitted[Peer(e)]
    /\ downs \in 0 .. MaxDown
    /\ Within(submitted, foreign)
    /\ stale \in BOOLEAN

\* windowlen, counted up and down by seven functions, never exceeds the window
\* and never understates what was sent and is not acknowledged.
WindowKept ==
    \A e \in Ends :
        LET s == station[e]
        IN  /\ s.windowlen \in 0 .. K
            /\ Cardinality(DOMAIN s.queue \ Unsent(s)) <= s.windowlen

\* Whatever was lost, some timer will act: a station whose link is up polls or
\* retransmits, one whose link is not up sends SABME.
Supervised ==
    \A e \in Ends :
        LET s == station[e]
        IN  IF s.state = "established" THEN s.on["t200"] # "off" \/ s.on["t203"] # "off"
            ELSE s.on["sabme"] # "off"

\* What layer 3 was promised: its messages arrive in order, none twice, none
\* left out unless the link went down (q921_dchannel_down throws the queue
\* away, ack_packet takes out what is acknowledged, handle_iframe takes in what
\* is in sequence).
Service == INSTANCE LinkService
             WITH pending <- [e \in Ends |-> Pending(e)], limbo <- [e \in Ends |-> Limbo(e)]

ServiceKept == Service!Spec

\* "Retransmit first packet in the queue, setting the poll bit": a message
\* the link accepted is acknowledged or the link is given up.
Resolved ==
    \A e \in Ends : \A d \in UNION {1 .. m[e] : m \in Loads} :
        (d \in Range(Pending(e))) ~> (d \notin Range(Pending(e)) \/ downs > 0 \/ stale)
=============================================================================
