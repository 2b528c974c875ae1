---------------------------- MODULE LinkService ----------------------------
(***************************************************************************)
(* What a link layer promises to layer 3, whatever happens on the wire:    *)
(* each message arrives at the other end at most once and in order; none   *)
(* that was accepted disappears unless the sender is told that the link    *)
(* went down.  What was under way at that moment may or may not arrive.    *)
(***************************************************************************)
EXTENDS Integers, Sequences, SequencesExt

CONSTANT Ends

VARIABLES
    pending,   \* per sender: messages accepted and not yet arrived, in order
    limbo      \* per sender: those overtaken by the loss of the link

vars == <<pending, limbo>>

Init ==
    /\ pending = [e \in Ends |-> <<>>]
    /\ limbo = [e \in Ends |-> {}]

\* What can become of the messages of one end.
Unchanged(e) == pending'[e] = pending[e] /\ limbo'[e] = limbo[e]

Accept(e) ==
    /\ Len(pending'[e]) = Len(pending[e]) + 1
    /\ IsPrefix(pending[e], pending'[e])
    /\ limbo'[e] = limbo[e]

Down(e) ==
    /\ pending'[e] = <<>>
    /\ limbo'[e] = limbo[e] \cup Range(pending[e])

\* An arrival.  Messages of an earlier time come first or never.
ArriveNext(e) ==
    /\ pending[e] # <<>>
    /\ pending'[e] = Tail(pending[e])
    /\ limbo'[e] = {}

ArriveLate(e) ==
    /\ pending'[e] = pending[e]
    /\ \E i \in limbo[e] : limbo'[e] = {j \in limbo[e] : j > i}

\* The layer 3 that takes a message may send one in the same step.
Next ==
    \E e, f \in Ends :
        /\ e # f
        /\ Unchanged(e) \/ Accept(e) \/ Down(e)
        /\ Unchanged(f) \/ ArriveNext(f) \/ ArriveLate(f)

Spec == Init /\ [][Next]_vars
=============================================================================
