------------------------------- MODULE MCQ931 -------------------------------
(* Q931Span with small sets.                                               *)
EXTENDS Q931Span

\* Two calls of a polite network on one channel, or one call of any network with a
\* second channel to go to.
MCLoads == {[calls |-> 2, chans |-> {1}, polite |-> TRUE],
            [calls |-> 1, chans |-> {1, 2}, polite |-> FALSE]}

MCOne == {[calls |-> 1, chans |-> {1}, polite |-> TRUE]}
=============================================================================
