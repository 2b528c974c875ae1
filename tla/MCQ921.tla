------------------------------- MODULE MCQ921 -------------------------------
(* Q921Link with the messages each end sends.                              *)
EXTENDS Q921Link

\* Both ends talk, with a frame of other equipment; or one sends until its
\* numbers start over.
MCLoads == {[user |-> 2, network |-> 1, foreign |-> 1],
            [user |-> 5, network |-> 0, foreign |-> 0]}

MCOneWay == {[user |-> 2, network |-> 0, foreign |-> 0]}
=============================================================================
