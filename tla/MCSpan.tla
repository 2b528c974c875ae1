------------------------------- MODULE MCSpan -------------------------------
(* TLC instances of Span: the number of channels is set in the cfg.         *)
EXTENDS Span
=============================================================================
