----------------------------- MODULE MCHostPool -----------------------------
(* TLC instances of HostPool: two threads, the system calls of the second   *)
(* may fail.                                                                *)
EXTENDS HostPool
CONSTANTS t1, t2
MCCallers == {t1, t2}
MCSysFails == {t2}
MCGood == {2}
MCNone == {}
=============================================================================
