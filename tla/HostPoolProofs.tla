--------------------------- MODULE HostPoolProofs ---------------------------
(***************************************************************************)
(* Proofs about HostPool, for any list of servers, any number of media     *)
(* threads and any clock.                                                  *)
(***************************************************************************)
EXTENDS HostPool, TLAPS

\* A thread that works on an entry works on one of the list.
HostInv == \A c \in Callers : pc[c] \in Searching \ {"check"} => host[c] \in Hosts

\* Only the entry of a server that just failed is about to be disabled.
BanInv == \A c \in Callers : pc[c] = "ban" => host[c] \notin Good

\* A search has not gone past a server that never fails, and it leaves the loop
\* with the socket of the server it stands at.
SearchInv ==
  Good # {} =>
    \A c \in Callers \ SysFails :
      /\ pc[c] \notin {"enable", "failure"}
      /\ pc[c] \in Searching \cup {"decide", "success"} => \A h \in Good : host[c] <= h
      /\ pc[c] = "flags" => sock[c] = "blocking"
      /\ pc[c] \in {"decide", "success"} => sock[c] = "ready"

IInv == TypeOK /\ HostInv /\ BanInv /\ GoodHostsStayOn /\ SearchInv

CallerNext(c) == Begin(c) \/ SearchStep(c) \/ FinishStep(c)

-----------------------------------------------------------------------------
LEMMA InitIInv == Init => IInv
  BY HostAssumption DEF Init, IInv, TypeOK, HostInv, BanInv, GoodHostsStayOn, SearchInv,
     Hosts, HostPc, Searching, SockState

\* The clock disturbs nothing.
LEMMA TickStep == IInv /\ Tick => IInv'
  BY HostAssumption DEF Tick, IInv, TypeOK, HostInv, BanInv, GoodHostsStayOn, SearchInv,
     poolVars

LEMMA TypeStep ==
  ASSUME IInv, NEW c \in Callers, CallerNext(c)
  PROVE  TypeOK'
<1> USE HostAssumption DEF IInv, TypeOK, HostPc, Searching, Goto, poolVars
<1>1. CASE Begin(c)
  BY <1>1 DEF Begin
<1>2. CASE SkipHost(c)
  BY <1>2 DEF SkipHost, NextHost, Hosts
<1>3. CASE UseHost(c)
  BY <1>3 DEF UseHost, Hosts
<1>4. CASE EndOfList(c)
  BY <1>4 DEF EndOfList
<1>5. CASE Resolve(c)
  BY <1>5 DEF Resolve
<1>6. CASE OpenSocket(c)
  BY <1>6 DEF OpenSocket, SockState
<1>7. CASE SocketFails(c)
  <2>1. host[c] \in Hosts
    BY <1>7 DEF SocketFails, NextHost, HostInv
  <2>2. host' \in [Callers -> 1 .. NumHosts + 1]
    BY <1>7, <2>1 DEF SocketFails, NextHost, Hosts
  <2>3. QED
    BY <1>7, <2>2 DEF SocketFails, NextHost, SockState
<1>8. CASE Connect(c)
  BY <1>8 DEF Connect, SockState
<1>9. CASE ConnectFails(c)
  BY <1>9 DEF ConnectFails
<1>10. CASE SetNonBlocking(c)
  BY <1>10 DEF SetNonBlocking, SockState
<1>11. CASE FlagsFail(c)
  <2>1. host[c] \in Hosts
    BY <1>11 DEF FlagsFail, NextHost, HostInv
  <2>2. host' \in [Callers -> 1 .. NumHosts + 1]
    BY <1>11, <2>1 DEF FlagsFail, NextHost, Hosts
  <2>3. QED
    BY <1>11, <2>2 DEF FlagsFail, NextHost
<1>12. CASE Succeed(c)
  BY <1>12 DEF Succeed
<1>13. CASE GiveUp(c)
  BY <1>13 DEF GiveUp
<1>14. CASE EnableHost(c)
  BY <1>14 DEF EnableHost, Hosts
<1>15. CASE Fail(c)
  BY <1>15 DEF Fail
<1>16. CASE CleanUp(c)
  BY <1>16 DEF CleanUp, SockState
<1>17. CASE CleanUpKilled(c)
  BY <1>17 DEF CleanUpKilled
<1>18. CASE Ban(c)
  <2>1. host[c] \in Hosts /\ began[c] + DisableTime \in Nat
    BY <1>18 DEF Ban, NextHost, HostInv
  <2>2. disabled' \in [Hosts -> BOOLEAN] /\ enableTime' \in [Hosts -> Nat]
    BY <1>18, <2>1 DEF Ban
  <2>3. QED
    BY <1>18, <2>1, <2>2 DEF Ban, NextHost, Hosts
<1>19. QED
  BY <1>1, <1>2, <1>3, <1>4, <1>5, <1>6, <1>7, <1>8, <1>9, <1>10, <1>11, <1>12, <1>13, <1>14, <1>15, <1>16, <1>17, <1>18
  DEF CallerNext, SearchStep, FinishStep

LEMMA HostStep ==
  ASSUME IInv, NEW c \in Callers, CallerNext(c)
  PROVE  HostInv'
  BY HostAssumption
  DEF CallerNext, SearchStep, FinishStep, Begin, SkipHost, UseHost, EndOfList, Resolve,
      OpenSocket, SocketFails, Connect, ConnectFails, Ban, SetNonBlocking, FlagsFail,
      Succeed, GiveUp, EnableHost, Fail, CleanUp, CleanUpKilled, NextHost, Goto, IInv,
      TypeOK, HostInv, Searching

LEMMA BanStep ==
  ASSUME IInv, NEW c \in Callers, CallerNext(c)
  PROVE  BanInv'
  BY DEF CallerNext, SearchStep, FinishStep, Begin, SkipHost, UseHost, EndOfList, Resolve,
      OpenSocket, SocketFails, Connect, ConnectFails, Ban, SetNonBlocking, FlagsFail,
      Succeed, GiveUp, EnableHost, Fail, CleanUp, CleanUpKilled, NextHost, Goto, IInv,
      TypeOK, BanInv

LEMMA GoodStep ==
  ASSUME IInv, NEW c \in Callers, CallerNext(c)
  PROVE  GoodHostsStayOn'
<1>1. CASE Ban(c)
  BY <1>1, HostAssumption
  DEF Ban, NextHost, Goto, IInv, TypeOK, BanInv, GoodHostsStayOn, Hosts
<1>2. CASE UseHost(c) \/ EnableHost(c)
  BY <1>2, HostAssumption DEF UseHost, EnableHost, IInv, TypeOK, GoodHostsStayOn, Hosts
<1>3. CASE ~Ban(c) /\ ~UseHost(c) /\ ~EnableHost(c)
  <2>1. UNCHANGED disabled
    BY <1>3 DEF CallerNext, SearchStep, FinishStep, Begin, SkipHost, EndOfList, Resolve,
       OpenSocket, SocketFails, Connect, ConnectFails, SetNonBlocking, FlagsFail, Succeed,
       GiveUp, Fail, CleanUp, CleanUpKilled, poolVars
  <2>2. QED
    BY <2>1 DEF IInv, GoodHostsStayOn
<1>4. QED
  BY <1>1, <1>2, <1>3

LEMMA SearchStepInv ==
  ASSUME IInv, NEW c \in Callers, CallerNext(c)
  PROVE  SearchInv'
<1> SUFFICES ASSUME Good # {},
                    \A d \in Callers \ SysFails :
                      /\ pc[d] \notin {"enable", "failure"}
                      /\ pc[d] \in Searching \cup {"decide", "success"}
                           => \A h \in Good : host[d] <= h
                      /\ pc[d] = "flags" => sock[d] = "blocking"
                      /\ pc[d] \in {"decide", "success"} => sock[d] = "ready"
             PROVE  SearchInv'
  BY DEF IInv, SearchInv
<1>1. CASE c \in SysFails
  <2>1. \A d \in Callers \ SysFails :
          pc'[d] = pc[d] /\ host'[d] = host[d] /\ sock'[d] = sock[d]
    BY <1>1 DEF CallerNext, SearchStep, FinishStep, Begin, SkipHost, UseHost, EndOfList,
       Resolve, OpenSocket, SocketFails, Connect, ConnectFails, Ban, SetNonBlocking,
       FlagsFail, Succeed, GiveUp, EnableHost, Fail, CleanUp, CleanUpKilled, NextHost, Goto,
       IInv, TypeOK
  <2>2. QED
    BY <2>1 DEF SearchInv
<1>2. CASE c \notin SysFails
  <2>1. PICK g \in Good : g \in Hosts
    BY HostAssumption DEF Hosts
  <2>2. CASE Begin(c)
    BY <1>2, <2>2, HostAssumption DEF Begin, Goto, IInv, TypeOK, SearchInv, Searching
  <2>3. CASE SkipHost(c) \/ UseHost(c) \/ EndOfList(c)
    <3>1. CASE SkipHost(c)
      <4>1. host[c] \notin Good
        BY <3>1 DEF SkipHost, Barred, IInv, GoodHostsStayOn
      <4>2. \A h \in Good : host[c] + 1 <= h
        BY <1>2, <3>1, <4>1, HostAssumption
        DEF SkipHost, NextHost, Goto, Searching, IInv, TypeOK, Hosts
      <4>3. QED
        BY <3>1, <4>2 DEF SkipHost, NextHost, Goto, IInv, TypeOK, SearchInv, Searching
    <3>2. CASE UseHost(c)
      BY <3>2 DEF UseHost, Goto, IInv, TypeOK, SearchInv, Searching
    <3>3. CASE EndOfList(c)
      BY <1>2, <3>3, <2>1, HostAssumption DEF EndOfList, Goto, Searching, IInv, TypeOK, Hosts
    <3>4. QED
      BY <1>2, <2>3, <3>1, <3>2, <3>3
  <2>4. CASE Resolve(c) \/ OpenSocket(c) \/ Connect(c) \/ ConnectFails(c)
    BY <1>2, <2>4
    DEF Resolve, OpenSocket, Connect, ConnectFails, Goto, IInv, TypeOK, SearchInv, Searching
  <2>5. CASE Ban(c)
    <3>1. \A h \in Good : host[c] + 1 <= h
      BY <1>2, <2>5, HostAssumption
      DEF Ban, NextHost, Goto, Searching, IInv, TypeOK, BanInv, Hosts
    <3>2. QED
      BY <1>2, <2>5, <3>1 DEF Ban, NextHost, Goto, IInv, TypeOK, SearchInv, Searching
  <2>6. CASE SetNonBlocking(c)
    BY <1>2, <2>6 DEF SetNonBlocking, Goto, IInv, TypeOK, SearchInv, Searching
  <2>7. CASE SocketFails(c) \/ FlagsFail(c)
    BY <1>2, <2>7 DEF SocketFails, FlagsFail
  <2>8. CASE FinishStep(c)
    BY <1>2, <2>8
    DEF FinishStep, Succeed, GiveUp, EnableHost, Fail, CleanUp, CleanUpKilled, Goto, IInv,
       TypeOK, SearchInv, Searching
  <2>9. QED
    BY <1>2, <2>2, <2>3, <2>4, <2>5, <2>6, <2>7, <2>8 DEF CallerNext, SearchStep
<1>3. QED
  BY <1>1, <1>2

\* The inductive invariant of HostPool.
THEOREM HostPoolIInv == Spec => []IInv
<1>1. IInv /\ [Next]_vars => IInv'
  <2> SUFFICES ASSUME IInv, [Next]_vars PROVE IInv'
    OBVIOUS
  <2>1. CASE Tick
    BY <2>1, TickStep
  <2>2. ASSUME NEW c \in Callers, CallerNext(c) PROVE IInv'
    BY <2>2, TypeStep, HostStep, BanStep, GoodStep, SearchStepInv DEF IInv
  <2>3. CASE UNCHANGED vars
    BY <2>3 DEF vars, poolVars, IInv, TypeOK, HostInv, BanInv, GoodHostsStayOn, SearchInv
  <2>4. QED
    BY <2>1, <2>2, <2>3 DEF Next, CallerNext
<1>2. QED
  BY InitIInv, <1>1, PTL DEF Spec

\* TypeOK of get_tcp_sock, for every list and every number of threads.
THEOREM HostPoolTypeOK == Spec => []TypeOK
  BY HostPoolIInv, PTL DEF IInv

\* A server that never fails is never disabled: each failure is charged to the
\* entry that failed, whatever the threads' interleaving.
THEOREM HostPoolGoodHostsStayOn == Spec => []GoodHostsStayOn
  BY HostPoolIInv, PTL DEF IInv

\* Failover: with a server that never fails, every search without a failing
\* system call ends with a usable socket, no later in the list than that server.
THEOREM HostPoolFailoverWorks == Spec => []FailoverWorks
<1>1. IInv => FailoverWorks
  BY DEF IInv, SearchInv, FailoverWorks
<1>2. QED
  BY <1>1, HostPoolIInv, PTL
=============================================================================
