----------------------------- MODULE SpanProofs -----------------------------
(***************************************************************************)
(* Proofs about Span for every number of channels.                         *)
(***************************************************************************)
EXTENDS Span, TLAPS

\* Where the signaling thread holds spri->lock.
HoldsSpri == {"pass", "reap", "ring", "launch", "hangup", "cancel", "join"}

\* spri->lock: the signaling thread holds it exactly at those stations, and a
\* notifying media thread holds it alone.
SpriInv ==
  /\ spriLock = "sig" <=> spc \in HoldsSpri
  /\ \A c \in Chans : mpc[c] = "notify" => spriLock = "media"
  /\ \A c, d \in Chans : mpc[c] = "notify" /\ mpc[d] = "notify" => c = d

\* A pass, and the handlers, are about a channel that exists.
CurInv == spc \notin {"pass"} => cur \in Chans

\* A thread that ends by itself has cleared running before it is seen again.
EndedInv ==
  \A c \in Chans :
    mpc[c] \in Telling \cup {"dead"} /\ attached[c] => ~running[c]

\* Only a detached thread is ever cancelled, or finds itself detached.
CancelInv ==
  \A c \in Chans :
    /\ cancelled[c] => ~attached[c] /\ mpc[c] # "none"
    /\ mpc[c] = "told" => ~attached[c]

\* Between a notification and the end of the pass that reaps its sender.
NotifiedInv ==
  \A c \in Chans :
    mpc[c] = "dead" /\ attached[c] =>
      /\ sigPending \/ needHangup
      /\ spc \in {"pass", "reap"} => cur <= c

\* A live call has its media thread in place, except while a handler is about
\* to launch or to take the thread down.
CallInv ==
  \A c \in Chans :
    up[c] /\ ~crashed =>
      \/ attached[c] /\ mpc[c] # "none"
      \/ spc \in {"ring", "launch", "cancel", "join"} /\ cur = c

\* on_hangup works on a live call, and on a detached thread from the
\* cancellation on.
HangupInv ==
  /\ spc \in {"hangup", "cancel", "join"} => up[cur]
  /\ spc \in {"cancel", "join"} =>
       /\ ~attached[cur] /\ ~crashed
       /\ mpc[cur] \notin Telling \cup {"none"}

\* What running and the descriptors say at each station of a media thread.
SocketInv ==
  \A c \in Chans :
    /\ mpc[c] \in Working \cup {"ending"} \cup Closing => running[c]
    /\ mpc[c] \in {"none", "dead"} \cup Starting /\ ~running[c]
         => socks[c] = {}
    /\ mpc[c] = "closetcp" => "sangoma" \notin socks[c]
    /\ mpc[c] \in {"relock", "marking", "told"} \cup Telling
         => socks[c] = {}

IInv == /\ TypeOK /\ SpriInv /\ CurInv /\ EndedInv /\ CancelInv
        /\ NotifiedInv /\ DetachedIsBeingJoined
        /\ CallInv /\ HangupInv /\ SocketInv

-----------------------------------------------------------------------------
\* The types of the signaling thread's variables are kept.
LEMMA SigTypeOKStep ==
  ASSUME SigTypeOK, CurInv, [Next]_vars
  PROVE  SigTypeOK'
<1> USE NumChansAssumption DEF SigPc, MediaPc, Starting, Working, Closing,
    Telling, HoldsSpri, Chans, sigVars, priVars, chanVars, cancelVars,
    SigTypeOK, CurInv
<1>0. 1 \in 1 .. NumChans + 1 /\ \A i \in Chans : i + 1 \in 1 .. NumChans + 1
  OBVIOUS
<1>1. CASE WaitNext
  <2>1. CASE LoopIdle
    BY <2>1, <1>0 DEF LoopIdle, SigGoto
  <2>2. CASE EnterSelect
    BY <2>2, <1>0 DEF EnterSelect, SigGoto
  <2>3. CASE SelectReturns
    BY <2>3, <1>0 DEF SelectReturns, SigGoto
  <2>4. CASE DeliverSignal
    BY <2>4, <1>0 DEF DeliverSignal
  <2>5. CASE WakeNothing
    BY <2>5, <1>0 DEF WakeNothing, SigGoto
  <2>6. ASSUME NEW c \in Chans, WakeRing(c) PROVE SigTypeOK'
    BY <2>6, <1>0 DEF WakeRing, SigGoto
  <2>7. ASSUME NEW c \in Chans, WakeHangupReq(c) PROVE SigTypeOK'
    BY <2>7, <1>0 DEF WakeHangupReq, SigGoto
  <2>8. ASSUME NEW c \in Chans, WakeReleased(c) PROVE SigTypeOK'
    BY <2>8, <1>0 DEF WakeReleased, SigGoto
  <2>. QED BY <1>1, <2>1, <2>2, <2>3, <2>4, <2>5, <2>6, <2>7, <2>8 DEF WaitNext
<1>2. CASE PassNext
  <2>1. CASE BeginPass
    BY <2>1, <1>0 DEF BeginPass, SigGoto
  <2>2. CASE PassSkip
    BY <2>2, <1>0 DEF PassSkip
  <2>3. CASE PassLock
    BY <2>3, <1>0 DEF PassLock, SigGoto
  <2>4. CASE PassEnd
    BY <2>4, <1>0 DEF PassEnd, SigGoto
  <2>. QED BY <1>2, <2>1, <2>2, <2>3, <2>4 DEF PassNext
<1>3. CASE ReapNext
  <2>1. CASE ReapThread
    BY <2>1, <1>0 DEF ReapThread, Reaped, PriHangupStored, SigGoto
  <2>2. CASE ReapNobody
    BY <2>2, <1>0 DEF ReapNobody, PriHangupStored, SigGoto
  <2>. QED BY <1>3, <2>1, <2>2 DEF ReapNext
<1>4. CASE RingNext
  BY <1>4, <1>0 DEF RingNext, RejectRing, HandlerReturns, SigGoto,
      AcceptRing, LaunchMedia, LaunchRefused, LaunchFails
<1>5. CASE HangupNext
  BY <1>5, <1>0 DEF HangupNext, HangupIgnored, HandlerReturns, SigGoto,
      HangupDetach, HangupCancel, HangupJoin, Reaped
<1>6. ASSUME NEW c \in Chans, StartNext(c) PROVE SigTypeOK'
  BY <1>6, <1>0 DEF StartNext, StartDisable, DisableCancel, SetCancelState,
      StartDefer, MediaGoto, StartRunning
<1>7. ASSUME NEW c \in Chans, SetupNext(c) PROVE SigTypeOK'
  BY <1>7, <1>0 DEF SetupNext, OpenSangoma, MediaGoto, ConnectTcp,
      Configured, SetupFails
<1>8. ASSUME NEW c \in Chans, EndNext(c) PROVE SigTypeOK'
  BY <1>8, <1>0 DEF EndNext, AppEnds, DisableCancel, SetCancelState,
      PopCleanup, MediaGoto, Cancelled, HandlerSet
<1>9. ASSUME NEW c \in Chans, CleanupNext(c) PROVE SigTypeOK'
  <2>1. CASE CloseSangoma(c)
    BY <2>1, <1>0 DEF CloseSangoma, MediaGoto
  <2>2. CASE CloseTcp(c)
    BY <2>2, <1>0 DEF CloseTcp, MediaGoto
  <2>3. CASE LockForMark(c)
    BY <2>3, <1>0 DEF LockForMark, MediaGoto
  <2>4. CASE MarkEnded(c)
    BY <2>4, <1>0 DEF MarkEnded, MediaGoto
  <2>5. CASE UnlockTold(c)
    BY <2>5, <1>0 DEF UnlockTold, MediaGoto
  <2>6. CASE LockForNotify(c)
    BY <2>6, <1>0 DEF LockForNotify, MediaGoto
  <2>7. CASE Notify(c)
    BY <2>7, <1>0 DEF Notify, MediaGoto
  <2>. QED BY <1>9, <2>1, <2>2, <2>3, <2>4, <2>5, <2>6, <2>7 DEF CleanupNext
<1>10. CASE UNCHANGED vars
  BY <1>10 DEF vars
<1>. QED BY <1>1, <1>2, <1>3, <1>4, <1>5, <1>6, <1>7, <1>8, <1>9, <1>10 DEF
    Next, SigNext, MediaNext

\* The types of the channels' variables are kept.
LEMMA ChanTypeOKStep ==
  ASSUME ChanTypeOK, [Next]_vars
  PROVE  ChanTypeOK'
<1> USE NumChansAssumption DEF SigPc, MediaPc, Starting, Working, Closing,
    Telling, HoldsSpri, Chans, sigVars, priVars, chanVars, cancelVars,
    ChanTypeOK
<1>1. CASE WaitNext
  BY <1>1 DEF WaitNext, LoopIdle, SigGoto, EnterSelect, SelectReturns,
      DeliverSignal, WakeNothing, WakeRing, WakeHangupReq, WakeReleased
<1>2. CASE PassNext
  BY <1>2 DEF PassNext, BeginPass, SigGoto, PassSkip, PassLock, PassEnd
<1>3. CASE ReapNext
  BY <1>3 DEF ReapNext, ReapThread, Reaped, PriHangupStored, SigGoto,
      ReapNobody
<1>4. CASE RingNext
  BY <1>4 DEF RingNext, RejectRing, HandlerReturns, SigGoto, AcceptRing,
      LaunchMedia, LaunchRefused, LaunchFails
<1>5. CASE HangupNext
  BY <1>5 DEF HangupNext, HangupIgnored, HandlerReturns, SigGoto,
      HangupDetach, HangupCancel, HangupJoin, Reaped
<1>6. ASSUME NEW c \in Chans, StartNext(c) PROVE ChanTypeOK'
  BY <1>6 DEF StartNext, StartDisable, DisableCancel, SetCancelState,
      StartDefer, MediaGoto, StartRunning
<1>7. ASSUME NEW c \in Chans, SetupNext(c) PROVE ChanTypeOK'
  <2>1. CASE OpenSangoma(c)
    BY <2>1 DEF OpenSangoma, MediaGoto
  <2>2. CASE ConnectTcp(c)
    BY <2>2 DEF ConnectTcp, MediaGoto
  <2>3. CASE Configured(c)
    BY <2>3 DEF Configured, MediaGoto
  <2>4. CASE SetupFails(c)
    BY <2>4 DEF SetupFails
  <2>. QED BY <1>7, <2>1, <2>2, <2>3, <2>4 DEF SetupNext
<1>8. ASSUME NEW c \in Chans, EndNext(c) PROVE ChanTypeOK'
  BY <1>8 DEF EndNext, AppEnds, DisableCancel, SetCancelState, PopCleanup,
      MediaGoto, Cancelled, HandlerSet
<1>9. ASSUME NEW c \in Chans, CleanupNext(c) PROVE ChanTypeOK'
  <2>1. CASE CloseSangoma(c)
    BY <2>1 DEF CloseSangoma, MediaGoto
  <2>2. CASE CloseTcp(c)
    BY <2>2 DEF CloseTcp, MediaGoto
  <2>3. CASE LockForMark(c)
    BY <2>3 DEF LockForMark, MediaGoto
  <2>4. CASE MarkEnded(c)
    BY <2>4 DEF MarkEnded, MediaGoto
  <2>5. CASE UnlockTold(c)
    BY <2>5 DEF UnlockTold, MediaGoto
  <2>6. CASE LockForNotify(c)
    BY <2>6 DEF LockForNotify, MediaGoto
  <2>7. CASE Notify(c)
    BY <2>7 DEF Notify, MediaGoto
  <2>. QED BY <1>9, <2>1, <2>2, <2>3, <2>4, <2>5, <2>6, <2>7 DEF CleanupNext
<1>10. CASE UNCHANGED vars
  BY <1>10 DEF vars
<1>. QED BY <1>1, <1>2, <1>3, <1>4, <1>5, <1>6, <1>7, <1>8, <1>9, <1>10 DEF
    Next, SigNext, MediaNext

\* The types of the cancellation variables are kept.
LEMMA CancelTypeOKStep ==
  ASSUME CancelTypeOK, [Next]_vars
  PROVE  CancelTypeOK'
<1> USE NumChansAssumption DEF SigPc, MediaPc, Starting, Working, Closing,
    Telling, HoldsSpri, Chans, sigVars, priVars, chanVars, cancelVars,
    CancelTypeOK
<1>1. CASE WaitNext
  BY <1>1 DEF WaitNext, LoopIdle, SigGoto, EnterSelect, SelectReturns,
      DeliverSignal, WakeNothing, WakeRing, WakeHangupReq, WakeReleased
<1>2. CASE PassNext
  BY <1>2 DEF PassNext, BeginPass, SigGoto, PassSkip, PassLock, PassEnd
<1>3. CASE ReapNext
  BY <1>3 DEF ReapNext, ReapThread, Reaped, PriHangupStored, SigGoto,
      ReapNobody
<1>4. CASE RingNext
  BY <1>4 DEF RingNext, RejectRing, HandlerReturns, SigGoto, AcceptRing,
      LaunchMedia, LaunchRefused, LaunchFails
<1>5. CASE HangupNext
  BY <1>5 DEF HangupNext, HangupIgnored, HandlerReturns, SigGoto,
      HangupDetach, HangupCancel, HangupJoin, Reaped
<1>6. ASSUME NEW c \in Chans, StartNext(c) PROVE CancelTypeOK'
  BY <1>6 DEF StartNext, StartDisable, DisableCancel, SetCancelState,
      StartDefer, MediaGoto, StartRunning
<1>7. ASSUME NEW c \in Chans, SetupNext(c) PROVE CancelTypeOK'
  BY <1>7 DEF SetupNext, OpenSangoma, MediaGoto, ConnectTcp, Configured,
      SetupFails
<1>8. ASSUME NEW c \in Chans, EndNext(c) PROVE CancelTypeOK'
  BY <1>8 DEF EndNext, AppEnds, DisableCancel, SetCancelState, PopCleanup,
      MediaGoto, Cancelled, HandlerSet
<1>9. ASSUME NEW c \in Chans, CleanupNext(c) PROVE CancelTypeOK'
  BY <1>9 DEF CleanupNext, CloseSangoma, MediaGoto, CloseTcp, LockForMark,
      MarkEnded, UnlockTold, LockForNotify, Notify
<1>10. CASE UNCHANGED vars
  BY <1>10 DEF vars
<1>. QED BY <1>1, <1>2, <1>3, <1>4, <1>5, <1>6, <1>7, <1>8, <1>9, <1>10 DEF
    Next, SigNext, MediaNext

\* spri->lock is released only by its holder and taken only when free.
LEMMA SpriInvStep ==
  ASSUME SpriInv, TypeOK, [Next]_vars
  PROVE  SpriInv'
<1> USE NumChansAssumption DEF SigPc, MediaPc, Starting, Working, Closing,
    Telling, HoldsSpri, Chans, sigVars, priVars, chanVars, cancelVars,
    SpriInv, TypeOK, SigTypeOK, ChanTypeOK, CancelTypeOK
<1>1. CASE WaitNext
  BY <1>1 DEF WaitNext, LoopIdle, SigGoto, EnterSelect, SelectReturns,
      DeliverSignal, WakeNothing, WakeRing, WakeHangupReq, WakeReleased
<1>2. CASE PassNext
  BY <1>2 DEF PassNext, BeginPass, SigGoto, PassSkip, PassLock, PassEnd
<1>3. CASE ReapNext
  BY <1>3 DEF ReapNext, ReapThread, Reaped, PriHangupStored, SigGoto,
      ReapNobody
<1>4. CASE RingNext
  BY <1>4 DEF RingNext, RejectRing, HandlerReturns, SigGoto, AcceptRing,
      LaunchMedia, LaunchRefused, LaunchFails
<1>5. CASE HangupNext
  BY <1>5 DEF HangupNext, HangupIgnored, HandlerReturns, SigGoto,
      HangupDetach, HangupCancel, HangupJoin, Reaped
<1>6. ASSUME NEW c \in Chans, StartNext(c) PROVE SpriInv'
  BY <1>6 DEF StartNext, StartDisable, DisableCancel, SetCancelState,
      StartDefer, MediaGoto, StartRunning
<1>7. ASSUME NEW c \in Chans, SetupNext(c) PROVE SpriInv'
  BY <1>7 DEF SetupNext, OpenSangoma, MediaGoto, ConnectTcp, Configured,
      SetupFails
<1>8. ASSUME NEW c \in Chans, EndNext(c) PROVE SpriInv'
  BY <1>8 DEF EndNext, AppEnds, DisableCancel, SetCancelState, PopCleanup,
      MediaGoto, Cancelled, HandlerSet
<1>9. ASSUME NEW c \in Chans, CleanupNext(c) PROVE SpriInv'
  BY <1>9 DEF CleanupNext, CloseSangoma, MediaGoto, CloseTcp, LockForMark,
      MarkEnded, UnlockTold, LockForNotify, Notify
<1>10. CASE UNCHANGED vars
  BY <1>10 DEF vars
<1>. QED BY <1>1, <1>2, <1>3, <1>4, <1>5, <1>6, <1>7, <1>8, <1>9, <1>10 DEF
    Next, SigNext, MediaNext

\* The channel at hand is one of the span's, but at the end of a pass.
LEMMA CurInvStep ==
  ASSUME CurInv, TypeOK, TypeOK', [Next]_vars
  PROVE  CurInv'
<1> USE NumChansAssumption DEF SigPc, MediaPc, Starting, Working, Closing,
    Telling, HoldsSpri, Chans, sigVars, priVars, chanVars, cancelVars, CurInv,
    TypeOK, SigTypeOK, ChanTypeOK, CancelTypeOK
<1>1. CASE WaitNext
  BY <1>1 DEF WaitNext, LoopIdle, SigGoto, EnterSelect, SelectReturns,
      DeliverSignal, WakeNothing, WakeRing, WakeHangupReq, WakeReleased
<1>2. CASE PassNext
  BY <1>2 DEF PassNext, BeginPass, SigGoto, PassSkip, PassLock, PassEnd
<1>3. CASE ReapNext
  BY <1>3 DEF ReapNext, ReapThread, Reaped, PriHangupStored, SigGoto,
      ReapNobody
<1>4. CASE RingNext
  BY <1>4 DEF RingNext, RejectRing, HandlerReturns, SigGoto, AcceptRing,
      LaunchMedia, LaunchRefused, LaunchFails
<1>5. CASE HangupNext
  BY <1>5 DEF HangupNext, HangupIgnored, HandlerReturns, SigGoto,
      HangupDetach, HangupCancel, HangupJoin, Reaped
<1>6. ASSUME NEW c \in Chans, StartNext(c) PROVE CurInv'
  BY <1>6 DEF StartNext, StartDisable, DisableCancel, SetCancelState,
      StartDefer, MediaGoto, StartRunning
<1>7. ASSUME NEW c \in Chans, SetupNext(c) PROVE CurInv'
  BY <1>7 DEF SetupNext, OpenSangoma, MediaGoto, ConnectTcp, Configured,
      SetupFails
<1>8. ASSUME NEW c \in Chans, EndNext(c) PROVE CurInv'
  BY <1>8 DEF EndNext, AppEnds, DisableCancel, SetCancelState, PopCleanup,
      MediaGoto, Cancelled, HandlerSet
<1>9. ASSUME NEW c \in Chans, CleanupNext(c) PROVE CurInv'
  BY <1>9 DEF CleanupNext, CloseSangoma, MediaGoto, CloseTcp, LockForMark,
      MarkEnded, UnlockTold, LockForNotify, Notify
<1>10. CASE UNCHANGED vars
  BY <1>10 DEF vars
<1>. QED BY <1>1, <1>2, <1>3, <1>4, <1>5, <1>6, <1>7, <1>8, <1>9, <1>10 DEF
    Next, SigNext, MediaNext

\* A thread clears running before it notifies, and nobody sets it again.
LEMMA EndedInvStep ==
  ASSUME EndedInv, TypeOK, CancelInv, DetachedIsBeingJoined, TypeOK',
           [Next]_vars
  PROVE  EndedInv'
<1> USE NumChansAssumption DEF SigPc, MediaPc, Starting, Working, Closing,
    Telling, HoldsSpri, Chans, sigVars, priVars, chanVars, cancelVars,
    EndedInv, TypeOK, CancelInv, DetachedIsBeingJoined, SigTypeOK, ChanTypeOK,
    CancelTypeOK
<1>1. CASE WaitNext
  BY <1>1 DEF WaitNext, LoopIdle, SigGoto, EnterSelect, SelectReturns,
      DeliverSignal, WakeNothing, WakeRing, WakeHangupReq, WakeReleased
<1>2. CASE PassNext
  BY <1>2 DEF PassNext, BeginPass, SigGoto, PassSkip, PassLock, PassEnd
<1>3. CASE ReapNext
  BY <1>3 DEF ReapNext, ReapThread, Reaped, PriHangupStored, SigGoto,
      ReapNobody
<1>4. CASE RingNext
  BY <1>4 DEF RingNext, RejectRing, HandlerReturns, SigGoto, AcceptRing,
      LaunchMedia, LaunchRefused, LaunchFails
<1>5. CASE HangupNext
  BY <1>5 DEF HangupNext, HangupIgnored, HandlerReturns, SigGoto,
      HangupDetach, HangupCancel, HangupJoin, Reaped
<1>6. ASSUME NEW c \in Chans, StartNext(c) PROVE EndedInv'
  BY <1>6 DEF StartNext, StartDisable, DisableCancel, SetCancelState,
      StartDefer, MediaGoto, StartRunning
<1>7. ASSUME NEW c \in Chans, SetupNext(c) PROVE EndedInv'
  BY <1>7 DEF SetupNext, OpenSangoma, MediaGoto, ConnectTcp, Configured,
      SetupFails
<1>8. ASSUME NEW c \in Chans, EndNext(c) PROVE EndedInv'
  BY <1>8 DEF EndNext, AppEnds, DisableCancel, SetCancelState, PopCleanup,
      MediaGoto, Cancelled, HandlerSet
<1>9. ASSUME NEW c \in Chans, CleanupNext(c) PROVE EndedInv'
  BY <1>9 DEF CleanupNext, CloseSangoma, MediaGoto, CloseTcp, LockForMark,
      MarkEnded, UnlockTold, LockForNotify, Notify
<1>10. CASE UNCHANGED vars
  BY <1>10 DEF vars
<1>. QED BY <1>1, <1>2, <1>3, <1>4, <1>5, <1>6, <1>7, <1>8, <1>9, <1>10 DEF
    Next, SigNext, MediaNext

\* on_hangup detaches before it cancels; nobody attaches a cancelled thread.
LEMMA CancelInvStep ==
  ASSUME CancelInv, TypeOK, DetachedIsBeingJoined, HangupInv, TypeOK',
           [Next]_vars
  PROVE  CancelInv'
<1> USE NumChansAssumption DEF SigPc, MediaPc, Starting, Working, Closing,
    Telling, HoldsSpri, Chans, sigVars, priVars, chanVars, cancelVars,
    CancelInv, TypeOK, DetachedIsBeingJoined, HangupInv, SigTypeOK,
    ChanTypeOK, CancelTypeOK
<1>1. CASE WaitNext
  BY <1>1 DEF WaitNext, LoopIdle, SigGoto, EnterSelect, SelectReturns,
      DeliverSignal, WakeNothing, WakeRing, WakeHangupReq, WakeReleased
<1>2. CASE PassNext
  BY <1>2 DEF PassNext, BeginPass, SigGoto, PassSkip, PassLock, PassEnd
<1>3. CASE ReapNext
  BY <1>3 DEF ReapNext, ReapThread, Reaped, PriHangupStored, SigGoto,
      ReapNobody
<1>4. CASE RingNext
  BY <1>4 DEF RingNext, RejectRing, HandlerReturns, SigGoto, AcceptRing,
      LaunchMedia, LaunchRefused, LaunchFails
<1>5. CASE HangupNext
  BY <1>5 DEF HangupNext, HangupIgnored, HandlerReturns, SigGoto,
      HangupDetach, HangupCancel, HangupJoin, Reaped
<1>6. ASSUME NEW c \in Chans, StartNext(c) PROVE CancelInv'
  BY <1>6 DEF StartNext, StartDisable, DisableCancel, SetCancelState,
      StartDefer, MediaGoto, StartRunning
<1>7. ASSUME NEW c \in Chans, SetupNext(c) PROVE CancelInv'
  BY <1>7 DEF SetupNext, OpenSangoma, MediaGoto, ConnectTcp, Configured,
      SetupFails
<1>8. ASSUME NEW c \in Chans, EndNext(c) PROVE CancelInv'
  BY <1>8 DEF EndNext, AppEnds, DisableCancel, SetCancelState, PopCleanup,
      MediaGoto, Cancelled, HandlerSet
<1>9. ASSUME NEW c \in Chans, CleanupNext(c) PROVE CancelInv'
  BY <1>9 DEF CleanupNext, CloseSangoma, MediaGoto, CloseTcp, LockForMark,
      MarkEnded, UnlockTold, LockForNotify, Notify
<1>10. CASE UNCHANGED vars
  BY <1>10 DEF vars
<1>. QED BY <1>1, <1>2, <1>3, <1>4, <1>5, <1>6, <1>7, <1>8, <1>9, <1>10 DEF
    Next, SigNext, MediaNext

\* Only on_hangup detaches a thread that still exists, and it joins it.
LEMMA DetachedIsBeingJoinedStep ==
  ASSUME DetachedIsBeingJoined, TypeOK, CurInv, CancelInv, TypeOK',
           [Next]_vars
  PROVE  DetachedIsBeingJoined'
<1> USE NumChansAssumption DEF SigPc, MediaPc, Starting, Working, Closing,
    Telling, HoldsSpri, Chans, sigVars, priVars, chanVars, cancelVars,
    DetachedIsBeingJoined, TypeOK, CurInv, CancelInv, SigTypeOK, ChanTypeOK,
    CancelTypeOK
<1>1. CASE WaitNext
  BY <1>1 DEF WaitNext, LoopIdle, SigGoto, EnterSelect, SelectReturns,
      DeliverSignal, WakeNothing, WakeRing, WakeHangupReq, WakeReleased
<1>2. CASE PassNext
  BY <1>2 DEF PassNext, BeginPass, SigGoto, PassSkip, PassLock, PassEnd
<1>3. CASE ReapNext
  BY <1>3 DEF ReapNext, ReapThread, Reaped, PriHangupStored, SigGoto,
      ReapNobody
<1>4. CASE RingNext
  BY <1>4 DEF RingNext, RejectRing, HandlerReturns, SigGoto, AcceptRing,
      LaunchMedia, LaunchRefused, LaunchFails
<1>5. CASE HangupNext
  BY <1>5 DEF HangupNext, HangupIgnored, HandlerReturns, SigGoto,
      HangupDetach, HangupCancel, HangupJoin, Reaped
<1>6. ASSUME NEW c \in Chans, StartNext(c) PROVE DetachedIsBeingJoined'
  BY <1>6 DEF StartNext, StartDisable, DisableCancel, SetCancelState,
      StartDefer, MediaGoto, StartRunning
<1>7. ASSUME NEW c \in Chans, SetupNext(c) PROVE DetachedIsBeingJoined'
  BY <1>7 DEF SetupNext, OpenSangoma, MediaGoto, ConnectTcp, Configured,
      SetupFails
<1>8. ASSUME NEW c \in Chans, EndNext(c) PROVE DetachedIsBeingJoined'
  BY <1>8 DEF EndNext, AppEnds, DisableCancel, SetCancelState, PopCleanup,
      MediaGoto, Cancelled, HandlerSet
<1>9. ASSUME NEW c \in Chans, CleanupNext(c) PROVE DetachedIsBeingJoined'
  BY <1>9 DEF CleanupNext, CloseSangoma, MediaGoto, CloseTcp, LockForMark,
      MarkEnded, UnlockTold, LockForNotify, Notify
<1>10. CASE UNCHANGED vars
  BY <1>10 DEF vars
<1>. QED BY <1>1, <1>2, <1>3, <1>4, <1>5, <1>6, <1>7, <1>8, <1>9, <1>10 DEF
    Next, SigNext, MediaNext

\* A notification is remembered until the pass that reaps its sender.
LEMMA NotifiedInvStep ==
  ASSUME NotifiedInv, TypeOK, SpriInv, EndedInv, CancelInv, CurInv,
           DetachedIsBeingJoined, HangupInv, TypeOK', [Next]_vars
  PROVE  NotifiedInv'
<1> USE NumChansAssumption DEF SigPc, MediaPc, Starting, Working, Closing,
    Telling, HoldsSpri, Chans, sigVars, priVars, chanVars, cancelVars,
    NotifiedInv, TypeOK, SpriInv, EndedInv, CancelInv, CurInv,
    DetachedIsBeingJoined, HangupInv, SigTypeOK, ChanTypeOK, CancelTypeOK
<1>1. CASE WaitNext
  BY <1>1 DEF WaitNext, LoopIdle, SigGoto, EnterSelect, SelectReturns,
      DeliverSignal, WakeNothing, WakeRing, WakeHangupReq, WakeReleased
<1>2. CASE PassNext
  BY <1>2 DEF PassNext, BeginPass, SigGoto, PassSkip, PassLock, PassEnd
<1>3. CASE ReapNext
  BY <1>3 DEF ReapNext, ReapThread, Reaped, PriHangupStored, SigGoto,
      ReapNobody
<1>4. CASE RingNext
  BY <1>4 DEF RingNext, RejectRing, HandlerReturns, SigGoto, AcceptRing,
      LaunchMedia, LaunchRefused, LaunchFails
<1>5. CASE HangupNext
  BY <1>5 DEF HangupNext, HangupIgnored, HandlerReturns, SigGoto,
      HangupDetach, HangupCancel, HangupJoin, Reaped
<1>6. ASSUME NEW c \in Chans, StartNext(c) PROVE NotifiedInv'
  BY <1>6 DEF StartNext, StartDisable, DisableCancel, SetCancelState,
      StartDefer, MediaGoto, StartRunning
<1>7. ASSUME NEW c \in Chans, SetupNext(c) PROVE NotifiedInv'
  BY <1>7 DEF SetupNext, OpenSangoma, MediaGoto, ConnectTcp, Configured,
      SetupFails
<1>8. ASSUME NEW c \in Chans, EndNext(c) PROVE NotifiedInv'
  BY <1>8 DEF EndNext, AppEnds, DisableCancel, SetCancelState, PopCleanup,
      MediaGoto, Cancelled, HandlerSet
<1>9. ASSUME NEW c \in Chans, CleanupNext(c) PROVE NotifiedInv'
  BY <1>9 DEF CleanupNext, CloseSangoma, MediaGoto, CloseTcp, LockForMark,
      MarkEnded, UnlockTold, LockForNotify, Notify
<1>10. CASE UNCHANGED vars
  BY <1>10 DEF vars
<1>. QED BY <1>1, <1>2, <1>3, <1>4, <1>5, <1>6, <1>7, <1>8, <1>9, <1>10 DEF
    Next, SigNext, MediaNext

\* A live call keeps its media thread.
LEMMA CallInvStep ==
  ASSUME CallInv, TypeOK, CurInv, CancelInv, HangupInv, DetachedIsBeingJoined,
           TypeOK', [Next]_vars
  PROVE  CallInv'
<1> USE NumChansAssumption DEF SigPc, MediaPc, Starting, Working, Closing,
    Telling, HoldsSpri, Chans, sigVars, priVars, chanVars, cancelVars,
    CallInv, TypeOK, CurInv, CancelInv, HangupInv, DetachedIsBeingJoined,
    SigTypeOK, ChanTypeOK, CancelTypeOK
<1>1. CASE WaitNext
  BY <1>1 DEF WaitNext, LoopIdle, SigGoto, EnterSelect, SelectReturns,
      DeliverSignal, WakeNothing, WakeRing, WakeHangupReq, WakeReleased
<1>2. CASE PassNext
  BY <1>2 DEF PassNext, BeginPass, SigGoto, PassSkip, PassLock, PassEnd
<1>3. CASE ReapNext
  BY <1>3 DEF ReapNext, ReapThread, Reaped, PriHangupStored, SigGoto,
      ReapNobody
<1>4. CASE RingNext
  BY <1>4 DEF RingNext, RejectRing, HandlerReturns, SigGoto, AcceptRing,
      LaunchMedia, LaunchRefused, LaunchFails
<1>5. CASE HangupNext
  BY <1>5 DEF HangupNext, HangupIgnored, HandlerReturns, SigGoto,
      HangupDetach, HangupCancel, HangupJoin, Reaped
<1>6. ASSUME NEW c \in Chans, StartNext(c) PROVE CallInv'
  BY <1>6 DEF StartNext, StartDisable, DisableCancel, SetCancelState,
      StartDefer, MediaGoto, StartRunning
<1>7. ASSUME NEW c \in Chans, SetupNext(c) PROVE CallInv'
  BY <1>7 DEF SetupNext, OpenSangoma, MediaGoto, ConnectTcp, Configured,
      SetupFails
<1>8. ASSUME NEW c \in Chans, EndNext(c) PROVE CallInv'
  BY <1>8 DEF EndNext, AppEnds, DisableCancel, SetCancelState, PopCleanup,
      MediaGoto, Cancelled, HandlerSet
<1>9. ASSUME NEW c \in Chans, CleanupNext(c) PROVE CallInv'
  BY <1>9 DEF CleanupNext, CloseSangoma, MediaGoto, CloseTcp, LockForMark,
      MarkEnded, UnlockTold, LockForNotify, Notify
<1>10. CASE UNCHANGED vars
  BY <1>10 DEF vars
<1>. QED BY <1>1, <1>2, <1>3, <1>4, <1>5, <1>6, <1>7, <1>8, <1>9, <1>10 DEF
    Next, SigNext, MediaNext

\* What on_hangup found under chan->lock is still true when it joins.
LEMMA HangupInvStep ==
  ASSUME HangupInv, TypeOK, CurInv, EndedInv, CallInv, CancelInv, TypeOK',
           [Next]_vars
  PROVE  HangupInv'
<1> USE NumChansAssumption DEF SigPc, MediaPc, Starting, Working, Closing,
    Telling, HoldsSpri, Chans, sigVars, priVars, chanVars, cancelVars,
    HangupInv, TypeOK, CurInv, EndedInv, CallInv, CancelInv, SigTypeOK,
    ChanTypeOK, CancelTypeOK
<1>1. CASE WaitNext
  BY <1>1 DEF WaitNext, LoopIdle, SigGoto, EnterSelect, SelectReturns,
      DeliverSignal, WakeNothing, WakeRing, WakeHangupReq, WakeReleased
<1>2. CASE PassNext
  BY <1>2 DEF PassNext, BeginPass, SigGoto, PassSkip, PassLock, PassEnd
<1>3. CASE ReapNext
  BY <1>3 DEF ReapNext, ReapThread, Reaped, PriHangupStored, SigGoto,
      ReapNobody
<1>4. CASE RingNext
  BY <1>4 DEF RingNext, RejectRing, HandlerReturns, SigGoto, AcceptRing,
      LaunchMedia, LaunchRefused, LaunchFails
<1>5. CASE HangupNext
  BY <1>5 DEF HangupNext, HangupIgnored, HandlerReturns, SigGoto,
      HangupDetach, HangupCancel, HangupJoin, Reaped
<1>6. ASSUME NEW c \in Chans, StartNext(c) PROVE HangupInv'
  BY <1>6 DEF StartNext, StartDisable, DisableCancel, SetCancelState,
      StartDefer, MediaGoto, StartRunning
<1>7. ASSUME NEW c \in Chans, SetupNext(c) PROVE HangupInv'
  BY <1>7 DEF SetupNext, OpenSangoma, MediaGoto, ConnectTcp, Configured,
      SetupFails
<1>8. ASSUME NEW c \in Chans, EndNext(c) PROVE HangupInv'
  BY <1>8 DEF EndNext, AppEnds, DisableCancel, SetCancelState, PopCleanup,
      MediaGoto, Cancelled, HandlerSet
<1>9. ASSUME NEW c \in Chans, CleanupNext(c) PROVE HangupInv'
  BY <1>9 DEF CleanupNext, CloseSangoma, MediaGoto, CloseTcp, LockForMark,
      MarkEnded, UnlockTold, LockForNotify, Notify
<1>10. CASE UNCHANGED vars
  BY <1>10 DEF vars
<1>. QED BY <1>1, <1>2, <1>3, <1>4, <1>5, <1>6, <1>7, <1>8, <1>9, <1>10 DEF
    Next, SigNext, MediaNext

\* The cleanup handler closes what the setup opened before running falls.
LEMMA SocketInvStep ==
  ASSUME SocketInv, TypeOK, CancelInv, DetachedIsBeingJoined, CallInv,
           HangupInv, [Next]_vars
  PROVE  SocketInv'
<1> USE NumChansAssumption DEF SigPc, MediaPc, Starting, Working, Closing,
    Telling, HoldsSpri, Chans, sigVars, priVars, chanVars, cancelVars,
    SocketInv, TypeOK, CancelInv, DetachedIsBeingJoined, CallInv, HangupInv,
    SigTypeOK, ChanTypeOK, CancelTypeOK
<1>1. CASE WaitNext
  BY <1>1 DEF WaitNext, LoopIdle, SigGoto, EnterSelect, SelectReturns,
      DeliverSignal, WakeNothing, WakeRing, WakeHangupReq, WakeReleased
<1>2. CASE PassNext
  BY <1>2 DEF PassNext, BeginPass, SigGoto, PassSkip, PassLock, PassEnd
<1>3. CASE ReapNext
  BY <1>3 DEF ReapNext, ReapThread, Reaped, PriHangupStored, SigGoto,
      ReapNobody
<1>4. CASE RingNext
  BY <1>4 DEF RingNext, RejectRing, HandlerReturns, SigGoto, AcceptRing,
      LaunchMedia, LaunchRefused, LaunchFails
<1>5. CASE HangupNext
  BY <1>5 DEF HangupNext, HangupIgnored, HandlerReturns, SigGoto,
      HangupDetach, HangupCancel, HangupJoin, Reaped
<1>6. ASSUME NEW c \in Chans, StartNext(c) PROVE SocketInv'
  BY <1>6 DEF StartNext, StartDisable, DisableCancel, SetCancelState,
      StartDefer, MediaGoto, StartRunning
<1>7. ASSUME NEW c \in Chans, SetupNext(c) PROVE SocketInv'
  BY <1>7 DEF SetupNext, OpenSangoma, MediaGoto, ConnectTcp, Configured,
      SetupFails
<1>8. ASSUME NEW c \in Chans, EndNext(c) PROVE SocketInv'
  BY <1>8 DEF EndNext, AppEnds, DisableCancel, SetCancelState, PopCleanup,
      MediaGoto, Cancelled, HandlerSet
<1>9. ASSUME NEW c \in Chans, CleanupNext(c) PROVE SocketInv'
  <2>1. CASE CloseSangoma(c)
    BY <2>1 DEF CloseSangoma, MediaGoto
  <2>2. CASE CloseTcp(c)
    BY <2>2 DEF CloseTcp, MediaGoto
  <2>3. CASE LockForMark(c)
    BY <2>3 DEF LockForMark, MediaGoto
  <2>4. CASE MarkEnded(c)
    BY <2>4 DEF MarkEnded, MediaGoto
  <2>5. CASE UnlockTold(c)
    BY <2>5 DEF UnlockTold, MediaGoto
  <2>6. CASE LockForNotify(c)
    BY <2>6 DEF LockForNotify, MediaGoto
  <2>7. CASE Notify(c)
    BY <2>7 DEF Notify, MediaGoto
  <2>. QED BY <1>9, <2>1, <2>2, <2>3, <2>4, <2>5, <2>6, <2>7 DEF CleanupNext
<1>10. CASE UNCHANGED vars
  BY <1>10 DEF vars
<1>. QED BY <1>1, <1>2, <1>3, <1>4, <1>5, <1>6, <1>7, <1>8, <1>9, <1>10 DEF
    Next, SigNext, MediaNext

\* All parts together are an inductive invariant of Span.
THEOREM SpanIInv == Spec => []IInv
<1>1. Init => IInv
  <2> SUFFICES ASSUME Init PROVE IInv
    OBVIOUS
  <2> USE NumChansAssumption DEF Init, Chans, Starting, Working, Closing, Telling
  <2>1. TypeOK
    <3>1. SigTypeOK
      <4>1. cur \in 1 .. NumChans + 1
        OBVIOUS
      <4>. QED BY <4>1 DEF SigTypeOK, SigPc
    <3>2. ChanTypeOK
      BY DEF ChanTypeOK, MediaPc
    <3>3. CancelTypeOK
      BY DEF CancelTypeOK
    <3>. QED BY <3>1, <3>2, <3>3 DEF TypeOK
  <2>2. SpriInv /\ CurInv /\ EndedInv /\ CancelInv
    BY DEF SpriInv, HoldsSpri, CurInv, EndedInv, CancelInv
  <2>3. NotifiedInv /\ DetachedIsBeingJoined /\ CallInv
    BY DEF NotifiedInv, DetachedIsBeingJoined, CallInv
  <2>4. HangupInv /\ SocketInv
    BY DEF HangupInv, SocketInv
  <2>. QED BY <2>1, <2>2, <2>3, <2>4 DEF IInv
<1>2. IInv /\ [Next]_vars => IInv'
  <2> SUFFICES ASSUME IInv, [Next]_vars PROVE IInv'
    OBVIOUS
  <2>1. TypeOK'
    BY SigTypeOKStep, ChanTypeOKStep, CancelTypeOKStep DEF IInv, TypeOK
  <2>2. SpriInv' /\ CurInv' /\ EndedInv' /\ CancelInv' /\ DetachedIsBeingJoined'
    BY <2>1, SpriInvStep, CurInvStep, EndedInvStep, CancelInvStep,
       DetachedIsBeingJoinedStep DEF IInv
  <2>3. NotifiedInv' /\ CallInv' /\ HangupInv' /\ SocketInv'
    BY <2>1, NotifiedInvStep, CallInvStep, HangupInvStep, SocketInvStep DEF IInv
  <2>. QED BY <2>1, <2>2, <2>3 DEF IInv
<1>. QED BY <1>1, <1>2, PTL DEF Spec

\* Every variable keeps its type.
THEOREM SpanTypeOK == Spec => []TypeOK
<1>1. IInv => TypeOK
  BY DEF IInv
<1>. QED BY <1>1, SpanIInv, PTL

\* A media thread that ended by itself is never forgotten: its signal is under
\* way, or need_hangup is set and a pass under way has yet to reach it.
THEOREM SpanNoEndForgotten == Spec => []NoEndForgotten
<1>1. IInv => NoEndForgotten
  BY DEF IInv, NotifiedInv, TypeOK, SigTypeOK, NoEndForgotten
<1>. QED BY <1>1, SpanIInv, PTL

\* A living thread that lost its place in chan->media_thread is the one
\* on_hangup is taking down.
THEOREM SpanDetachedIsBeingJoined == Spec => []DetachedIsBeingJoined
<1>1. IInv => DetachedIsBeingJoined
  BY DEF IInv
<1>. QED BY <1>1, SpanIInv, PTL

\* The thread on_hangup joins exists and never waits for spri->lock.
THEOREM SpanCancelledNeverNotifies == Spec => []CancelledNeverNotifies
<1>1. IInv => CancelledNeverNotifies
  BY DEF IInv, HangupInv, CancelledNeverNotifies
<1>. QED BY <1>1, SpanIInv, PTL

\* A channel whose media thread ended with its cleanup holds no descriptors.
THEOREM SpanEndedHoldsNoSocket == Spec => []EndedHoldsNoSocket
<1>1. IInv => EndedHoldsNoSocket
  BY DEF IInv, SocketInv, EndedHoldsNoSocket
<1>. QED BY <1>1, SpanIInv, PTL
=============================================================================
