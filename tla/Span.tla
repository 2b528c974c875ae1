-------------------------------- MODULE Span --------------------------------
(***************************************************************************)
(* One span of sbridge: the signaling thread that runs libpri's loop, one  *)
(* media thread per channel, and the two ways a call ends.                 *)
(*                                                                         *)
(*   - The PSTN disconnects: on_hangup detaches the media thread from its  *)
(*     channel, cancels it, joins it and hangs the call up.                *)
(*   - The media thread ends: its cleanup handler signals the signaling    *)
(*     thread, whose loop handler joins it and hangs the call up.          *)
(*                                                                         *)
(* The two sides meet in chan->lock, spri->lock, chan->running,            *)
(* chan->media_thread, span->need_hangup and SIGUSR1.  Steps of a thread   *)
(* are split wherever the other side could tell the difference.            *)
(* POSIX threads, signals, select and libpri are external: they are        *)
(* modelled by what this code relies on.                                   *)
(***************************************************************************)
EXTENDS Integers

CONSTANT NumChans    \* channels of the span

ASSUME NumChansAssumption == NumChans \in Nat \ {0}

Chans == 1 .. NumChans

VARIABLES
  \* the signaling thread
  spc,           \* where it is (SigPc)
  cur,           \* the channel it is working on
  sel,           \* what select returned
  needHangup,    \* span->need_hangup
  sigPending,    \* SIGUSR1 sent to it and not delivered yet
  spriLock,      \* holder of spri->lock
  crashed,       \* the process died on undefined behaviour
  \* libpri and the channel's reference into it
  up,            \* channels on which libpri has a call that is not hung up
  called,        \* chan->call is not NULL
  \* the media threads and the fields of sbridge_chan_t they share
  mpc,           \* where the channel's media thread is (MediaPc)
  attached,      \* chan->media_thread # SBRIDGE_INVALID_THREAD_ID
  running,       \* chan->running
  chanLock,      \* holder of chan->lock
  socks,         \* descriptors recorded in chan->sangoma_sock, chan->tcp_sock
  \* POSIX cancellation, per media thread
  cancelType,    \* "deferred" or "async"
  exiting,       \* unwinding already: later cancellation requests are ignored
  cancelled      \* pthread_cancel was called on it

sigVars    == <<spc, cur, sel, needHangup, sigPending, spriLock, crashed>>
priVars    == <<up, called>>
chanVars   == <<attached, running, chanLock, socks>>
cancelVars == <<cancelType, exiting, cancelled>>
vars == <<sigVars, priVars, mpc, chanVars, cancelVars>>

SigPc == {"top", "pass", "reap", "presleep", "select", "awake",
          "ring", "launch", "hangup", "cancel", "join", "exited"}

\* The stations of bridge_channel_media, and of clean_thread_data from
\* "cleanup" on.
Starting == {"start", "defer", "starting"}
Working  == {"open", "connect", "configure", "app"}
Closing  == {"cleanup", "closetcp", "relock", "marking"}
Telling  == {"wantspri", "notify"}
MediaPc  == {"none", "ending", "told", "dead"}
              \cup Starting \cup Working \cup Closing \cup Telling

\* The cleanup handler is pushed: a cancellation runs it.
HandlerSet(c) == mpc[c] \in Working \cup {"ending"}

Init ==
  /\ spc = "top" /\ cur = 1 /\ sel = "none"
  /\ needHangup = FALSE /\ sigPending = FALSE
  /\ spriLock = "free" /\ crashed = FALSE
  /\ up = [c \in Chans |-> FALSE]
  /\ called = [c \in Chans |-> FALSE]
  /\ mpc = [c \in Chans |-> "none"]
  /\ attached = [c \in Chans |-> FALSE]
  /\ running = [c \in Chans |-> FALSE]
  /\ chanLock = [c \in Chans |-> "free"]
  /\ socks = [c \in Chans |-> {}]
  /\ cancelType = [c \in Chans |-> "deferred"]
  /\ exiting = [c \in Chans |-> FALSE]
  /\ cancelled = [c \in Chans |-> FALSE]

-----------------------------------------------------------------------------
(* The signaling thread: sangoma_one_loop.                                  *)

\* Move the signaling thread within its program.
SigGoto(from, to) == ~crashed /\ spc = from /\ spc' = to

\* Top of the loop: take spri->lock for the on_loop callback, which starts a
\* pass over the channels if one is due.  Without one the lock is let go.
LoopIdle ==
  /\ SigGoto("top", "presleep")
  /\ spriLock = "free" /\ ~needHangup
  /\ UNCHANGED <<cur, sel, needHangup, sigPending, spriLock, crashed>>
  /\ UNCHANGED <<priVars, mpc, chanVars, cancelVars>>

\* Mutant: the channel number and its index are mixed up.
BeginPassFromZero ==
  /\ SigGoto("top", "pass")
  /\ spriLock = "free" /\ needHangup
  /\ spriLock' = "sig"
  /\ cur' = 0
  /\ UNCHANGED <<sel, needHangup, sigPending, crashed>>
  /\ UNCHANGED <<priVars, mpc, chanVars, cancelVars>>

BeginPass ==
  /\ SigGoto("top", "pass")
  /\ spriLock = "free" /\ needHangup
  /\ spriLock' = "sig"
  /\ cur' = 1
  /\ UNCHANGED <<sel, needHangup, sigPending, crashed>>
  /\ UNCHANGED <<priVars, mpc, chanVars, cancelVars>>

\* A channel whose media thread still runs is left alone.
PassSkip ==
  /\ ~crashed /\ spc = "pass" /\ cur \in Chans
  /\ chanLock[cur] = "free" /\ running[cur]
  /\ cur' = cur + 1
  /\ UNCHANGED <<spc, sel, needHangup, sigPending, spriLock, crashed>>
  /\ UNCHANGED <<priVars, mpc, chanVars, cancelVars>>

\* Any other channel is reaped, with its lock held across the join.
PassLock ==
  /\ SigGoto("pass", "reap")
  /\ cur \in Chans /\ chanLock[cur] = "free" /\ ~running[cur]
  /\ chanLock' = [chanLock EXCEPT ![cur] = "sig"]
  /\ UNCHANGED <<cur, sel, needHangup, sigPending, spriLock, crashed>>
  /\ UNCHANGED <<priVars, mpc, attached, running, socks, cancelVars>>

\* End of the pass: the flag is cleared and spri->lock let go.
PassEnd ==
  /\ SigGoto("pass", "presleep")
  /\ cur = NumChans + 1
  /\ cur' = 1
  /\ needHangup' = FALSE
  /\ spriLock' = "free"
  /\ UNCHANGED <<sel, sigPending, crashed>>
  /\ UNCHANGED <<priVars, mpc, chanVars, cancelVars>>

\* pri_hangup through chan->call.  A NULL handle is refused.  A handle that
\* libpri no longer has a live call for is stale: its memory is being torn
\* down, is free, or belongs to another call by now.
PriHangupStored(c) ==
  \/ /\ up[c]
     /\ up' = [up EXCEPT ![c] = FALSE] /\ crashed' = FALSE
  \/ /\ ~up[c]
     /\ UNCHANGED up /\ crashed' = FALSE
  \/ /\ ~up[c] /\ called[c]
     /\ \/ UNCHANGED up /\ crashed' = TRUE
        \/ \E d \in Chans : up[d] /\ up' = [up EXCEPT ![d] = FALSE]
                                  /\ crashed' = FALSE

\* pthread_join returned: the thread's remains are gone.
Reaped(c) ==
  /\ mpc' = [mpc EXCEPT ![c] = "none"]
  /\ cancelType' = [cancelType EXCEPT ![c] = "deferred"]
  /\ exiting' = [exiting EXCEPT ![c] = FALSE]
  /\ cancelled' = [cancelled EXCEPT ![c] = FALSE]

\* Join the channel's media thread, forget it, hang its call up.
ReapThread ==
  /\ SigGoto("reap", "pass")
  /\ attached[cur] /\ mpc[cur] = "dead"
  /\ Reaped(cur)
  /\ PriHangupStored(cur)
  /\ attached' = [attached EXCEPT ![cur] = FALSE]
  /\ chanLock' = [chanLock EXCEPT ![cur] = "free"]
  /\ cur' = cur + 1
  /\ UNCHANGED <<sel, needHangup, sigPending, spriLock, called, running, socks>>

\* The same on a channel without a thread: joining an invalid identifier is
\* undefined, it fails or takes the process down.
ReapNobody ==
  /\ SigGoto("reap", "pass")
  /\ mpc[cur] = "none"
  /\ \/ PriHangupStored(cur)
     \/ UNCHANGED up /\ crashed' = TRUE
  /\ attached' = [attached EXCEPT ![cur] = FALSE]
  /\ chanLock' = [chanLock EXCEPT ![cur] = "free"]
  /\ cur' = cur + 1
  /\ UNCHANGED <<sel, needHangup, sigPending, spriLock>>
  /\ UNCHANGED <<called, mpc, running, socks, cancelVars>>

\* The select timeout was computed under the lock; the wait starts without it.
EnterSelect ==
  /\ SigGoto("presleep", "select")
  /\ UNCHANGED <<cur, sel, needHangup, sigPending, spriLock, crashed>>
  /\ UNCHANGED <<priVars, mpc, chanVars, cancelVars>>

\* A libpri timer fell due, the D-channel is readable, or select failed.
SelectReturns ==
  /\ SigGoto("select", "awake")
  /\ sel' \in {"timer", "input", "error"}
  /\ UNCHANGED <<cur, needHangup, sigPending, spriLock, crashed>>
  /\ UNCHANGED <<priVars, mpc, chanVars, cancelVars>>

\* Mutant: the handler ends the sleep but leaves need_hangup alone.
DeliverSignalUnflagged ==
  /\ ~crashed /\ sigPending /\ spc # "exited"
  /\ sigPending' = FALSE
  /\ IF spc = "select" THEN spc' = "awake" /\ sel' = "eintr"
                       ELSE UNCHANGED <<spc, sel>>
  /\ UNCHANGED <<cur, needHangup, spriLock, crashed>>
  /\ UNCHANGED <<priVars, mpc, chanVars, cancelVars>>

\* shutdown_media_thread.  The kernel may deliver the signal anywhere in the
\* signaling thread; only inside select does it also end the wait (EINTR).
DeliverSignal ==
  /\ ~crashed /\ sigPending /\ spc # "exited"
  /\ sigPending' = FALSE
  /\ needHangup' = TRUE
  /\ IF spc = "select" THEN spc' = "awake" /\ sel' = "eintr"
                       ELSE UNCHANGED <<spc, sel>>
  /\ UNCHANGED <<cur, spriLock, crashed>>
  /\ UNCHANGED <<priVars, mpc, chanVars, cancelVars>>

\* After select: lock again.  Without input, or for an event that only gets
\* logged (on_anything, on_restart, a timer's), nothing more happens.  An
\* error other than EINTR ends the loop and the thread.
WakeNothing ==
  /\ SigGoto("awake", IF sel = "error" THEN "exited" ELSE "top")
  /\ spriLock = "free"
  /\ sel' = "none"
  /\ UNCHANGED <<cur, needHangup, sigPending, spriLock, crashed>>
  /\ UNCHANGED <<priVars, mpc, chanVars, cancelVars>>

\* SETUP on a channel the network holds free: PRI_EVENT_RING.
WakeRing(c) ==
  /\ SigGoto("awake", "ring")
  /\ sel = "input" /\ ~up[c]
  /\ spriLock = "free" /\ spriLock' = "sig"
  /\ cur' = c
  /\ up' = [up EXCEPT ![c] = TRUE]
  /\ UNCHANGED <<sel, needHangup, sigPending, crashed>>
  /\ UNCHANGED <<called, mpc, chanVars, cancelVars>>

\* DISCONNECT for a live call: PRI_EVENT_HANGUP_REQ.
WakeHangupReq(c) ==
  /\ SigGoto("awake", "hangup")
  /\ sel = "input" /\ up[c]
  /\ spriLock = "free" /\ spriLock' = "sig"
  /\ cur' = c
  /\ UNCHANGED <<sel, needHangup, sigPending, crashed>>
  /\ UNCHANGED <<priVars, mpc, chanVars, cancelVars>>

\* RELEASE, RELEASE COMPLETE or loss of the link: the call is over and
\* PRI_EVENT_HANGUP goes to on_anything, which logs it.
WakeReleased(c) ==
  /\ SigGoto("awake", "top")
  /\ sel \in {"input", "timer"} /\ up[c]
  /\ spriLock = "free"
  /\ sel' = "none"
  /\ up' = [up EXCEPT ![c] = FALSE]
  /\ UNCHANGED <<cur, needHangup, sigPending, spriLock, crashed>>
  /\ UNCHANGED <<called, mpc, chanVars, cancelVars>>

\* A handler returns: end of the loop body.
HandlerReturns(from) ==
  /\ SigGoto(from, "top")
  /\ spriLock' = "free"
  /\ sel' = "none" /\ cur' = 1
  /\ UNCHANGED <<needHangup, sigPending, crashed>>

-----------------------------------------------------------------------------
(* The signaling thread: on_ring and on_hangup.                             *)

\* Blacklisted caller or unsupported bearer: hang up at once.
RejectRing ==
  /\ HandlerReturns("ring")
  /\ up' = [up EXCEPT ![cur] = FALSE]
  /\ UNCHANGED <<called, mpc, chanVars, cancelVars>>

AcceptRing ==
  /\ SigGoto("ring", "launch")
  /\ called' = [called EXCEPT ![cur] = TRUE]
  /\ UNCHANGED <<cur, sel, needHangup, sigPending, spriLock, crashed>>
  /\ UNCHANGED <<up, mpc, chanVars, cancelVars>>

\* sbridge_launch_media_thread creates the thread under chan->lock, then the
\* call is answered.
LaunchMedia ==
  /\ HandlerReturns("launch")
  /\ chanLock[cur] = "free" /\ ~attached[cur]
  /\ attached' = [attached EXCEPT ![cur] = TRUE]
  /\ mpc' = [mpc EXCEPT ![cur] = "start"]
  /\ UNCHANGED <<priVars, running, chanLock, socks, cancelVars>>

\* The channel still has a media thread: the new call is hung up.
LaunchRefused ==
  /\ HandlerReturns("launch")
  /\ chanLock[cur] = "free" /\ attached[cur]
  /\ up' = [up EXCEPT ![cur] = FALSE]
  /\ UNCHANGED <<called, mpc, chanVars, cancelVars>>

\* pthread_create fails: the new call is hung up, and what it left in
\* chan->media_thread is undefined.
LaunchFails ==
  /\ HandlerReturns("launch")
  /\ chanLock[cur] = "free" /\ ~attached[cur]
  /\ up' = [up EXCEPT ![cur] = FALSE]
  /\ \E garbage \in BOOLEAN : attached' = [attached EXCEPT ![cur] = garbage]
  /\ UNCHANGED <<called, mpc, running, chanLock, socks, cancelVars>>

\* Mutant: media_thread is cleared before running is looked at.
HangupIgnoredDetaches ==
  /\ HandlerReturns("hangup")
  /\ chanLock[cur] = "free" /\ ~running[cur]
  /\ attached' = [attached EXCEPT ![cur] = FALSE]
  /\ UNCHANGED <<priVars, mpc, running, chanLock, socks, cancelVars>>

\* The media thread is not running: leave it to its own notification.
HangupIgnored ==
  /\ HandlerReturns("hangup")
  /\ chanLock[cur] = "free" /\ ~running[cur]
  /\ UNCHANGED <<priVars, mpc, chanVars, cancelVars>>

\* Mutant: the thread is cancelled with media_thread still set.
HangupKeepsAttached ==
  /\ SigGoto("hangup", "cancel")
  /\ chanLock[cur] = "free" /\ running[cur]
  /\ UNCHANGED <<cur, sel, needHangup, sigPending, spriLock, crashed>>
  /\ UNCHANGED <<priVars, mpc, chanVars, cancelVars>>

\* Detach the media thread before cancelling it, so that it will not notify.
HangupDetach ==
  /\ SigGoto("hangup", "cancel")
  /\ chanLock[cur] = "free" /\ running[cur]
  /\ attached' = [attached EXCEPT ![cur] = FALSE]
  /\ UNCHANGED <<cur, sel, needHangup, sigPending, spriLock, crashed>>
  /\ UNCHANGED <<priVars, mpc, running, chanLock, socks, cancelVars>>

\* Mutant: the cancellation is forgotten.
HangupJoinsOnly ==
  /\ SigGoto("cancel", "join")
  /\ UNCHANGED <<cur, sel, needHangup, sigPending, spriLock, crashed>>
  /\ UNCHANGED <<priVars, mpc, chanVars, cancelVars>>

HangupCancel ==
  /\ SigGoto("cancel", "join")
  /\ cancelled' = [cancelled EXCEPT ![cur] = TRUE]
  /\ UNCHANGED <<cur, sel, needHangup, sigPending, spriLock, crashed>>
  /\ UNCHANGED <<priVars, mpc, chanVars, cancelType, exiting>>

\* The thread is joined and the call, identified by the event, hung up.
HangupJoin ==
  /\ HandlerReturns("join")
  /\ mpc[cur] = "dead"
  /\ Reaped(cur)
  /\ up' = [up EXCEPT ![cur] = FALSE]
  /\ UNCHANGED <<called, chanVars>>

-----------------------------------------------------------------------------
(* A media thread: bridge_channel_media and clean_thread_data.              *)

\* Move channel c's media thread within its program.
MediaGoto(c, from, to) ==
  ~crashed /\ mpc[c] = from /\ mpc' = [mpc EXCEPT ![c] = to]

\* sbridge_thread_setcancelstate hands its argument to pthread_setcanceltype:
\* DISABLE has the value of ASYNCHRONOUS, ENABLE that of DEFERRED.
\* Cancellation is therefore never disabled.
SetCancelState(state) == IF state = "disable" THEN "async" ELSE "deferred"

\* A pending cancellation acts within the call that makes the type
\* asynchronous.
DisableCancel(c, from, to, whenCancelled) ==
  /\ ~crashed /\ mpc[c] = from
  /\ cancelType' = [cancelType EXCEPT ![c] = SetCancelState("disable")]
  /\ LET acts == cancelled[c] /\ SetCancelState("disable") = "async" IN
       /\ mpc' = [mpc EXCEPT ![c] = IF acts THEN whenCancelled ELSE to]
       /\ exiting' = [exiting EXCEPT ![c] = acts]
  /\ UNCHANGED <<sigVars, priVars, chanVars, cancelled>>

\* First statement of the thread: nothing is pushed yet, a cancellation here
\* ends the thread at once.
StartDisable(c) == DisableCancel(c, "start", "defer", "dead")

StartDefer(c) ==
  /\ MediaGoto(c, "defer", "starting")
  /\ cancelType' = [cancelType EXCEPT ![c] = "deferred"]
  /\ UNCHANGED <<sigVars, priVars, chanVars, exiting, cancelled>>

\* Wait for the launcher to let go of the channel, then declare the thread
\* running; push the cleanup handler and "enable" cancellation.
StartRunning(c) ==
  /\ MediaGoto(c, "starting", "open")
  /\ chanLock[c] = "free"
  /\ running' = [running EXCEPT ![c] = TRUE]
  /\ cancelType' = [cancelType EXCEPT ![c] = SetCancelState("enable")]
  /\ UNCHANGED <<sigVars, priVars, attached, chanLock, socks, exiting, cancelled>>

\* Open the sangoma socket, connect to a TCP server, configure the channel.
OpenSangoma(c) ==
  /\ MediaGoto(c, "open", "connect")
  /\ socks' = [socks EXCEPT ![c] = @ \cup {"sangoma"}]
  /\ UNCHANGED <<sigVars, priVars, attached, running, chanLock, cancelVars>>

ConnectTcp(c) ==
  /\ MediaGoto(c, "connect", "configure")
  /\ socks' = [socks EXCEPT ![c] = @ \cup {"tcp"}]
  /\ UNCHANGED <<sigVars, priVars, attached, running, chanLock, cancelVars>>

Configured(c) ==
  /\ MediaGoto(c, "configure", "app")
  /\ UNCHANGED <<sigVars, priVars, chanVars, cancelVars>>

\* Mutant: the error exits skip the handler's closing of descriptors.
SetupFailsUnclosed(c) ==
  /\ ~crashed /\ mpc[c] \in {"open", "connect", "configure"}
  /\ mpc' = [mpc EXCEPT ![c] = "relock"]
  /\ exiting' = [exiting EXCEPT ![c] = TRUE]
  /\ UNCHANGED <<sigVars, priVars, chanVars, cancelType, cancelled>>

\* Any of them fails: sbridge_thread_exit runs the cleanup handler.
SetupFails(c) ==
  /\ ~crashed /\ mpc[c] \in {"open", "connect", "configure"}
  /\ mpc' = [mpc EXCEPT ![c] = "cleanup"]
  /\ exiting' = [exiting EXCEPT ![c] = TRUE]
  /\ UNCHANGED <<sigVars, priVars, chanVars, cancelType, cancelled>>

\* The application returns (TCP closed, read or write error); cancellation is
\* "disabled" before the handler is popped.
AppEnds(c) == DisableCancel(c, "app", "ending", "cleanup")

\* sbridge_thread_cleanup_pop unregisters the handler and calls it.
PopCleanup(c) ==
  /\ MediaGoto(c, "ending", "cleanup")
  /\ UNCHANGED <<sigVars, priVars, chanVars, cancelVars>>

\* A cancellation acts: at the cancellation points of the setup and of the
\* application when the type is deferred, anywhere when it is asynchronous.
\* It runs the pushed handler, or ends the thread where it stands.
Cancelled(c) ==
  /\ ~crashed /\ cancelled[c] /\ ~exiting[c]
  /\ \/ mpc[c] \in Working
     \/ cancelType[c] = "async" /\ mpc[c] \notin {"none", "dead"}
  /\ mpc' = [mpc EXCEPT ![c] = IF HandlerSet(c) THEN "cleanup" ELSE "dead"]
  /\ exiting' = [exiting EXCEPT ![c] = TRUE]
  /\ UNCHANGED <<sigVars, priVars, chanVars, cancelType, cancelled>>

\* clean_thread_data: free the application's state, close the traces, then
\* the sangoma socket, then the TCP socket.
CloseSangoma(c) ==
  /\ MediaGoto(c, "cleanup", "closetcp")
  /\ socks' = [socks EXCEPT ![c] = @ \ {"sangoma"}]
  /\ UNCHANGED <<sigVars, priVars, attached, running, chanLock, cancelVars>>

CloseTcp(c) ==
  /\ MediaGoto(c, "closetcp", "relock")
  /\ socks' = [socks EXCEPT ![c] = @ \ {"tcp"}]
  /\ UNCHANGED <<sigVars, priVars, attached, running, chanLock, cancelVars>>

LockForMark(c) ==
  /\ MediaGoto(c, "relock", "marking")
  /\ chanLock[c] = "free"
  /\ chanLock' = [chanLock EXCEPT ![c] = "media"]
  /\ UNCHANGED <<sigVars, priVars, attached, running, socks, cancelVars>>

\* running is FALSE from here on.  A thread still attached lets the lock go
\* and notifies; a detached one was hung up by the signaling thread.
MarkEnded(c) ==
  /\ MediaGoto(c, "marking", IF attached[c] THEN "wantspri" ELSE "told")
  /\ running' = [running EXCEPT ![c] = FALSE]
  /\ chanLock' = [chanLock EXCEPT ![c] = IF attached[c] THEN "free" ELSE @]
  /\ UNCHANGED <<sigVars, priVars, attached, socks, cancelVars>>

UnlockTold(c) ==
  /\ MediaGoto(c, "told", "dead")
  /\ chanLock' = [chanLock EXCEPT ![c] = "free"]
  /\ UNCHANGED <<sigVars, priVars, attached, running, socks, cancelVars>>

\* Mutant: the signal is sent without taking spri->lock.
LockForNotifyUnlocked(c) ==
  /\ MediaGoto(c, "wantspri", "notify")
  /\ UNCHANGED <<sigVars, priVars, chanVars, cancelVars>>

\* The signal is sent while holding spri->lock.
LockForNotify(c) ==
  /\ MediaGoto(c, "wantspri", "notify")
  /\ spriLock = "free" /\ spriLock' = "media"
  /\ UNCHANGED <<spc, cur, sel, needHangup, sigPending, crashed>>
  /\ UNCHANGED <<priVars, chanVars, cancelVars>>

Notify(c) ==
  /\ MediaGoto(c, "notify", "dead")
  /\ sigPending' = TRUE
  /\ spriLock' = "free"
  /\ UNCHANGED <<spc, cur, sel, needHangup, crashed>>
  /\ UNCHANGED <<priVars, chanVars, cancelVars>>

-----------------------------------------------------------------------------
WaitNext ==
  \/ LoopIdle \/ EnterSelect \/ SelectReturns \/ DeliverSignal \/ WakeNothing
  \/ \E c \in Chans : WakeRing(c) \/ WakeHangupReq(c) \/ WakeReleased(c)

PassNext == BeginPass \/ PassSkip \/ PassLock \/ PassEnd

ReapNext == ReapThread \/ ReapNobody

RingNext == RejectRing \/ AcceptRing \/ LaunchMedia \/ LaunchRefused \/ LaunchFails

HangupNext == HangupIgnored \/ HangupDetach \/ HangupCancel \/ HangupJoin

StartNext(c) == StartDisable(c) \/ StartDefer(c) \/ StartRunning(c)

SetupNext(c) ==
  OpenSangoma(c) \/ ConnectTcp(c) \/ Configured(c) \/ SetupFails(c)

EndNext(c) == AppEnds(c) \/ PopCleanup(c) \/ Cancelled(c)

CleanupNext(c) ==
  \/ CloseSangoma(c) \/ CloseTcp(c) \/ LockForMark(c) \/ MarkEnded(c)
  \/ UnlockTold(c) \/ LockForNotify(c) \/ Notify(c)

SigNext == WaitNext \/ PassNext \/ ReapNext \/ RingNext \/ HangupNext

MediaNext(c) == StartNext(c) \/ SetupNext(c) \/ EndNext(c) \/ CleanupNext(c)

Next == SigNext \/ \E c \in Chans : MediaNext(c)

Spec == Init /\ [][Next]_vars

-----------------------------------------------------------------------------
(* Safety.                                                                  *)

SigTypeOK ==
  /\ spc \in SigPc
  /\ cur \in 1 .. NumChans + 1
  /\ sel \in {"none", "timer", "input", "error", "eintr"}
  /\ needHangup \in BOOLEAN /\ sigPending \in BOOLEAN /\ crashed \in BOOLEAN
  /\ spriLock \in {"free", "sig", "media"}

ChanTypeOK ==
  /\ up \in [Chans -> BOOLEAN] /\ called \in [Chans -> BOOLEAN]
  /\ mpc \in [Chans -> MediaPc]
  /\ attached \in [Chans -> BOOLEAN] /\ running \in [Chans -> BOOLEAN]
  /\ chanLock \in [Chans -> {"free", "sig", "media"}]
  /\ socks \in [Chans -> SUBSET {"sangoma", "tcp"}]

CancelTypeOK ==
  /\ cancelType \in [Chans -> {"deferred", "async"}]
  /\ exiting \in [Chans -> BOOLEAN] /\ cancelled \in [Chans -> BOOLEAN]

TypeOK == SigTypeOK /\ ChanTypeOK /\ CancelTypeOK

\* A media thread that ended by itself is never forgotten: once it has
\* notified, either the signal is still on its way or need_hangup is set, and
\* if a pass is under way it has yet to reach the channel.  Clearing
\* need_hangup at the end of a pass (main.c:242) loses nobody, because
\* notifications are sent under spri->lock (media.c:75-78).
NoEndForgotten ==
  \A c \in Chans :
    mpc[c] = "dead" /\ attached[c] =>
      \/ sigPending
      \/ /\ needHangup
         /\ spc \in {"pass", "reap"} => cur <= c

\* A thread that lost its place in chan->media_thread while it lives is in
\* the hands of on_hangup, which cancels and joins it: nothing else could.
DetachedIsBeingJoined ==
  \A c \in Chans :
    mpc[c] # "none" /\ ~attached[c] /\ ~crashed
      => spc \in {"cancel", "join"} /\ cur = c

\* on_hangup joins with spri->lock held.  The thread it joins exists and never
\* comes to wait for that lock: it finds itself detached when it ends
\* (main.c:56-60, media.c:66-67).
CancelledNeverNotifies ==
  spc \in {"cancel", "join"} => mpc[cur] \notin Telling \cup {"none"}

\* A channel whose media thread is gone holds no descriptors, unless running
\* still claims the thread lives (the cleanup was killed, see the README).
EndedHoldsNoSocket ==
  \A c \in Chans : mpc[c] \in {"none", "dead"} /\ ~running[c] => socks[c] = {}
-----------------------------------------------------------------------------
(* Liveness.  Both kinds of thread are scheduled fairly, and a thread that  *)
(* waits for a mutex which is released again and again gets it in the end   *)
(* (strong fairness).  select returns because libpri always has a timer     *)
(* running (T200 or T203 of the link).  Nothing makes an application end.   *)

\* Everything the signaling thread does by itself: all but the arrival of
\* events and signals.
SigStep ==
  \/ LoopIdle \/ EnterSelect \/ SelectReturns \/ WakeNothing
  \/ PassNext \/ ReapNext \/ RingNext \/ HangupNext

\* A media thread's own steps: all but the end of the application.
MediaStep(c) ==
  StartNext(c) \/ SetupNext(c) \/ PopCleanup(c) \/ Cancelled(c) \/ CleanupNext(c)

Fairness ==
  /\ SF_vars(SigStep)
  /\ WF_vars(DeliverSignal)
  /\ \A c \in Chans : SF_vars(MediaStep(c))

FairSpec == Spec /\ Fairness

\* The signaling thread waits for a media thread that waits for a lock the
\* signaling thread holds, or for a lock whose owner was killed.
Wedged ==
  \/ spc = "reap" /\ mpc[cur] \in Starting \cup Telling
  \/ /\ spc \in {"pass", "hangup", "launch"} /\ cur \in Chans
     /\ chanLock[cur] = "media" /\ mpc[cur] \notin {"marking", "told"}

\* The join of on_hangup (main.c:71) returns: a cancelled thread gets to its
\* end without needing anything from the signaling thread.
CancelReturns == spc = "join" ~> spc # "join"

\* A media thread that ended by itself is joined and its call hung up, in the
\* very next passes of the loop.  The exceptions are listed: the wedges of
\* the findings, a crash on undefined behaviour, and the end of the signaling
\* loop on a select error.
EndIsReaped ==
  \A c \in Chans :
    mpc[c] \in Telling \cup {"dead"} /\ attached[c]
      ~> mpc[c] = "none" \/ Wedged \/ crashed \/ spc = "exited"

-----------------------------------------------------------------------------
(* What the comments of the source say of the program, and TLC refutes.     *)

\* "this call should return immediately given that the media thread has
\* already ended" (main.c:232).  It may still be waiting for spri->lock to send
\* its notification, and the loop handler holds that lock.
JoinedHasNotified == spc = "reap" => mpc[cur] \notin Telling

\* "it does not matter at which point of this thread we get cancelled, the
\* cleanup routine will take care of closing sockets" (media.c:206-208).  It
\* may be cut short, its descriptors open or chan->lock taken for ever.
CleanupCompletes ==
  \A c \in Chans : mpc[c] = "dead" => socks[c] = {} /\ chanLock[c] # "media"

\* "if the channel is no longer running means the media thread was about to
\* notify us about the hangup" (main.c:78).  It may not have started running.
IgnoredHangupIsNotified ==
  spc = "hangup" /\ chanLock[cur] = "free" /\ ~running[cur]
    => mpc[cur] \in Telling \cup {"dead"}

\* "either the modem server shutdowns the TCP connection or the PRI link shuts
\* down the connection, in either case the call is terminated and the media
\* thread destroyed" (sbridge_chan.h:52-53).  PRI_EVENT_HANGUP is only logged.
MediaOnlyWithCall ==
  \A c \in Chans : spc = "select" /\ mpc[c] = "app" => up[c]
=============================================================================
