# Verification of sbridge in TLA+

sbridge bridges ISDN PRI calls to TCP servers: it answers calls through libpri,
connects each to a server, and runs a voice, V.110 or V.32 application between
the two. This directory holds TLA+ models of it, TLC runs and TLAPS proofs.
File references are relative to the repository (`src/src/...` is its `src`
directory).

## Inventory

| Component | State | Operations | Interacts with |
|---|---|---|---|
| Signaling thread, one per span (`sbridge_main.c`, `sangoma_pri.c`) | `need_hangup`, `spri->lock`, event map, per channel `media_thread`, `running`, `call`, `lock` | `sangoma_one_loop`, `signaling_loop_handler`, `on_ring`, `on_hangup`, `on_anything`, `shutdown_media_thread` (signal handler) | libpri by calls and events; media threads by create, cancel, join, SIGUSR1 |
| Media thread, one per call (`sbridge_media.c`) | `sangoma_sock`, `tcp_sock`, `v110`/`v32` state, cancellation type | `bridge_channel_media`, `clean_thread_data`, `sbridge_launch_media_thread` | signaling thread, server list, application |
| OS layer (`sbridge_os.c`) | none | threads, cancellation, mutexes, spin locks, time | POSIX |
| Server list (`sbridge_media.c`, `sbridge_config.c`) | `disabled`, `enable_time`, `lock` per entry | `get_tcp_sock`, `create_hosts` | all media threads concurrently |
| V.110 (`sbridge_v110.c`) | rings `ibuf`, `obuf`; `nextibit`, `nextobit`, `nextoline`, `synccount`, `cts`, `rts`, `sbit`; frame being collected | `v110_getline`, `v110_process_frame`, `v110_input_frame_x4/x2/x1`, `fill_outframe_*`, `sbridge_run_v110` | sangoma socket, TCP socket, far end |
| Voice (`sbridge_media.c`) | none | `sbridge_media_voice` | the same sockets |
| V.32 and V.14 (`sbridge_v32.c`, `v32/`, `v14/`) | transmit and receive state machines, filters, bit queues | `v32_int`, answer and call handshake, `v14_encode/decode` | the same sockets |
| Configuration, log, blacklist | configuration structure, SQLite handle | start-up parsing, one query per call | all |
| libpri, Q.931 (`q931.c`) | per call: own and peer's call state, `alive`, timer, channel, `sendhangupack` | `q931_receive`, `q931_hangup`, `q931_connect`, timeouts T305, T308, T313 | sbridge's handlers by events; Q.921 |
| libpri, Q.921 (`q921.c`, `prisched.c`) | per link: state, `v_s`, `v_a`, `v_r`, window, retransmission queue, T200, T203, SABME timer | `q921_receive`, `q921_transmit_iframe`, `t200_expire`, `t203_expire`, `q921_dchannel_up`/`down` | the D channel, which loses frames; Q.931 |
| libpri, facilities (`rose*.c`, `asn1*.c`) | none | `rose_encode`, `rose_decode`, one encoder and decoder per operation argument, ASN.1 primitives | Q.931 facility elements; the peer's encoder |

What is hard: two threads can end the same call at the same time, with two
locks, a signal, POSIX cancellation and a blocking join between them; many
media threads share the server list and work on it with values read earlier;
V.110 cuts characters at every bit position through two rings, with flow
control and partial writes; libpri and V.32 are event-driven state machines
with timers. What makes each part correct:

* **span**: each call ends exactly once, whoever ends it; no end is forgotten;
  nobody waits for somebody who waits for him; every descriptor is closed.
* **server list**: a healthy server is found and stays enabled; a failed one is
  put aside for the time configured; no descriptor leaks.
* **V.110**: characters arrive unaltered, in order, once, in both directions;
  flow control loses nothing and never stays on for no reason; two ends that
  start at different times find each other's frames and send no data before.
* **Q.921**: messages arrive once and in order, or layer 3 is told that the
  link went down; a timer always watches.
* **Q.931**: an event names a call that exists; a clearing the peer was told of
  is watched and ends; what libpri takes for an established call is served.
* **facilities**: what one side encodes the other decodes, in any form X.690
  allows; what is damaged is refused.
* **V.32**: both state machines reach data.

## Modules

| Module | Models | Kind |
|---|---|---|
| `Span` | call set-up and tear-down on one span: signaling thread and media threads | specification, properties |
| `SpanProofs` | inductive invariant of `Span`, proofs | proofs |
| `MCSpan` | TLC instance | |
| `HostPool` | the shared server list, `get_tcp_sock` | specification, properties |
| `HostPoolProofs` | inductive invariant of `HostPool`, proofs | proofs |
| `MCHostPool` | TLC instances | |
| `V110Bits` | octets as sets of bit positions, C's bit operations on them | operators |
| `V110Tx` | `v110_getline`, the ring `obuf` and its refill; the far end's decoder | specification, properties |
| `V110TxProofs`, `V110RxProofs`, `V110SyncProofs` | proofs about the modules of those names | proofs |
| `V110Rx` | `v110_process_frame`, the ring `ibuf` and its flush; the far end's sender | specification, properties |
| `V110Sync` | the hunt for frames and the checks on them, two ends that synchronise | specification, properties |
| `MCV110Tx`, `MCV110Rx`, `MCV110Sync` | TLC instances | |
| `LinkService` | what a link layer promises | abstract specification |
| `Q921` | one station: each function of `q921.c` as an operator on its record | operators |
| `Q921Link` | two stations and the line between them; refines `LinkService` | specification, properties |
| `Q921Proofs` | types and timers of `Q921Link`; its numbers: the window, and that it implements `LinkService` | proofs |
| `Q931` | one call: each function of `q931.c` as an operator on its record | operators |
| `Q931Span` | the calls of a span, sbridge's handlers, media threads, any network | specification, properties |
| `Q931Proofs` | proofs about `Q931Span` | proofs |
| `Asn1Primitive` | tags, lengths and the ASN.1 primitives, encoders and decoders | operators |
| `Asn1Proofs` | what `Asn1Primitive` encodes it decodes | proofs |
| `Asn1` | components of indefinite length, and a small grammar that describes a decoder | operators |
| `RoseAddress`, `RoseQ931`, `RoseOther`, `RoseEtsiAoc`, `RoseQsig*` | the encoders and decoders of the file of the same name | operators |
| `RoseTypes` | the structures of `rose.h` as sets of sample values | operators |
| `Rose` | the tables of operations and errors, components, headers (`rose.c`) | operators |
| `RoseLink` | an element that is encoded, carried and decoded | specification, properties |
| `MCQ921`, `MCQ931`, `MCRose` | TLC instances | |

How they fit together: `V110Tx`, `V110Rx` and `V110Sync` meet in the status
bits and the octets of a frame. In `V110Tx` the status bits change freely
(`SetStatus`), in the other two they are computed; `V110Sync` says when the
octets that `V110Rx` takes apart are those of one frame. `Span` has the threads
in detail and libpri as a choice of events; `Q931Span` has libpri's calls in
detail and a media thread as five states. `Q921Link` carries opaque messages,
which are what `Q931Span` receives in order.

### Span

`spc` is the place of the signaling thread, `mpc[c]` that of channel c's media
thread. A thread's program is cut where the other side can see the difference;
within a step come all effects of the code up to the next such place.

| Station | Code |
|---|---|
| `top`, `pass`, `reap` | `sangoma_one_loop` up to the unlock; the loop handler's pass over the channels, with a step per channel (`PassSkip`, `PassLock` + `ReapThread`/`ReapNobody`) |
| `presleep`, `select`, `awake` | after the unlock; in select; after it |
| `ring`, `launch` | `on_ring`, before and in `sbridge_launch_media_thread` |
| `hangup`, `cancel`, `join` | `on_hangup`: lock and test, cancel, join |
| `start` ... `app` | `bridge_channel_media` |
| `ending`, `cleanup` ... `notify`, `told` | `clean_thread_data` |
| `dead`, `none` | ended and not joined; no thread |

Locks are variables with an owner; where a lock is taken and let go with
nothing in between that others could see, the step only requires it free. A
channel's `running`, `attached` (`media_thread` is valid), `socks` and
`called` (`call` is not NULL) are the fields of `sbridge_chan_t`. `up` is
libpri's side: there is a call that is not hung up.

Cancellation follows POSIX and the OS layer as written:
`sbridge_thread_setcancelstate` passes its argument to
`pthread_setcanceltype` (`sbridge_os.c:36`), so "disable" means asynchronous
and "enable" deferred. With deferred cancellation a thread acts on it at the
blocking calls of set-up and application; with asynchronous cancellation
anywhere. A handler once running is not restarted.

Undefined behaviour is a choice: a join of an invalid identifier fails or ends
the process; `pri_hangup` through a stale `chan->call` does nothing, ends the
process, or hits whichever call has that memory now; a failed `pthread_create`
leaves a valid-looking identifier or not. `crashed` stops the model.

### HostPool

A thread's place in `get_tcp_sock` is `pc`; `host` is the loop index, `began`
the time read on entry. Access to one entry is one step, as its spin lock makes
it; everything else interleaves. Servers outside `Good` may fail at resolution
or connect, each time anew. `sock` tells what `chan->tcp_sock` refers to,
`lost` that an open descriptor was overwritten. A cancelled or ended thread
closes `tcp_sock`, unless its cleanup is itself killed (see `Span`).

### V110Tx and V110Rx

An octet is the set of its one bits, so that `&`, `|` and shifts are set
operations. The sender's actions are the paths through `v110_getline`; an
independent decoder (`Hear`, `Listen`) listens to the data bits. The
receiver's are the paths through the loop body of `v110_process_frame`; the
far end puts characters at any bit position with any fill (`StartPlaces`).
`Replenish` and `Flush` are the two halves of the application's loop on the
TCP socket, with the sizes the code computes and any part of them read or
written. Frames in the loop have any length, so reads may come between any two
octets; flushes come between frames.

### V110Sync

A step moves one chip (what one octet of the B channel holds of a frame: 2, 4
or 8 bits) in both directions. `at` is the sender's place in its frame,
`vframe_in_len` the receiver's, so they are in step when equal (`Aligned`). Of
the frame being collected only the outcome of the checks (`ok`) and the flow
control bit (`flow`) are kept. An end carries any of `DataLines` in an octet
while `cts` is clear, and for two octets more, which a character that was begun
may take; these are more sequences than start and stop bits allow. `losing`
ends may miss any number of chips. `heard` and `gap` are history for the
properties.

### Q921, Q921Link and LinkService

A station is the fields of `struct pri` that `q921.c` uses; an operator per
function returns the station changed, with the frames it transmits in `out`
and what goes to layer 3 in `up`. The actions are a message of layer 3, a
timer, a frame that arrives (with an answer of layer 3 inside the handler or
not), a frame lost, and a frame libpri would not send itself. Timers depend on
time only so far as the code's values do: T200 (1 s) runs out when this end's
own frames are off the line, T203 (10 s) and the last T200 when both directions
are empty. The timer fields hold names of events, because `t203_expire` stores
the identifier of T200 in `t203_timer` (`q921.c:566`).

Two things about timers are not in the model. A field that is set anew or to 0
without `pri_schedule_del` (`q921.c:438`, 462, 566, 804 and 445, 469, 481, 570)
forgets its event in the model, while in the code the event stays scheduled and
runs later: a frame that arrives before the link is up starts T203, and the UA
overwrites it. And a field whose event ran keeps the number of its slot, which
may by then be another timer's (`prisched.c:47`): stopping it then stops that
one. With such events, at most one left over at a time, TLC found no violation
of the run's properties in the 6 million states it got through, but did not
finish, and the proofs are about the model without them.

`Service == INSTANCE LinkService WITH pending <- ..., limbo <- ...` maps the
retransmission queue without what the peer has already taken to `pending`, and
what was thrown away with the link to `limbo`.

The RNR of other equipment comes only from an end whose link is up.

A SABME received in the established state goes through `q921_dchannel_up`
without `q921_reset` (`q921.c:1135-1157`): this end keeps the numbers of the
old session. `stale` marks that, and the model stops there.

### Q931 and Q931Span

A call is libpri's record; `told`, `sent` and `event` collect what a function
does. The network may send any message for any reference and channel at any
time, also a SETUP for a channel that has a call, which overwrites `chan->call`
(`sbridge_main.c:170`), or a message that gives a released call a state again.
The history variable `polite` tells whether it has so far kept to `Polite`: a
channel is offered to one call at a time, a SETUP is repeated as it was, and a
released call is left alone. `Within` bounds what a behaviour holds by one of
`Loads`: how many calls at a time, on which channels, of a network that must be
polite or need not. The handlers are `on_ring` with its three outcomes, `on_hangup`,
`on_anything` and `signaling_loop_handler`, which uses `chan->call` also when
libpri has freed it (`astray`, where the model stops). `LocalNetwork` is
libpri's side of the interface.

A media thread is "starting" until it has set `running`, for which it needs
`chan->lock` (`sbridge_media.c:223`), "running", and "ending" from where it
clears `running` until it has notified, for which it needs `spri->lock`
(`sbridge_media.c:76`). In both of these `running` is FALSE, so the loop handler
joins the thread (`Waiting`), with both locks held: `LoopSticks` sets `joining`
to the channel, and from then on neither thread moves. `LoopHandler` is the pass
that meets no such thread.

A CONNECT ACKNOWLEDGE that comes after DISCONNECT stops T305 or T308 in any
state (`q931.c:3583`), and a message for a released call whose record lingers
gives it a state without a timer. Such calls are `late` and excepted from
`ClearingIsWatched` and `ClearedInTheEnd`: the code may leave them as they are
for ever. `ClearedInTheEnd` also excepts a span that is `Lost`, one whose
signaling thread waits in its join or that used a freed record. A clearing that
the peer begins has no timer at all; what the code promises of it is
`DisconnectAnswered`, which is false (finding 4).

### The facility modules

Encoders are operators that return octets. A decoder is data: a node of the
grammar of `Asn1` (`In`, `For`, `IfTag`, `Either`, ...), one node per
decoding macro, which `Decode` interprets with the position and end that the C
functions pass on. `RoseTypes` gives each structure a typical value and all
that differ from it in one field, in which optional fields it has, or in the
length of a list. The environment of `RoseLink` re-encodes what was sent in
another form X.690 allows (indefinite lengths, lengths of four octets, strings
in pieces, elements of later versions), or cuts it.

## Runs

| Run | Instance | Shows |
|---|---|---|
| `Span` | 2 channels, all interleavings, fairness (287,454 states) | `TypeOK`, `NoEndForgotten`, `DetachedIsBeingJoined`, `CancelledNeverNotifies`, `EndedHoldsNoSocket`, `CancelReturns`, `EndIsReaped` |
| `Span_JoinedHasNotified` | 2 channels | finding 1 |
| `HostPool` | 2 threads, the system calls of one of them may fail; 3 servers, the second good; clock 0..2, disable time 1 | `TypeOK`, `GoodHostsStayOn`, `FailoverWorks` |
| `V110Tx` | ring of 3, threshold 2, all sequences of 4 characters out of 2, fairness | `TypeOK`, `InStep`, `NothingLost`, `AllHeard` |
| `V110Rx` | ring of 4, 2 synchronisation frames, all sequences of 5 characters out of 2, far ends that obey flow control and far ends that do not | `TypeOK`, `InStep`, `ReceivedIsSent`, `HoldsOffForAReason`, `FinishedStay` |
| `V110Sync` | 1, 2 and 4 chips per octet, 2 synchronisation frames, ends that start together or 3 chips apart, chips lost once towards one end (203,237 states) | `TypeOK`, `IdleAligns`, `DataIsHeard`, `AcceptsWholeFrames`, `Connects` |
| `Q921` | numbers modulo 4, window 2, one retransmission, two frames on the line, one loss of the link; two messages of the user, one of the network and a foreign frame, or five messages of the user (1,130,611 states) | `TypeOK`, `WindowKept`, `Supervised`, `ServiceKept` (the refinement) |
| `Q921_Resolved` | two messages of the user only | finding 2 |
| `Q931` | user side, 2 calls of a polite network on 1 channel, or 1 call of any network and 2 channels, fairness (418,140 states) | `TypeOK`, `EventNamesLiveCall`, `ClearingIsWatched`, `AliveIsServed`, `ClearedInTheEnd` |
| `Q931_DisconnectAnswered` | 1 reference, 1 channel, a polite network, fairness | finding 4 |
| `Q931_RejectedIsTold` | 1 reference | finding 3 |
| `Rose` | EuroISDN, Q.SIG, DMS100, NI2; up to 2 octets cut (48,980 states) | `RoundTrip`, `IndefiniteRead`, `NotMisread`, `CutRefused` |

Why the bounds suffice. `Span`: what goes wrong between calls needs a call that
ends while another's end is handled, so two channels; the proofs cover any
number. `HostPool`: a thread interferes with another through one entry, and the
third server stands for "behind a healthy one"; the clock goes past one disable
time; the proofs cover any list and any number of threads. The rings are small
so that they fill and wrap: `V110Rx` sends one character more than the ring has
entries, `V110Tx` twice what its ring holds. The two characters differ in every
bit, and neither is its own shift, so a bit in the wrong place shows.
`SyncFrames` is 5 in the code; 2 gives a frame before and one at
synchronisation.

`V110Sync`: the two data octets are those that lead the hunt astray, all zeros
and one whose bits 2 to 5 look like the E-bits from two bits off; an end that
is 3 chips ahead is inside the header at 4 chips per octet, in the next octet
at the other rates. A loss may last any number of chips, so the receiver is
left at every place of the frame; a second loss starts from no other place.

`Q921`: a behaviour holds one of two loads (`Loads`). In the first the user sends two
messages, the network one, possibly in reply, and one frame of other equipment
comes; in the second the user sends five, so that three wait behind a window of
two, `v_s` passes `Mod` (the code never reduces it) and the number 0 comes
again. Fewer than `Mod` messages wait at one time (`HasMessage`; 128 in the
code, see "Seen while modelling"). Two frames of line hold a frame and the answer it crosses.

`Q931`: a behaviour holds one of two loads. Two calls on one channel give a call
that comes while another holds it. Joining a thread that waits needs a second
channel, whose notification brought the pass about; one call is enough, as a
record that is released and taken again leaves its thread behind. That network
may send anything; the two calls of the first load are of a polite one, so that
liveness can be checked, and the safety properties were checked once by hand
with two calls of any network (1,310,659 states). Two calls on two channels are
beyond TLC (over 12 million states); the proofs cover any number of both. The
run on the network side, checked once by hand (192,551 states), shows the same.
`Rose`: each pair of
encoder and decoder is a function of one message; the samples have the values
at which the number of octets or a length form changes.

The bounds in guards are `MaxTime` (`HostPool!Tick`), `MaxSlips`
(`V110Sync!MayLose`), `Loads` (`Within` in `Q931Span`), `MaxDown` and the length of the queue in
`HasMessage` (`Q921Link`), and `MaxWire`, beyond which a frame is lost.

Deadlock is checked except for `Span`, which really can stop: after a crash,
after the signaling loop ended on a select error, and in the wedges of the
findings; for `Q921` and `Q931`, which stop at `stale`, `astray` and at their
bounds.

### Fairness

`Span`: strong fairness of the signaling thread's own steps and of each
media thread (both wait for mutexes that are let go again and again; a thread
that keeps asking gets the lock), weak fairness of signal delivery. The return
of select belongs to it because libpri always has T200 or T203 running, so the
timeout is finite. Arrival of calls and hangups, failures and the end of an
application are not fair. `EndIsReaped` excepts what the findings describe
(`Wedged`), a crash, and the end of the loop. `V110Tx`: frames keep coming
(the E1 clock) and the socket is read when it has data; the far end owes nothing
but what the property assumes. `V110Sync`: chips keep coming, and a loss ends.

`Q921Link`: timers run out (T200 and the frames that matter strongly: the line
is empty, or loses one of them, again and again), the line moves, and of the
frames that set the link up or carry a message, sent for ever, some arrive; a
line that loses each of them is a broken one. `Q931Span`: the signaling thread
handles its events and its pass, a thread gets the lock it waits for, and a timer
that is not stopped runs out; nothing makes the network send or a thread end. No
fairness undoes the join of a waiting thread: its steps are disabled for good.

## Findings

Each is a run that TLC ends with a counterexample.

1. `Span_JoinedHasNotified`: the loop handler joins a thread that waits for
   `spri->lock`, which the handler holds. Two calls that end together on one
   span stop its signaling for ever.
2. `Q921_Resolved`: when the first of two outstanding frames and then the REJ
   for it are lost, T200 repeats the last frame, the peer answers with an RR
   that says nothing new, `retrans` goes back to 0, and this goes on for ever
   without the first frame being sent again or the link being given up.
3. `Q931_RejectedIsTold`: a call that `on_ring` rejects is put in
   DISCONNECT_REQUEST without a message or a timer, as it is not `alive` yet
   (`q931.c:3238`).
4. `Q931_DisconnectAnswered`: `on_hangup` takes a channel that is not running
   for one whose thread is about to notify. When the thread has not set `running`
   yet, the hangup is dropped, the thread goes on, and the peer's DISCONNECT is
   never answered.

Statements that TLC refutes too; they are formulas of the modules, or were, and
no run of the project repeats them:

* `Span!CleanupCompletes`: cancellation kills the cleanup handler.
  `Span!IgnoredHangupIsNotified`: finding 4, seen from the threads.
  `Span!MediaOnlyWithCall`: a call released without DISCONNECT keeps its media
  thread and its TCP connection.
* `HostPool!SuccessIsConnected`: all servers refusing counts as success.
  `HostPool!NoSocketLost`: one descriptor leaks per refused connection.
* `V110Rx!ReceivedIsSent` with `LateStart`: a character that starts in the last
  data bit of an octet that also holds a stop bit is ORed into old contents of
  the ring.
* `Q931Span!ReleaseAnswered`: sbridge takes no notice of the event HANGUP
  (RELEASE), which libpri leaves to the application to answer (`libpri.h:78`);
  RELEASE is never answered and the record of the call stays.
* A name in the SEQUENCE form of a Q.SIG argument is always refused: the tag of
  the SEQUENCE is handed to the decoder of the name (`rose_qsig_name.c:384`).
  `NotMisread` only asks that it is not misread.

Seen while modelling, and part of the models:

* `Span`: the loop handler also joins channels that never had a thread, or
  whose thread has not set `running` yet (`ReapThread`, `ReapNobody`); the done
  signal can arrive just before select, and the hangup then waits for libpri's
  next timer (`DeliverSignal`, `EnterSelect`).
* `HostPool`: the disable time is counted from before the blocking calls
  (`Ban`).
* `V110Rx`: a full `ibuf` leaves `nextibit` unchanged and framing is lost
  (`RecvFull`).
* `V110Sync`: after lost chips the hunt locks up to three chips early when the
  last octet of a frame ends in zeros, the frame is refused, and the same can
  happen at the next one: while every frame ends in zeros nothing is received,
  and `synccount` does not go back, so the far end keeps sending. A frame that
  lost chips after its E-bits may be accepted, and its flow control bit taken.
* `Q921`: the bit that asks for an answer is cleared by RR commands only
  (`q921.c:1005`), so a REJ without F after a poll is ignored; `v_s` is never
  reduced (`q921.c:511`), so after 128 frames the window check accepts any
  number; `q921_ack_packet` takes the first frame with a number, sent or not
  (`q921.c:220-247`), and `v_a` stays at the last number acknowledged, so with
  128 messages waiting an acknowledgement takes out one that was never sent
  (seen with numbers modulo 3 and three messages waiting); REJ ignores the
  result of the acknowledgement and sends again frames it does not mark
  (`q921.c:1042-1063`); frames sent when the link comes up run
  with T203 only.
* `Q931`: a SETUP for a busy channel overwrites `chan->call` before the launch
  is refused, so the call that holds the channel is no longer the one that is
  hung up (`AliveIsServed` needs `polite`); a message for a released call
  whose record lingers gives it a state without a timer; a STATUS that says
  "null" releases a call and leaves T313 running, whose expiry puts the call in
  DISCONNECT_REQUEST with nothing sent; a hang-up by the loop handler can put a
  call in RELEASE_REQUEST without a RELEASE; a SETUP with the reference of a
  lingering record is ignored.
* Facilities: a NameSet without its character set but followed by another
  element is refused (`rose_qsig_name.c:275`); a name whose presentation is 0
  encodes to nothing; where the length of an inner SEQUENCE is checked against
  the end of the message instead of its element's (`rose_etsi_aoc.c:1532` and
  three more, `MustSeqOuter`), an element that overruns its parent is taken;
  arguments of `ASN1_CHECK_TAG` are swapped in a few
  places, so that constructed strings are refused there; integers too wide for
  their field are cut; of several components only the first is read.

## Proofs

**Span** (any `NumChans > 0`). `SpanProofs` proves `Spec => []IInv` and from it
the five invariants of the run. `IInv` adds to them:

* `SpriInv`: the owner of `spri->lock` is who the program counters say, which
  makes notifications and passes exclude each other;
* `CurInv`: the channel worked on, per station;
* `EndedInv`, `NotifiedInv`: an ended thread that is still attached has
  notified. `NoEndForgotten` alone is not inductive: it needs to know that a
  thread reaches `dead` only through `notify` while `spri->lock` is held, so
  not in the middle of a pass, with `running` already FALSE, so that the pass
  does not skip it;
* `CancelInv`: before its handler is pushed, a thread can only be cancelled by
  an on_hangup that saw `running`; what has been cancelled is detached;
* `CallInv`, `HangupInv`: on_hangup owns the thread it detached;
* `SocketInv`: descriptors per station of set-up and cleanup.

One lemma per conjunct shows it is preserved, by cases on the actions.

**HostPool** (any list, any number of threads, any clock). `IInv` adds: the
entry worked on is in the list (`HostInv`), only a failing server's entry is
about to be disabled (`BanInv`), a search has not passed a good server and holds
the socket it should at each station (`SearchInv`).

**V110Tx** (any ring size, threshold and inputs). `IInv` is `TypeOK`, `InStep`
and `Delivered`. `InStep`: the far end's count of bits equals `nextobit`, which
is even, and its data so far are those bits of the character at `obufstart`. So
the shift by `nextobit - 2`, undefined for 1, is always defined. `Delivered`:
what was heard and what waits in the ring, entry by entry, are the input taken
so far; `NothingLost` follows. It needs `InStep`, because `v110_getline` pops
`obufstart` when its own count says the character is over. The proof goes from
one bit (`StartBit`, `DataBit`, `StopBit`, `IdleBit`) to an octet (`OctetIdle`
... `OctetNext8`, one lemma per layout), shows that the masks of `v110_getline`
give that layout (`FinishBits`, `StartingBits`), and ends with a lemma per
action. `ReplenishStep` shows that `read` is never given the entry of the
character being sent. The first part, repeated in `V110RxProofs` for the other
ring, has what a ring needs: indices modulo the length, the number of entries
between two of them, the entry a distance away.

**V110Rx** (any ring size, input and way the socket cuts the writes). Whatever
the far end does, types are kept (`TypeCorrect`), a character once finished
stays (`FinishedCharactersStay`, an action property: proved step by step) and
flow control is asserted only with characters left to write
(`HeldOffForAReason`). Against a patient far end `IInv` adds `PatientInv`: the
decoder is between the same two bits with the data bits so far in the entry at
`ibufend` (`Kept`), the character under way has an entry of the ring behind it
(`Room`), and what was written and what waits in the ring, entry by entry, are
the characters finished so far (`Delivered`). `InStep` and `ReceivedIsSent`
follow. These three theorems assume `~LateStart`: the far end starts no
character in bit 6 directly behind a stop bit. `v110_getline` never does, and
with `LateStart` the statement is false (see "Findings").

**V110Sync** (each rate, any number of frames until synchronisation, any start,
any number of losses). `IInv` says per end what the octet under way is
(`Whole`), where the receiver is within a frame without data (`Settles`), what
an end that lost nothing knows of the other one (`Follows`, with `Quiet` until
the first header), and which check a frame that is none of the sender's has
still to fail (`Doomed`: the E-bits, or a first bit where the sender's header
is). `IdleAligns` follows from `Settles`, `DataIsHeard` from `Follows`,
`AcceptsWholeFrames` from `Doomed`.

**Q931Span** (any references and channels, both sides of the interface). `Inv`
says which calls can be met (`Sound`: what a timer, `alive`, `told` and the
states exclude of one another), that an established call is served also while
an event waits for its handler (`ServedInv`), and what a RING and a HANGUP_REQ
that waits still promises (`RingInv`, `HangupInv`). Whatever the network sends,
calls keep to `Sound`; `ServedInv` and the part of `RingInv` it rests on are for
a polite network, and so is `EstablishedIsServed`. `ClearingIsWatched` is not
inductive alone: `q931_hangup` and the timers reach DISCONNECT_REQUEST and
RELEASE_REQUEST from states that must be known to have no T313 left.

**Q921Link** (any modulus, window and number of retransmissions, any number of
messages, any length of line). `IInv` has the types of each station and of the
frames on the line, and `Watched`, which makes `Supervised` last: T200 may
expire and find nothing to do, but then T203 is on; when the event of T200
stands in the place of T203, the poll it guards is still unanswered. While a
frame is worked on only `Half` of this holds (`__q921_receive` starts T203 again
at the end). The proof follows the code: a lemma per function, on the station it
is given and the one it leaves, then one per frame, then one per action.

The second part proves `WindowKept` and the refinement `ServiceKept`. A
station knows numbers modulo `Mod` only, and neither statement is inductive
without what they stand for: a stale RR or a repeated I-frame still on the line
must not be mistaken for one of a later round. `NInv` therefore counts the
messages of each end from 1 and says, for each end and the line in both
directions:

* `Numbered`: the queue holds the messages from `Oldest` to the last one handed
  down, fewer than `Mod`, with consecutive numbers up to `v_s`; `v_a` is the
  number of the oldest or of the one before;
* `Counted`: `windowlen` counts at least the places of the queue whose message
  is marked as sent, has reached the peer or is on the line. The mark alone,
  which is all `WindowKept` speaks of, is not enough: after a reject, frames go
  out and are counted without being marked;
* `Sends`: the messages on the line bear their numbers and lie close enough
  together, and close enough to the one the peer wants, for a number to name
  only one of them;
* `Listens`: there is an assignment `g` of messages to the frames that come
  back, in order, such that each N(R) that will be looked at names `g`, between
  the oldest message kept and the one wanted: what is acknowledged has arrived;
* `Agrees`: the peer's `v_r` is the number of the message it wants, unless it
  is down and will yet hear that the link comes up (`Synced`).

The last two hold while `stale` is FALSE, that is, until a SABME meets a station
that goes on with numbers its peer has forgotten; there the model
stops (see the description of `Q921Link`), and the theorems say nothing of what
follows. `Runs` is what the functions of
`q921.c` keep while they work; there is a lemma for each of them, then
`ContinueKeeps` for any step that keeps the link, `EndedNumbers` for one that
gives it up, and a lemma per action. Each also shows `Serves`: what becomes of
the message the peer wants. From that and `Lie`, which places the messages that
wait and those in limbo between the last one that arrived and the last one
handed down, `NextServes` shows that a step is one of `LinkService` or a stutter.

Every conjunct of these invariants was checked by TLC on the instance of the
run before it was proved.

**Asn1Primitive** (every tag of one octet, that is, whose number is not 31;
every `int32_t`; strings and structures of less than 65536 octets, the limit of
`asn1_enc_length` in the model; object identifiers of up to `MaxOidValues`
values of 16 bits). Each theorem takes what an encoder returns, put anywhere
into any message (`Surrounds`: what stands before it, behind it, and where the
decoder is told that the message ends, is arbitrary), and says exactly what
`asn1_dec_tag` and the decoder of the value return: the tag, the value and the
position behind it when all of it is there, `Null` when the end comes before.
So `RoundTrip` and `CutRefused` hold of the primitives for all values, where the
run has samples. `IntegersSurvive`, `BooleansSurvive`, `NullsSurvive` and
`OidsSurvive` are about one primitive each; `StringsSurvive` also says what
happens to a string longer than the buffer (`ReadString`, which is the branch
of `DecString` for a definite length); `ConstructedsOpen`
says that the decoders of components are given the place of the components and
their end; `IntegersAreShort` says that `asn1_enc_int` cannot do with fewer
octets.

Three theorems assume nothing about the octets (`Given`: any octets, any place
and any end within them), so they cover primitives that are damaged and every form
of tag and length. `DecodersStayInside`: a decoder that does not return `Null` has
moved on and has not passed its end, and what it stores fits; so each round of a
loop over such components comes closer to the end. `NothingBehindIsRead`: two messages that are the same before the
end are read alike, so a decoder depends on nothing behind it.
`StringsStayInside`: a string of definite length fits its buffer with its zero.
They need what a length can be at all (`LengthInside`): a natural number that
leaves room for as many octets, or indefinite. A long length is shifted into an
`int`, so with four octets its top bit makes it negative; such a length passes
the test against `end`, but every caller tests for a negative length and takes
it for an indefinite one, which `LongLength` models.

The decoders are loops, and the argument is an induction over their rounds.
Such loops are recursive functions in the model: `Loop` shows that one exists
and obeys its equation, `Upwards` carries a fact from a round to the next
(from a least counterexample, so that no operator needs to be passed as a
parameter). `UnsignedReads`, `SignedReads`, `OidReadsIs` and `Flattened` apply
them to the loops of the code and to the concatenation in `asn1_enc_oid`.
`IntegerOctetsRead` rests on the number of octets `More9` finds, by cases on its four
results, `OidOctetsRead` on what `OidRead` has done and holds after each
subidentifier. `ElementRead` puts tag, length and contents together.

Assumptions: those named in the modules (`NumChansAssumption`,
`HostAssumption`, `TxAssumption`, `RxAssumption`, `SyncAssumption`,
`SpanAssumption`, `Q931Assumption`, `Q921Assumption`, `LinkAssumption`), evaluated by TLC in every
run, and `~LateStart` where stated.

Only model-checked:

* the liveness properties (`EndIsReaped`, `AllHeard`, `Connects`,
  `ClearedInTheEnd`, `CancelReturns`): liveness under fairness is out of the
  prover's reach;
* `RoseLink`: `RoundTrip`, `IndefiniteRead`, `NotMisread` and `CutRefused` are
  about decoders that are recursive operators (a structure within a structure,
  components of indefinite length, the strings a string may be cut into), which
  the prover cannot expand. What the first and the last of them say is proved of
  the primitives these decoders are made of (`Asn1Proofs`), in definite form;
  the composition, the tables of operations and the indefinite form are only
  checked.

## Not modelled, and the plan

* Voice: a loop without state of its own. Trace files, logging, parsing of the
  environment, the SQL query: no property depends on them.
* V.32 and V.14: the two state machines are sequences of steps that a counter or
  a detection ends. Whether a detection comes is signal processing on samples,
  which TLC cannot evaluate and a model would have to invent.
* libpri: TEI management and BRI, which a PRI link does not use; outgoing calls
  and RESTART, which sbridge does not use or only logs; information elements
  other than the facility element, whose contents no property tells apart; the
  table of the scheduler's slots, and with it events whose timer field was
  overwritten (see Q921); an unknown message for a new call, whose
  record `prepare_to_handle_q931_message` frees while `q931_receive` goes on
  with it; what libpri does with a decoded facility; its test programs.

Next, in this order:

1. `V110Call`: sender, receiver and loop of one end composed, shown to implement
   a queue of characters per direction.
2. `PriSched`: the slots of the scheduler with the timers of both layers: stale
   slot numbers and events left over, on one station first.
