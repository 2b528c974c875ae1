------------------------------ MODULE HostPool ------------------------------
(***************************************************************************)
(* The list of TCP servers of the configuration, and get_tcp_sock, by      *)
(* which every media thread looks for a server to connect to.  The threads *)
(* of all channels search the list at the same time; only the access to    *)
(* one entry is atomic (its spin lock).                                    *)
(* Name resolution, sockets and the servers are external.                  *)
(***************************************************************************)
EXTENDS Integers

CONSTANTS
  NumHosts,      \* config->numhosts
  Callers,       \* the media threads
  DisableTime,   \* SBRIDGE_HOST_DISABLE_TIME
  MaxTime,       \* bound on the clock
  Good,          \* servers that always resolve and always accept
  SysFails       \* the threads whose socket() and fcntl() may fail

ASSUME HostAssumption ==
  /\ NumHosts \in Nat \ {0}
  /\ DisableTime \in Nat /\ MaxTime \in Nat
  /\ Good \subseteq 1 .. NumHosts
  /\ SysFails \subseteq Callers

Hosts == 1 .. NumHosts

VARIABLES
  now,           \* time()
  disabled,      \* tcp_hosts[i].disabled
  enableTime,    \* tcp_hosts[i].enable_time
  pc,            \* where the caller is
  host,          \* i
  began,         \* currtime, read once on entry
  sock,          \* what chan->tcp_sock refers to
  lost           \* the caller overwrote a descriptor that was still open

poolVars == <<disabled, enableTime>>
vars == <<now, poolVars, pc, host, began, sock, lost>>

Searching == {"check", "resolve", "socket", "connect", "flags", "ban"}
HostPc == {"idle", "decide", "enable", "success", "failure"} \cup Searching
SockState == {"none", "open", "blocking", "ready"}

Init ==
  /\ now = 0
  /\ disabled = [h \in Hosts |-> FALSE]
  /\ enableTime = [h \in Hosts |-> 0]
  /\ pc = [c \in Callers |-> "idle"]
  /\ host = [c \in Callers |-> 1]
  /\ began = [c \in Callers |-> 0]
  /\ sock = [c \in Callers |-> "none"]
  /\ lost = [c \in Callers |-> FALSE]

Goto(c, from, to) == pc[c] = from /\ pc' = [pc EXCEPT ![c] = to]

\* continue: the next entry of the list.
NextHost(c, from) ==
  /\ Goto(c, from, "check")
  /\ host' = [host EXCEPT ![c] = @ + 1]

Tick ==
  /\ now < MaxTime
  /\ now' = now + 1
  /\ UNCHANGED <<poolVars, pc, host, began, sock, lost>>

-----------------------------------------------------------------------------
(* get_tcp_sock                                                             *)

Begin(c) ==
  /\ Goto(c, "idle", "check")
  /\ began' = [began EXCEPT ![c] = now]
  /\ host' = [host EXCEPT ![c] = 1]
  /\ UNCHANGED <<now, poolVars, sock, lost>>

Barred(c, h) == disabled[h] /\ began[c] < enableTime[h]

SkipHost(c) ==
  /\ host[c] \in Hosts /\ Barred(c, host[c])
  /\ NextHost(c, "check")
  /\ UNCHANGED <<now, poolVars, began, sock, lost>>

UseHost(c) ==
  /\ host[c] \in Hosts /\ ~Barred(c, host[c])
  /\ Goto(c, "check", "resolve")
  /\ disabled' = [disabled EXCEPT ![host[c]] = FALSE]
  /\ UNCHANGED <<now, enableTime, host, began, sock, lost>>

EndOfList(c) ==
  /\ host[c] \notin Hosts
  /\ Goto(c, "check", "decide")
  /\ UNCHANGED <<now, poolVars, host, began, sock, lost>>

Resolve(c) ==
  /\ \/ Goto(c, "resolve", "socket")
     \/ host[c] \notin Good /\ Goto(c, "resolve", "ban")
  /\ UNCHANGED <<now, poolVars, host, began, sock, lost>>

\* The result of socket() replaces whatever chan->tcp_sock held.
OpenSocket(c) ==
  /\ Goto(c, "socket", "connect")
  /\ sock' = [sock EXCEPT ![c] = "open"]
  /\ lost' = [lost EXCEPT ![c] = @ \/ sock[c] # "none"]
  /\ UNCHANGED <<now, poolVars, host, began>>

SocketFails(c) ==
  /\ c \in SysFails
  /\ NextHost(c, "socket")
  /\ sock' = [sock EXCEPT ![c] = "none"]
  /\ lost' = [lost EXCEPT ![c] = @ \/ sock[c] # "none"]
  /\ UNCHANGED <<now, poolVars, began>>

Connect(c) ==
  /\ Goto(c, "connect", "flags")
  /\ sock' = [sock EXCEPT ![c] = "blocking"]
  /\ UNCHANGED <<now, poolVars, host, began, lost>>

\* Mutant: a failed connect ends the search.
ConnectFailsBreaks(c) ==
  /\ host[c] \notin Good
  /\ Goto(c, "connect", "decide")
  /\ UNCHANGED <<now, poolVars, host, began, sock, lost>>

ConnectFails(c) ==
  /\ host[c] \notin Good
  /\ Goto(c, "connect", "ban")
  /\ UNCHANGED <<now, poolVars, host, began, sock, lost>>

\* Mutant: the entry is looked up after i moved on.
BanNext(c) ==
  /\ NextHost(c, "ban")
  /\ disabled' = [disabled EXCEPT ![host[c] + 1] = TRUE]
  /\ enableTime' = [enableTime EXCEPT ![host[c] + 1] = began[c] + DisableTime]
  /\ UNCHANGED <<now, began, sock, lost>>

\* The entry is disabled from the time the search began.
Ban(c) ==
  /\ NextHost(c, "ban")
  /\ disabled' = [disabled EXCEPT ![host[c]] = TRUE]
  /\ enableTime' = [enableTime EXCEPT ![host[c]] = began[c] + DisableTime]
  /\ UNCHANGED <<now, began, sock, lost>>

SetNonBlocking(c) ==
  /\ Goto(c, "flags", "decide")
  /\ sock' = [sock EXCEPT ![c] = "ready"]
  /\ UNCHANGED <<now, poolVars, host, began, lost>>

FlagsFail(c) ==
  /\ c \in SysFails
  /\ NextHost(c, "flags")
  /\ UNCHANGED <<now, poolVars, began, sock, lost>>

\* After the loop only the sign of chan->tcp_sock counts.
Succeed(c) ==
  /\ sock[c] # "none"
  /\ Goto(c, "decide", "success")
  /\ UNCHANGED <<now, poolVars, host, began, sock, lost>>

GiveUp(c) ==
  /\ sock[c] = "none"
  /\ Goto(c, "decide", "enable")
  /\ host' = [host EXCEPT ![c] = 1]
  /\ UNCHANGED <<now, poolVars, began, sock, lost>>

\* Mutant: one entry too many is enabled.
EnableHostLate(c) ==
  /\ pc[c] = "enable" /\ host[c] \in 1 .. NumHosts + 1
  /\ disabled' = [disabled EXCEPT ![host[c]] = FALSE]
  /\ host' = [host EXCEPT ![c] = @ + 1]
  /\ UNCHANGED <<now, enableTime, pc, began, sock, lost>>

\* "forcing enable of all hosts", one entry at a time.
EnableHost(c) ==
  /\ pc[c] = "enable" /\ host[c] \in Hosts
  /\ disabled' = [disabled EXCEPT ![host[c]] = FALSE]
  /\ host' = [host EXCEPT ![c] = @ + 1]
  /\ UNCHANGED <<now, enableTime, pc, began, sock, lost>>

Fail(c) ==
  /\ host[c] \notin Hosts
  /\ Goto(c, "enable", "failure")
  /\ UNCHANGED <<now, poolVars, host, began, sock, lost>>

\* The media thread ends, after the search or cancelled in a call that blocks
\* or logs: clean_thread_data closes chan->tcp_sock.
CleanUp(c) ==
  /\ pc[c] \in {"resolve", "connect", "ban", "decide", "success", "failure"}
  /\ pc' = [pc EXCEPT ![c] = "idle"]
  /\ sock' = [sock EXCEPT ![c] = "none"]
  /\ UNCHANGED <<now, poolVars, host, began, lost>>

\* The same, cut short before the socket is closed (see Span): the channel's
\* next media thread starts out with the old descriptor.
CleanUpKilled(c) ==
  /\ Goto(c, "success", "idle")
  /\ UNCHANGED <<now, poolVars, host, began, sock, lost>>

SearchStep(c) ==
  \/ SkipHost(c) \/ UseHost(c) \/ EndOfList(c) \/ Resolve(c)
  \/ OpenSocket(c) \/ SocketFails(c) \/ Connect(c) \/ ConnectFails(c)
  \/ Ban(c) \/ SetNonBlocking(c) \/ FlagsFail(c)

FinishStep(c) ==
  Succeed(c) \/ GiveUp(c) \/ EnableHost(c) \/ Fail(c) \/ CleanUp(c) \/ CleanUpKilled(c)

Next == Tick \/ \E c \in Callers : Begin(c) \/ SearchStep(c) \/ FinishStep(c)

Spec == Init /\ [][Next]_vars

-----------------------------------------------------------------------------
TypeOK ==
  /\ now \in Nat
  /\ disabled \in [Hosts -> BOOLEAN]
  /\ enableTime \in [Hosts -> Nat]
  /\ pc \in [Callers -> HostPc]
  /\ host \in [Callers -> 1 .. NumHosts + 1]
  /\ began \in [Callers -> Nat]
  /\ sock \in [Callers -> SockState]
  /\ lost \in [Callers -> BOOLEAN]

\* A server that never fails is never disabled, whatever the other servers and
\* the other threads do: each failure is charged to the entry that failed.
GoodHostsStayOn == \A h \in Good : ~disabled[h]

\* Failover (sbridge.conf:19-23): as long as some server never fails, a search
\* without failing system calls succeeds, whatever happens to the other threads'
\* searches, and with a server no later in the list than the first of those.
FailoverWorks ==
  Good # {} =>
    \A c \in Callers \ SysFails :
      /\ pc[c] \notin {"enable", "failure"}
      /\ pc[c] = "success" => sock[c] = "ready" /\ \A h \in Good : host[c] <= h

-----------------------------------------------------------------------------
(* What comments and the configuration say, and TLC refutes.                *)

\* "This media thread will immediately open a TCP connection to the modem
\* server" (sbridge_chan.h:47).  When every server fails, the last socket tried
\* stays in chan->tcp_sock and the search succeeds with it, unconnected.
SuccessIsConnected ==
  \A c \in Callers : pc[c] = "success" => sock[c] \in {"blocking", "ready"}

\* "the cleanup routine will take care of closing sockets or any other resource
\* we eventually allocate" (media.c:207-208).  The socket of a failed server is
\* overwritten by the next one's.
NoSocketLost == \A c \in Callers : ~lost[c]
=============================================================================
