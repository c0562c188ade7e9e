----------------------------- MODULE TcpClient ------------------------------
(***************************************************************************)
(* muduo::net::TcpClient and its Connector on their loop: one connection   *)
(* at a time, made by attempts that are retried with growing delays and,   *)
(* with enableRetry(), made anew when it is lost.                          *)
(*                                                                         *)
(* connect(), disconnect() and stop() are called by the loop thread        *)
(* between the loop's steps or by other threads, whose stores into the two *)
(* connect_ flags interleave with the loop's.  The loop polls, handles     *)
(* what was ready, then runs the functors queued until then (module        *)
(* EventLoop).  A connection is up until it is down once (TcpConnection).  *)
(*                                                                         *)
(* The user calls connect() once, and destroys the client on the loop      *)
(* thread, when no functor of a connector that goes with it is queued.     *)
(***************************************************************************)
EXTENDS Integers, Sequences, SequencesExt

CONSTANTS
  Threads,            \* threads other than the loop thread
  kInitRetryDelayMs,
  kMaxRetryDelayMs,
  Retry,              \* retry_
  MaxPending          \* bound: functors queued when user code calls

ASSUME ClientAssumption ==
  /\ kInitRetryDelayMs \in Nat \ {0}
  /\ kMaxRetryDelayMs \in Nat /\ kInitRetryDelayMs <= kMaxRetryDelayMs
  /\ Retry \in BOOLEAN
  /\ MaxPending \in Nat

VARIABLES
  clientConnect,  \* TcpClient::connect_
  connection,     \* connection_ is set
  clientAlive,    \* the TcpClient exists
  connect,        \* Connector::connect_
  state,          \* Connector::state_
  channel,        \* channel_: none, registered in the poller or removed
  retryDelayMs,   \* retryDelayMs_
  timers,         \* retry timers that run
  connectorAlive, \* the Connector exists
  link,           \* the connection: none, up, closed or forced to close
  sockets,        \* open sockets
  phase,          \* where loop() is: poll, events or functors
  active,         \* what poll() reported and has yet to be handled
  loopPc,         \* idle, or about to restart() or to startInLoop()
  pending, batch, \* functors queued, and those being run
  pc,             \* how far each other thread is in its call
  started,        \* history: connect() was called: no, begun, done
  stopped,        \* history: stop() took effect
  gaveUp,         \* history: a connect() failed for good
  faults          \* history: what must never happen

clientVars == <<clientConnect, connection, clientAlive>>
attemptVars == <<state, channel, retryDelayMs, timers>>
connectorVars == <<connect, attemptVars, connectorAlive>>
loopVars == <<phase, active, loopPc, pending, batch>>
historyVars == <<started, stopped, gaveUp, faults>>
vars == <<clientVars, connectorVars, link, sockets, loopVars, pc, historyVars>>

Calls == {"connect", "stop"}
Functors == {"startInLoop", "stopInLoop", "resetChannel", "connectDestroyed",
             "forceClose"}
Places == {"idle", "connector", "queue"}
Idle == [call |-> "connect", at |-> "idle"]

TypeOK ==
  /\ clientConnect \in BOOLEAN /\ connection \in BOOLEAN
  /\ clientAlive \in BOOLEAN
  /\ connect \in BOOLEAN
  /\ state \in {"kDisconnected", "kConnecting", "kConnected"}
  /\ channel \in {"none", "registered", "removed"}
  /\ retryDelayMs \in kInitRetryDelayMs .. kMaxRetryDelayMs
  /\ timers \in Nat
  /\ connectorAlive \in BOOLEAN
  /\ link \in {"none", "up", "closed"}
  /\ sockets \in Nat
  /\ phase \in {"poll", "events", "functors"}
  /\ active \subseteq {"timer", "connector", "connection"}
  /\ loopPc \in {"idle", "restart", "startInLoop"}
  /\ pending \in Seq(Functors) /\ batch \in Seq(Functors)
  /\ pc \in [Threads -> [call : Calls, at : Places]]
  /\ started \in {"no", "begun", "done"}
  /\ stopped \in BOOLEAN /\ gaveUp \in BOOLEAN
  /\ faults \subseteq {"danglingChannel", "deadClient"}

\* The loop has not polled yet: its thread may call before loop().
Init ==
  /\ clientConnect = TRUE /\ connection = FALSE /\ clientAlive = TRUE
  /\ connect = FALSE
  /\ state = "kDisconnected"
  /\ channel = "none"
  /\ retryDelayMs = kInitRetryDelayMs
  /\ timers = 0
  /\ connectorAlive = TRUE
  /\ link = "none"
  /\ sockets = 0
  /\ phase = "events" /\ active = {} /\ loopPc = "idle"
  /\ pending = <<>> /\ batch = <<>>
  /\ pc = [t \in Threads |-> Idle]
  /\ started = "no" /\ stopped = FALSE /\ gaveUp = FALSE
  /\ faults = {}

Queued == Range(pending) \cup Range(batch)
\* The functors bound to the raw address of the Connector.
OfConnector == {"startInLoop", "stopInLoop", "resetChannel"}

-----------------------------------------------------------------------------
(* The Connector's steps, on the loop thread.                              *)

\* The end of retry(), after close(): a timer, if still wanted.
Retried ==
  /\ state' = "kDisconnected"
  /\ IF connect
       THEN /\ timers' = timers + 1
            /\ retryDelayMs' = Min({retryDelayMs * 2, kMaxRetryDelayMs})
       ELSE UNCHANGED <<timers, retryDelayMs>>

\* connecting(): a new Channel replaces what channel_ held.
Connecting ==
  /\ state' = "kConnecting"
  /\ channel' = "registered"
  /\ sockets' = sockets + 1
  /\ faults' = faults \cup
       IF channel = "registered" THEN {"danglingChannel"} ELSE {}
  /\ UNCHANGED <<retryDelayMs, timers, gaveUp>>

\* startInLoop() and connect(), by what ::connect() returns: in progress, to
\* be retried, or an error that is only logged.
StartInLoop ==
  /\ loopPc = "startInLoop"
  /\ loopPc' = "idle"
  /\ \/ connect /\ Connecting
     \/ /\ connect
        /\ Retried
        /\ UNCHANGED <<channel, sockets, gaveUp, faults>>
     \/ /\ connect
        /\ gaveUp' = TRUE
        /\ UNCHANGED <<attemptVars, sockets, faults>>
     \/ ~connect /\ UNCHANGED <<attemptVars, sockets, gaveUp, faults>>
  /\ UNCHANGED <<clientVars, connect, connectorAlive, link, phase, active,
                 pending, batch, pc, started, stopped>>

\* removeAndResetChannel()
RemoveAndResetChannel ==
  /\ channel' = "removed"
  /\ pending' = Append(pending, "resetChannel")

\* Mutant of StopInLoop: an attempt under way is left alone.
StopInLoopNothing == UNCHANGED <<attemptVars, sockets, pending>>

\* stopInLoop()
StopInLoop ==
  IF state = "kConnecting"
    THEN /\ RemoveAndResetChannel
         /\ sockets' = sockets - 1
         /\ Retried
    ELSE UNCHANGED <<attemptVars, sockets, pending>>

\* resetChannel()
ResetChannel ==
  /\ channel' = "none"
  /\ faults' = faults \cup
       IF channel = "registered" THEN {"danglingChannel"} ELSE {}

\* TcpClient::newConnection() up to the callback of the user.
NewConnection ==
  /\ connection' = TRUE
  /\ link' = "up"
  /\ faults' = faults \cup IF clientAlive THEN {} ELSE {"deadClient"}

\* handleWrite() of an attempt that went well.
Connected ==
  /\ RemoveAndResetChannel
  /\ state' = "kConnected"
  /\ IF connect
       THEN NewConnection /\ UNCHANGED sockets
       ELSE sockets' = sockets - 1 /\ UNCHANGED <<connection, link, faults>>
  /\ UNCHANGED <<retryDelayMs, timers>>

\* Mutant of AttemptFails: retry() is not called.
AttemptFailsQuietly ==
  /\ RemoveAndResetChannel
  /\ sockets' = sockets - 1
  /\ state' = "kDisconnected"
  /\ UNCHANGED <<retryDelayMs, timers, connection, link, faults>>

\* handleError(), or handleWrite() that finds SO_ERROR or a self-connect.
AttemptFails ==
  /\ RemoveAndResetChannel
  /\ sockets' = sockets - 1
  /\ Retried
  /\ UNCHANGED <<connection, link, faults>>

\* The event of the connector's channel, which is registered in kConnecting
\* only; after handleError(), handleWrite() of the same event finds
\* kDisconnected and does nothing.
HandleAttempt ==
  /\ "connector" \in active /\ loopPc = "idle"
  /\ active' = active \ {"connector"}
  /\ state = "kConnecting"
  /\ Connected \/ AttemptFails
  /\ UNCHANGED <<clientConnect, clientAlive, connect, connectorAlive, phase,
                 loopPc, batch, pc, started, stopped, gaveUp>>

\* A retry timer: startInLoop() of a Connector it has kept alive.
HandleTimer ==
  /\ "timer" \in active /\ loopPc = "idle"
  /\ active' = active \ {"timer"}
  /\ timers' = timers - 1
  /\ loopPc' = "startInLoop"
  /\ UNCHANGED <<clientVars, connect, state, channel, retryDelayMs,
                 connectorAlive, link, sockets, phase, pending, batch, pc,
                 historyVars>>

\* Mutant of Restart: setState() is forgotten.
RestartKeepsState ==
  /\ loopPc = "restart"
  /\ retryDelayMs' = kInitRetryDelayMs
  /\ connect' = TRUE
  /\ loopPc' = "startInLoop"
  /\ UNCHANGED <<clientVars, state, channel, timers, connectorAlive, link,
                 sockets, phase, active, pending, batch, pc, historyVars>>

\* restart(), once removeConnection() has found connect_ set.
Restart ==
  /\ loopPc = "restart"
  /\ state' = "kDisconnected"
  /\ retryDelayMs' = kInitRetryDelayMs
  /\ connect' = TRUE
  /\ loopPc' = "startInLoop"
  /\ UNCHANGED <<clientVars, channel, timers, connectorAlive, link, sockets,
                 phase, active, pending, batch, pc, historyVars>>

-----------------------------------------------------------------------------
(* The connection's end.                                                   *)

\* TcpClient::removeConnection(), or detail::removeConnection() when the
\* client is gone, called by the connection's handleClose().
RemoveConnection ==
  /\ link' = "closed"
  /\ pending' = Append(pending, "connectDestroyed")
  /\ connection' = FALSE
  /\ loopPc' = IF clientAlive /\ Retry /\ clientConnect
                 THEN "restart" ELSE "idle"

\* The connection's event that closes it.
HandleClose ==
  /\ "connection" \in active /\ loopPc = "idle"
  /\ active' = active \ {"connection"}
  /\ RemoveConnection
  /\ UNCHANGED <<clientConnect, clientAlive, connectorVars, sockets, phase,
                 batch, pc, historyVars>>

-----------------------------------------------------------------------------
(* The loop.                                                               *)

\* What may be ready: a retry delay outlasts the functors queued before it.
Ready ==
  (IF timers > 0 /\ "resetChannel" \notin Queued THEN {"timer"} ELSE {})
  \cup (IF channel = "registered" THEN {"connector"} ELSE {})
  \cup (IF link = "up" THEN {"connection"} ELSE {})

Poll ==
  /\ phase = "poll"
  /\ phase' = "events"
  /\ active' \in SUBSET Ready
  /\ UNCHANGED <<clientVars, connectorVars, link, sockets, loopPc, pending,
                 batch, pc, historyVars>>

SwapFunctors ==
  /\ phase = "events" /\ active = {} /\ loopPc = "idle"
  /\ phase' = "functors"
  /\ batch' = pending
  /\ pending' = <<>>
  /\ UNCHANGED <<clientVars, connectorVars, link, sockets, active, loopPc, pc,
                 historyVars>>

FinishFunctors ==
  /\ phase = "functors" /\ batch = <<>> /\ loopPc = "idle"
  /\ phase' = "poll"
  /\ UNCHANGED <<clientVars, connectorVars, link, sockets, active, loopPc,
                 pending, batch, pc, historyVars>>

\* The next functor runs.
RunFunctor ==
  /\ phase = "functors" /\ batch # <<>> /\ loopPc = "idle"
  /\ batch' = Tail(batch)
  /\ LET f == Head(batch)
     IN \/ /\ f = "startInLoop"
           /\ loopPc' = "startInLoop"
           /\ UNCHANGED <<connection, attemptVars, link, sockets, pending,
                          faults>>
        \/ /\ f = "stopInLoop"
           /\ StopInLoop
           /\ UNCHANGED <<connection, link, loopPc, faults>>
        \/ /\ f = "resetChannel"
           /\ ResetChannel
           /\ UNCHANGED <<connection, state, retryDelayMs, timers, link,
                          sockets, loopPc, pending>>
        \/ /\ f = "forceClose"
           /\ IF link = "up"
                THEN RemoveConnection
                ELSE UNCHANGED <<connection, link, pending, loopPc>>
           /\ UNCHANGED <<attemptVars, sockets, faults>>
        \/ /\ f = "connectDestroyed"
           /\ link' = "none"
           /\ sockets' = sockets - 1
           /\ UNCHANGED <<connection, attemptVars, loopPc, pending, faults>>
  /\ UNCHANGED <<clientConnect, clientAlive, connect, connectorAlive, phase,
                 active, pc, started, stopped, gaveUp>>

-----------------------------------------------------------------------------
(* The user.                                                               *)

\* User code runs on the loop thread, in a callback or a functor of its own.
UserTurn ==
  clientAlive /\ loopPc = "idle" /\ phase # "poll" /\ Len(pending) < MaxPending

LoopConnect ==
  /\ UserTurn /\ started = "no"
  /\ clientConnect' = TRUE
  /\ connect' = TRUE
  /\ loopPc' = "startInLoop"
  /\ started' = "done"
  /\ UNCHANGED <<connection, clientAlive, attemptVars, connectorAlive, link,
                 sockets, phase, active, pending, batch, pc, stopped, gaveUp,
                 faults>>

LoopStop ==
  /\ UserTurn
  /\ clientConnect' = FALSE
  /\ connect' = FALSE
  /\ pending' = Append(pending, "stopInLoop")
  /\ stopped' = (stopped \/ started = "done")
  /\ UNCHANGED <<connection, clientAlive, attemptVars, connectorAlive, link,
                 sockets, phase, active, loopPc, batch, pc, started, gaveUp,
                 faults>>

\* disconnect() on any thread; the connection's shutdown() ends it in time.
Disconnect ==
  /\ clientAlive
  /\ clientConnect' = FALSE
  /\ UNCHANGED <<connection, clientAlive, connectorVars, link, sockets,
                 loopVars, pc, historyVars>>

\* connect() or stop() on thread t: the client's flag,
Call(t, call) ==
  /\ clientAlive /\ pc[t].at = "idle" /\ Len(pending) < MaxPending
  /\ call = "connect" => started = "no"
  /\ clientConnect' = (call = "connect")
  /\ started' = IF call = "connect" THEN "begun" ELSE started
  /\ stopped' = \/ stopped
                \/ call = "stop" /\ started = "done" /\ loopPc # "restart"
  /\ pc' = [pc EXCEPT ![t] = [call |-> call, at |-> "connector"]]
  /\ UNCHANGED <<connection, clientAlive, connectorVars, link, sockets,
                 loopVars, gaveUp, faults>>

\* then the connector's,
StoreConnect(t) ==
  /\ pc[t].at = "connector"
  /\ connect' = (pc[t].call = "connect")
  /\ pc' = [pc EXCEPT ![t].at = "queue"]
  /\ UNCHANGED <<clientVars, attemptVars, connectorAlive, link, sockets,
                 loopVars, historyVars>>

\* then the functor.
QueueCall(t) ==
  /\ pc[t].at = "queue"
  /\ LET call == pc[t].call
     IN /\ pending' = Append(pending, IF call = "connect" THEN "startInLoop"
                                                          ELSE "stopInLoop")
        /\ started' = IF call = "connect" THEN "done" ELSE started
  /\ pc' = [pc EXCEPT ![t] = Idle]
  /\ UNCHANGED <<clientVars, connectorVars, link, sockets, phase, active,
                 loopPc, batch, stopped, gaveUp, faults>>

\* ~TcpClient on the loop thread.  With a connection, its close callback is
\* replaced, it is closed unless the user holds it, too, and the Connector
\* goes with the client; without, the Connector is stopped and kept a while.
Destroy(unique) ==
  /\ UserTurn
  /\ \A t \in Threads : pc[t].at = "idle"
  /\ connection => Queued \cap OfConnector = {}
  /\ clientAlive' = FALSE
  /\ connection' = FALSE
  /\ IF connection
       THEN /\ connectorAlive' = (timers > 0)
            /\ pending' = IF unique THEN Append(pending, "forceClose")
                                    ELSE pending
            /\ UNCHANGED connect
       ELSE /\ connect' = FALSE
            /\ pending' = Append(pending, "stopInLoop")
            /\ UNCHANGED connectorAlive
  /\ UNCHANGED <<clientConnect, attemptVars, link, sockets, phase, active,
                 loopPc, batch, pc, historyVars>>

\* removeConnector's timer drops the last reference, long after the functors
\* queued by the destructor.
FreeConnector ==
  /\ ~clientAlive /\ connectorAlive /\ timers = 0
  /\ phase = "events" /\ loopPc = "idle"
  /\ Queued \cap OfConnector = {}
  /\ connectorAlive' = FALSE
  /\ UNCHANGED <<clientVars, connect, attemptVars, link, sockets, loopVars, pc,
                 historyVars>>

-----------------------------------------------------------------------------
LoopStep ==
  \/ Poll \/ HandleTimer \/ HandleAttempt \/ HandleClose
  \/ Restart \/ StartInLoop
  \/ SwapFunctors \/ RunFunctor \/ FinishFunctors

UserCall ==
  \/ LoopConnect \/ LoopStop \/ Disconnect
  \/ \E t \in Threads, call \in Calls : Call(t, call)
  \/ \E unique \in BOOLEAN : Destroy(unique)

CallStep == \E t \in Threads : StoreConnect(t) \/ QueueCall(t)

Next == LoopStep \/ UserCall \/ CallStep \/ FreeConnector

Spec == Init /\ [][Next]_vars

\* The loop runs, and calls that other threads have begun end.
FairSpec == Spec /\ WF_vars(LoopStep) /\ WF_vars(CallStep)

-----------------------------------------------------------------------------
(* Properties                                                              *)

\* How many ways there are in which the connector goes on.
Ways ==
  timers + (IF state = "kConnecting" THEN 1 ELSE 0)
    + (IF link = "up" THEN 1 ELSE 0)
    + (IF loopPc # "idle" THEN 1 ELSE 0)
    + (IF "startInLoop" \in Queued THEN 1 ELSE 0)

\* An attempt, a retry timer, a queued start and a connection exclude each
\* other, so that startInLoop() finds kDisconnected (Connector.cc:49) and
\* connecting() no other attempt (Connector.cc:131).
OneAttempt ==
  /\ Ways <= 1
  /\ loopPc = "startInLoop" => state = "kDisconnected"
  /\ state = "kConnecting" <=> channel = "registered"

\* A client that retries, and that nobody has stopped, always has a way to
\* go on (retry, removeConnection and restart), unless ::connect() failed in
\* one of the ways that connect() only logs (Connector.cc:100-115).
KeepsTrying ==
  started = "done" /\ Retry /\ clientConnect /\ connect /\ clientAlive
    => Ways > 0 \/ gaveUp

\* No socket is left behind: each is the attempt's or the connection's
\* (connect, retry, stopInLoop and handleWrite each close what they drop).
SocketsOwned ==
  sockets = (IF state = "kConnecting" THEN 1 ELSE 0)
              + (IF link # "none" THEN 1 ELSE 0)

\* No registered channel is destroyed, and neither the client nor the
\* connector is called after its end, whose channel is gone by then
\* (assert(!channel_), Connector.cc:37; the HACK of TcpClient.cc:99).
LifetimesKept ==
  /\ faults = {}
  /\ connection => clientAlive /\ link = "up"
  /\ ~connectorAlive => channel = "none" /\ Queued \cap OfConnector = {}

\* After a stop() that no restart() was overtaking, the connector comes to
\* rest for good (Connector::stop, stopInLoop).
StopIsFinal ==
  <>[](stopped => state # "kConnecting" /\ channel = "none")

\* One attempt or connection at a time, with its socket and its channel, none
\* used after its owner's end.
OneOwnedAttempt == TypeOK /\ OneAttempt /\ SocketsOwned /\ LifetimesKept
=============================================================================
