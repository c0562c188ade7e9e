---------------------------- MODULE TcpConnection ---------------------------
(***************************************************************************)
(* muduo::net::TcpConnection on its I/O loop, from connectEstablished() to *)
(* connectDestroyed(), with the server's map entry, the socket and the     *)
(* peer.                                                                   *)
(*                                                                         *)
(* User code calls the connection on the loop thread (in a callback of     *)
(* this or another channel), where it acts at once, or on other threads,   *)
(* where state_ is tested and stored without a lock and the rest is queued *)
(* in the loop, which runs functors in FIFO order (module EventLoop).      *)
(***************************************************************************)
EXTENDS Integers, Sequences, SequencesExt

CONSTANTS
  Threads,       \* threads other than the loop thread
  ThreadOps,     \* what the other threads call
  LoopOps,       \* what the loop thread's user code calls
  Messages,      \* what is sent, each message at most once
  Size,          \* the length of each message
  HighWaterMark, \* highWaterMark_
  CarefulReads,  \* startRead() and stopRead() not once disconnected()
  ServerDies,    \* whether the TcpServer may be destroyed
  UseEPoll,      \* EPollPoller, the default, or PollPoller
  MaxQueue,      \* bound: how many functors user calls may pile up
  MaxReceived    \* bound: how many reads' worth of data the socket holds

Ops == {"send", "shutdown", "forceClose", "forceCloseWithDelay", "startRead",
        "stopRead"}
Closing == {"shutdown", "forceClose", "forceCloseWithDelay"}

ASSUME ConnectionAssumption ==
  /\ ThreadOps \subseteq Ops /\ LoopOps \subseteq Ops
  /\ Size \in [Messages -> Nat \ {0}]
  /\ HighWaterMark \in Nat \ {0}
  /\ CarefulReads \in BOOLEAN /\ ServerDies \in BOOLEAN /\ UseEPoll \in BOOLEAN
  /\ MaxQueue \in Nat /\ MaxReceived \in Nat

VARIABLES
  state,         \* state_
  reading,       \* reading_
  events,        \* the channel's events_
  inPoller,      \* the channel's addedToLoop_
  watched,       \* the poller asks the kernel about the channel's socket
  outputBuffer,  \* outputBuffer_
  revents,       \* what poll() reported and handleEvent has yet to dispatch
  loopPc,        \* idle, dispatching, or inside a callback of the user
  queue,         \* functors queued in the loop
  timer,         \* a forceCloseWithDelay timer runs
  pc,            \* how far each other thread is in its call
  inMap,         \* the server's connections_ holds the connection
  removals,      \* removeConnectionInLoop calls queued in the server's loop
  serverAlive,   \* the TcpServer exists
  wire,          \* bytes the kernel has accepted for the peer
  shut,          \* shutdownWrite() was called
  received,      \* reads' worth of data the socket holds
  peerFin,       \* the peer has closed its side
  reset,         \* the connection was reset
  used,          \* history: messages sent or refused
  ups, downs,    \* history: connectionCallback_ calls, up and down
  closes,        \* history: closeCallback_ calls
  destroyed      \* history: connectDestroyed() is through

chanVars == <<events, inPoller, watched>>
connVars == <<state, reading, chanVars, outputBuffer>>
loopVars == <<revents, loopPc>>
serverVars == <<inMap, removals, serverAlive>>
netVars == <<received, peerFin, reset>>
historyVars == <<ups, downs, closes, destroyed>>
vars == <<connVars, loopVars, queue, timer, pc, serverVars, wire, shut,
          netVars, used, historyVars>>

States == {"Connecting", "Connected", "Disconnecting", "Disconnected"}
NoMessage == "none"
Functors == [op : Ops \cup {"established", "destroyed", "writeComplete",
                            "highWater"},
             m : Messages \cup {NoMessage}]
Functor(op) == [op |-> op, m |-> NoMessage]

Idle == [op |-> "idle", m |-> NoMessage, next |-> "queue"]

TypeOK ==
  /\ state \in States
  /\ reading \in BOOLEAN
  /\ events \subseteq {"read", "write"}
  /\ inPoller \in BOOLEAN
  /\ watched \in BOOLEAN
  /\ outputBuffer \in Seq(Messages)
  /\ revents \subseteq {"hup", "in", "out"}
  /\ loopPc \in {"idle", "event", "up", "message", "down", "destroying"}
  /\ queue \in Seq(Functors)
  /\ timer \in BOOLEAN
  /\ pc \in [Threads -> [op : Ops \cup {"idle"}, m : Messages \cup {NoMessage},
                         next : {"store", "queue"}]]
  /\ inMap \in BOOLEAN
  /\ removals \in Nat
  /\ serverAlive \in BOOLEAN
  /\ wire \in Seq(Messages)
  /\ shut \in BOOLEAN
  /\ received \in 0 .. MaxReceived
  /\ peerFin \in BOOLEAN
  /\ reset \in BOOLEAN
  /\ used \subseteq Messages
  /\ ups \in Nat /\ downs \in Nat /\ closes \in Nat
  /\ destroyed \in BOOLEAN

\* TcpServer::newConnection has put the connection into its map and queued
\* connectEstablished in the I/O loop.
Init ==
  /\ state = "Connecting"
  /\ reading = TRUE
  /\ events = {}
  /\ inPoller = FALSE
  /\ watched = FALSE
  /\ outputBuffer = <<>>
  /\ revents = {}
  /\ loopPc = "idle"
  /\ queue = <<Functor("established")>>
  /\ timer = FALSE
  /\ pc = [t \in Threads |-> Idle]
  /\ inMap = TRUE
  /\ removals = 0
  /\ serverAlive = TRUE
  /\ wire = <<>>
  /\ shut = FALSE
  /\ received = 0
  /\ peerFin = FALSE
  /\ reset = FALSE
  /\ used = {}
  /\ ups = 0 /\ downs = 0 /\ closes = 0
  /\ destroyed = FALSE

Bytes(m) == [i \in 1 .. Size[m] |-> m]

IsWriting == "write" \in events

-----------------------------------------------------------------------------
(* The parts that run on the loop thread, inline or as functors.  Each sets *)
(* the queue from q, what is left of it.                                   *)

\* Channel::update() and the poller's updateChannel().  Told to watch for
\* nothing, PollPoller makes the fd negative; EPollPoller takes a socket out
\* of epoll if it is in, and puts it in, for HUP and ERR alone, if it is not.
Update(newEvents) ==
  /\ events' = newEvents
  /\ inPoller' = TRUE
  /\ watched' = (newEvents # {} \/ (UseEPoll /\ ~watched))

\* outputBuffer_.append() and enableWriting(), with the high water mark.
Buffer(bytes, q) ==
  LET oldLen == Len(outputBuffer)
      newLen == oldLen + Len(bytes)
  IN /\ queue' = IF newLen >= HighWaterMark /\ oldLen < HighWaterMark
                   THEN Append(q, Functor("highWater")) ELSE q
     /\ outputBuffer' = outputBuffer \o bytes
     /\ Update(events \cup {"write"})

\* Mutant of NothingWaits: always tries the socket first.
NothingWaitsAlways == TRUE

NothingWaits == ~IsWriting /\ outputBuffer = <<>>

GiveUp == state = "Disconnected"

\* sendInLoop: written at once if nothing waits, the rest is buffered.  k is
\* what write() takes, 0 if it fails with EWOULDBLOCK; on a socket that is
\* shut or reset it fails with EPIPE or ECONNRESET and the message is dropped.
SendInLoop(m, q) ==
  \/ /\ GiveUp
     /\ queue' = q
     /\ UNCHANGED <<outputBuffer, chanVars, wire>>
  \/ /\ ~GiveUp
     /\ NothingWaits
     /\ \/ /\ shut \/ reset
           /\ queue' = q
           /\ UNCHANGED <<outputBuffer, chanVars, wire>>
        \/ /\ ~shut /\ ~reset
           /\ \E k \in 0 .. Size[m] :
                /\ wire' = wire \o SubSeq(Bytes(m), 1, k)
                /\ IF k = Size[m]
                     THEN /\ queue' = Append(q, Functor("writeComplete"))
                          /\ UNCHANGED <<outputBuffer, chanVars>>
                     ELSE Buffer(SubSeq(Bytes(m), k + 1, Size[m]), q)
  \/ /\ ~GiveUp
     /\ ~NothingWaits
     /\ Buffer(Bytes(m), q)
     /\ UNCHANGED wire

\* shutdownInLoop
ShutdownInLoop == shut' = (shut \/ ~IsWriting)

\* startReadInLoop: enableReading() puts the channel back into the poller.
StartReadInLoop ==
  IF ~reading \/ "read" \notin events
    THEN /\ Update(events \cup {"read"})
         /\ reading' = TRUE
    ELSE UNCHANGED <<chanVars, reading>>

\* stopReadInLoop; disableReading() updates the channel, too.
StopReadInLoop ==
  IF reading \/ "read" \in events
    THEN /\ Update(events \ {"read"})
         /\ reading' = FALSE
    ELSE UNCHANGED <<chanVars, reading>>

\* handleClose up to the callback: kDisconnected, disableAll().
HandleClose ==
  /\ state' = "Disconnected"
  /\ Update({})
  /\ downs' = downs + 1
  /\ loopPc' = "down"

\* Mutant of ForceCloseInLoop: leaves out the test of state_.
ForceCloseUntested == HandleClose

\* forceCloseInLoop
ForceCloseInLoop ==
  IF state \in {"Connected", "Disconnecting"}
    THEN HandleClose
    ELSE UNCHANGED <<state, chanVars, loopPc, downs>>

\* channel_->remove() at the end of connectDestroyed.
RemoveChannel ==
  /\ inPoller' = FALSE
  /\ watched' = FALSE
  /\ destroyed' = TRUE

-----------------------------------------------------------------------------
(* Calls of user code on the loop thread: in a callback of this connection, *)
(* or in one of another channel, a timer or a functor.                     *)

UserCode == loopPc # "event" /\ ups > 0

Calls(op) == UserCode /\ op \in LoopOps

LoopSend(m) ==
  /\ Calls("send")
  /\ m \notin used
  /\ used' = used \cup {m}
  /\ \/ state = "Connected" /\ SendInLoop(m, queue)
     \/ /\ state # "Connected"
        /\ UNCHANGED <<outputBuffer, chanVars, queue, wire>>
  /\ UNCHANGED <<state, reading, loopVars, timer, pc, serverVars, shut,
                 netVars, historyVars>>

LoopShutdown ==
  /\ Calls("shutdown")
  /\ state = "Connected"
  /\ state' = "Disconnecting"
  /\ ShutdownInLoop
  /\ UNCHANGED <<reading, chanVars, outputBuffer, loopVars, queue, timer, pc,
                 serverVars, wire, netVars, used, historyVars>>

\* forceClose(): the test and store of state_, then queueInLoop.
ForceClose ==
  /\ state \in {"Connected", "Disconnecting"}
  /\ state' = "Disconnecting"
  /\ queue' = Append(queue, Functor("forceClose"))

LoopForceClose ==
  /\ Calls("forceClose")
  /\ Len(queue) < MaxQueue
  /\ ForceClose
  /\ UNCHANGED <<reading, chanVars, outputBuffer, loopVars, timer, pc,
                 serverVars, wire, shut, netVars, used, historyVars>>

LoopForceCloseWithDelay ==
  /\ Calls("forceCloseWithDelay")
  /\ state \in {"Connected", "Disconnecting"}
  /\ state' = "Disconnecting"
  /\ timer' = TRUE
  /\ UNCHANGED <<reading, chanVars, outputBuffer, loopVars, queue, pc,
                 serverVars, wire, shut, netVars, used, historyVars>>

\* The timer of forceCloseWithDelay calls forceClose().
DelayExpires ==
  /\ timer /\ loopPc = "idle" /\ Len(queue) < MaxQueue
  /\ timer' = FALSE
  /\ \/ ForceClose
     \/ state = "Disconnected" /\ UNCHANGED <<state, queue>>
  /\ UNCHANGED <<reading, chanVars, outputBuffer, loopVars, pc, serverVars,
                 wire, shut, netVars, used, historyVars>>

LoopStartRead ==
  /\ Calls("startRead")
  /\ CarefulReads => state # "Disconnected"
  /\ StartReadInLoop
  /\ UNCHANGED <<state, outputBuffer, loopVars, queue, timer, pc, serverVars,
                 wire, shut, netVars, used, historyVars>>

LoopStopRead ==
  /\ Calls("stopRead")
  /\ CarefulReads => state # "Disconnected"
  /\ StopReadInLoop
  /\ UNCHANGED <<state, outputBuffer, loopVars, queue, timer, pc, serverVars,
                 wire, shut, netVars, used, historyVars>>

-----------------------------------------------------------------------------
(* Calls of user code on other threads, step by step.                      *)

\* The test of state_ at the head of a call; startRead and stopRead have none.
TestState(t, op, m) ==
  /\ op \in ThreadOps /\ ups > 0
  /\ pc[t] = Idle
  /\ CASE op = "send" -> state = "Connected" /\ m \in Messages \ used
       [] op = "shutdown" -> state = "Connected" /\ m = NoMessage
       [] op \in {"forceClose", "forceCloseWithDelay"} ->
            state \in {"Connected", "Disconnecting"} /\ m = NoMessage
       [] OTHER -> m = NoMessage
  /\ used' = used \cup ({m} \cap Messages)
  /\ pc' = [pc EXCEPT ![t] =
              [op |-> op, m |-> m,
               next |-> IF op \in Closing THEN "store" ELSE "queue"]]
  /\ UNCHANGED <<connVars, loopVars, queue, timer, serverVars, wire, shut,
                 netVars, historyVars>>

\* setState(kDisconnecting), whatever state_ is by now.
StoreState(t) ==
  /\ pc[t].next = "store"
  /\ pc' = [pc EXCEPT ![t].next = "queue"]
  /\ state' = "Disconnecting"
  /\ UNCHANGED <<reading, chanVars, outputBuffer, loopVars, queue, timer,
                 serverVars, wire, shut, netVars, used, historyVars>>

\* The functor, or the timer.
QueueCall(t) ==
  /\ pc[t] # Idle /\ pc[t].next = "queue"
  /\ Len(queue) < MaxQueue
  /\ pc' = [pc EXCEPT ![t] = Idle]
  /\ IF pc[t].op = "forceCloseWithDelay"
       THEN timer' = TRUE /\ UNCHANGED queue
       ELSE /\ queue' = Append(queue, [op |-> pc[t].op, m |-> pc[t].m])
            /\ UNCHANGED timer
  /\ UNCHANGED <<connVars, loopVars, serverVars, wire, shut, netVars, used,
                 historyVars>>

-----------------------------------------------------------------------------
(* Events of the channel.                                                  *)

\* What the kernel reports of a watched socket; out is TRUE if the socket's
\* send buffer has room.  HUP is reported whatever is asked for.
Reported(out) ==
     {e \in {"in"} : "read" \in events /\ (received > 0 \/ peerFin \/ reset)}
  \cup {e \in {"out"} : IsWriting /\ (out \/ reset)}
  \cup {e \in {"hup"} : reset \/ (shut /\ peerFin)}

Poll(out) ==
  /\ loopPc = "idle" /\ revents = {}
  /\ watched
  /\ Reported(out) # {}
  /\ revents' = Reported(out)
  /\ UNCHANGED <<connVars, loopPc, queue, timer, pc, serverVars, wire, shut,
                 netVars, used, historyVars>>

Dispatching == loopPc \in {"idle", "event"}

HupOnly == "in" \notin revents

\* handleEventWithGuard: POLLHUP without POLLIN calls the close callback.
DispatchHup ==
  /\ Dispatching /\ "hup" \in revents
  /\ revents' = revents \ {"hup"}
  /\ IF HupOnly
       THEN HandleClose
       ELSE loopPc' = "event" /\ UNCHANGED <<state, chanVars, downs>>
  /\ UNCHANGED <<reading, outputBuffer, queue, timer, pc, serverVars, wire,
                 shut, netVars, used, ups, closes, destroyed>>

\* n > 0
HasData == received > 0

\* n == 0
EndOfStream == received = 0 /\ (peerFin \/ reset)

\* handleRead: data, the end of the stream, or an error that is logged; what
\* was reported may be gone.
HandleRead ==
  /\ Dispatching /\ "hup" \notin revents /\ "in" \in revents
  /\ revents' = revents \ {"in"}
  /\ \/ /\ HasData
        /\ received' = received - 1
        /\ loopPc' = "message"
        /\ UNCHANGED <<state, chanVars, downs>>
     \/ /\ EndOfStream
        /\ HandleClose
        /\ UNCHANGED received
     \/ /\ received = 0 /\ (reset \/ ~peerFin)
        /\ loopPc' = "event"
        /\ UNCHANGED <<state, chanVars, downs, received>>
  /\ UNCHANGED <<reading, outputBuffer, queue, timer, pc, serverVars, wire,
                 shut, peerFin, reset, used, ups, closes, destroyed>>

\* Mutant of AllWritten: the channel stops writing after any write.
SomeWritten(k) == k > 0

AllWritten(k) == k > 0 /\ k = Len(outputBuffer)

\* Mutant of StopWriting: leaves the pending shutdown() alone.
StopWritingOnly ==
  /\ Update(events \ {"write"})
  /\ queue' = Append(queue, Functor("writeComplete"))
  /\ UNCHANGED shut

\* Nothing is left to write: the callback, and shutdown() if it waits.
StopWriting ==
  /\ Update(events \ {"write"})
  /\ queue' = Append(queue, Functor("writeComplete"))
  /\ shut' = (shut \/ state = "Disconnecting")

\* handleWrite: write() takes k bytes of the output, 0 if it fails.
HandleWrite ==
  /\ Dispatching /\ revents = {"out"}
  /\ revents' = {}
  /\ loopPc' = "event"
  /\ \E k \in 0 .. Len(outputBuffer) :
       /\ k > 0 => IsWriting /\ ~reset /\ ~shut
       /\ wire' = wire \o SubSeq(outputBuffer, 1, k)
       /\ outputBuffer' = SubSeq(outputBuffer, k + 1, Len(outputBuffer))
       /\ IF AllWritten(k)
            THEN StopWriting
            ELSE UNCHANGED <<chanVars, queue, shut>>
  /\ UNCHANGED <<state, reading, timer, pc, serverVars, netVars, used,
                 historyVars>>

\* The connection or message callback returns.
EndCallback ==
  /\ loopPc \in {"up", "message"}
  /\ loopPc' = "event"
  /\ UNCHANGED <<connVars, revents, queue, timer, pc, serverVars, wire, shut,
                 netVars, used, historyVars>>

\* The end of handleClose: closeCallback_, which is the server's
\* removeConnection.  After the server's end its pointer dangles.
CallClose ==
  /\ loopPc = "down"
  /\ loopPc' = "event"
  /\ closes' = closes + 1
  /\ removals' = IF serverAlive THEN removals + 1 ELSE removals
  /\ UNCHANGED <<connVars, revents, queue, timer, pc, inMap, serverAlive, wire,
                 shut, netVars, used, ups, downs, destroyed>>

\* The end of connectDestroyed, after its callback.
FinishDestroy ==
  /\ loopPc = "destroying"
  /\ loopPc' = "event"
  /\ RemoveChannel
  /\ UNCHANGED <<state, reading, events, outputBuffer, revents, queue, timer,
                 pc, serverVars, wire, shut, netVars, used, ups, downs,
                 closes>>

\* handleEvent or the functor returns to loop().
EndEvent ==
  /\ loopPc = "event" /\ revents = {}
  /\ loopPc' = "idle"
  /\ UNCHANGED <<connVars, revents, queue, timer, pc, serverVars, wire, shut,
                 netVars, used, historyVars>>

\* connectEstablished: kConnected, enableReading() and the callback.
ConnectEstablished ==
  /\ state' = "Connected"
  /\ Update(events \cup {"read"})
  /\ ups' = ups + 1
  /\ loopPc' = "up"

\* Mutant of ConnectDestroyed: disableAll() is forgotten.
ConnectDestroyedInterested ==
  IF state = "Connected"
    THEN /\ state' = "Disconnected"
         /\ downs' = downs + 1
         /\ loopPc' = "destroying"
         /\ UNCHANGED <<chanVars, destroyed>>
    ELSE /\ RemoveChannel
         /\ UNCHANGED <<state, events, downs, loopPc>>

\* connectDestroyed up to its callback, or all of it.
ConnectDestroyed ==
  \/ /\ state = "Connected"
     /\ state' = "Disconnected"
     /\ Update({})
     /\ downs' = downs + 1
     /\ loopPc' = "destroying"
     /\ UNCHANGED destroyed
  \/ /\ state # "Connected"
     /\ RemoveChannel
     /\ UNCHANGED <<state, events, downs, loopPc>>

\* doPendingFunctors runs the next functor; those that call the user back
\* (writeComplete, highWater) change nothing themselves.
RunFunctor ==
  /\ loopPc = "idle" /\ revents = {} /\ queue # <<>>
  /\ LET f == Head(queue)
     IN \/ /\ f.op = "established"
           /\ ConnectEstablished
           /\ queue' = Tail(queue)
           /\ UNCHANGED <<reading, outputBuffer, wire, shut, downs, destroyed>>
        \/ /\ f.op = "send"
           /\ SendInLoop(f.m, Tail(queue))
           /\ UNCHANGED <<state, reading, loopPc, shut, ups, downs, destroyed>>
        \/ /\ f.op = "shutdown"
           /\ ShutdownInLoop
           /\ queue' = Tail(queue)
           /\ UNCHANGED <<connVars, loopPc, wire, ups, downs, destroyed>>
        \/ /\ f.op = "forceClose"
           /\ ForceCloseInLoop
           /\ queue' = Tail(queue)
           /\ UNCHANGED <<reading, outputBuffer, wire, shut, ups, destroyed>>
        \/ /\ f.op \in {"startRead", "stopRead"}
           /\ IF f.op = "startRead" THEN StartReadInLoop ELSE StopReadInLoop
           /\ queue' = Tail(queue)
           /\ UNCHANGED <<state, outputBuffer, loopPc, wire, shut, ups, downs,
                          destroyed>>
        \/ /\ f.op \in {"writeComplete", "highWater"}
           /\ queue' = Tail(queue)
           /\ UNCHANGED <<connVars, loopPc, wire, shut, ups, downs, destroyed>>
        \/ /\ f.op = "destroyed"
           /\ ConnectDestroyed
           /\ queue' = Tail(queue)
           /\ UNCHANGED <<reading, outputBuffer, wire, shut, ups>>
  /\ UNCHANGED <<revents, timer, pc, serverVars, netVars, used, closes>>

-----------------------------------------------------------------------------
(* The server, in its own loop.                                            *)

\* removeConnectionInLoop; erase() finds the entry once.
RemoveConnectionInLoop ==
  /\ serverAlive /\ removals > 0
  /\ removals' = removals - 1
  /\ inMap' = FALSE
  /\ queue' = Append(queue, Functor("destroyed"))
  /\ UNCHANGED <<connVars, loopVars, timer, pc, serverAlive, wire, shut,
                 netVars, used, historyVars>>

\* ~TcpServer; what is queued with its address never runs as it should.
ServerDestroys ==
  /\ ServerDies /\ serverAlive
  /\ serverAlive' = FALSE
  /\ inMap' = FALSE
  /\ queue' = IF inMap THEN Append(queue, Functor("destroyed")) ELSE queue
  /\ UNCHANGED <<connVars, loopVars, timer, pc, removals, wire, shut, netVars,
                 used, historyVars>>

-----------------------------------------------------------------------------
(* The peer and the network.                                               *)

PeerSends ==
  /\ received < MaxReceived /\ ~peerFin /\ ~reset
  /\ received' = received + 1
  /\ UNCHANGED <<connVars, loopVars, queue, timer, pc, serverVars, wire, shut,
                 peerFin, reset, used, historyVars>>

PeerCloses ==
  /\ ~peerFin /\ ~reset
  /\ peerFin' = TRUE
  /\ UNCHANGED <<connVars, loopVars, queue, timer, pc, serverVars, wire, shut,
                 received, reset, used, historyVars>>

PeerResets ==
  /\ ~reset
  /\ reset' = TRUE
  /\ UNCHANGED <<connVars, loopVars, queue, timer, pc, serverVars, wire, shut,
                 received, peerFin, used, historyVars>>

-----------------------------------------------------------------------------
LoopUser ==
  \/ \E m \in Messages : LoopSend(m)
  \/ LoopShutdown \/ LoopForceClose \/ LoopForceCloseWithDelay
  \/ LoopStartRead \/ LoopStopRead

LoopRuns ==
  \/ DispatchHup \/ HandleRead \/ HandleWrite
  \/ EndCallback \/ CallClose \/ FinishDestroy \/ EndEvent

Peer == PeerSends \/ PeerCloses \/ PeerResets

Next ==
  \/ LoopUser \/ LoopRuns \/ Peer
  \/ DelayExpires \/ RunFunctor
  \/ \E out \in BOOLEAN : Poll(out)
  \/ \E t \in Threads :
       \/ \E op \in Ops, m \in Messages \cup {NoMessage} : TestState(t, op, m)
       \/ StoreState(t) \/ QueueCall(t)
  \/ RemoveConnectionInLoop \/ ServerDestroys

Spec == Init /\ [][Next]_vars

\* Callbacks return and events are dispatched; every iteration polls (which
\* is level triggered) and runs the functors; timers expire; the server's
\* loop runs, too.  The kernel sends what it is given while the peer is
\* there, and read() reports the end of a connection after its last data.
FairSpec ==
  /\ Spec
  /\ WF_vars(LoopRuns)
  /\ SF_vars(Poll(TRUE)) /\ SF_vars(RunFunctor) /\ SF_vars(DelayExpires)
  /\ SF_vars(HandleRead /\ state' = "Disconnected")
  /\ SF_vars(HandleWrite /\ outputBuffer' = <<>>)
  /\ WF_vars(RemoveConnectionInLoop)
  /\ \A t \in Threads : WF_vars(StoreState(t)) /\ SF_vars(QueueCall(t))

-----------------------------------------------------------------------------
(* Properties                                                              *)

\* The callbacks bracket the connection: up comes once and first, down at
\* most once, and the server is told of the end at most once, after down
\* (handleClose, TcpConnection.cc:408-421, which removeConnectionInLoop
\* relies on when it erases the entry, TcpServer.cc:111-113).
CallbacksOnce ==
  /\ ups <= 1 /\ downs <= ups
  /\ closes <= downs
  /\ state = "Disconnected" <=> downs = 1

\* The channel waits for room exactly while output waits (sendInLoop and
\* handleWrite, TcpConnection.cc:177-191 and 379-390), on which shutdown's
\* test of isWriting() relies (TcpConnection.cc:208).
WritingIffPending ==
  state # "Disconnected" => (IsWriting <=> outputBuffer # <<>>)

\* A channel that is removed has no interest left (assert(isNoneEvent()),
\* Channel.cc:61).
RemovesIdleChannel == [][destroyed' # destroyed => events = {}]_vars

\* A destroyed connection has left the poller for good, as the channel's
\* destructor demands (assert(!addedToLoop_), Channel.cc:40).
GoneFromPoller == destroyed => ~inPoller

\* A connection that is destroyed is kDisconnected (TcpConnection.cc:71).
DestroyedDisconnected == destroyed => state = "Disconnected"

\* The write side: closed by shutdownInLoop, lost with the connection.
WriteSide ==
  CASE state = "Disconnected" -> "lost"
    [] shut /\ state # "Disconnected" -> "closed"
    [] OTHER -> "open"

Stream == INSTANCE OutputStream WITH
            accepted <- wire \o outputBuffer, delivered <- wire,
            writeSide <- WriteSide

\* What is sent leaves in order, whole and once, and shutdown() closes the
\* write side after it (sendInLoop, handleWrite, shutdownInLoop).
StreamSafe == Stream!Safe

\* forceClose() ends the connection (TcpConnection.cc:239-269).
ForceCloseEnds ==
  (timer \/ Functor("forceClose") \in Range(queue)) ~> state = "Disconnected"

\* A connection that is down leaves the server and the poller
\* (handleClose, removeConnection, connectDestroyed).
DownIsDestroyed == downs > 0 ~> (destroyed /\ ~inMap)

\* After shutdown() what is buffered goes out and the write side is closed,
\* or the connection ends (TcpConnection.cc:194-213 and 386-389).
ShutdownCompletes ==
  state = "Disconnecting" ~> (shut \/ state = "Disconnected")

\* The end of the peer is noticed by a connection that goes on reading
\* (handleRead, POLLHUP); one that does not is out of the poller unless it
\* writes, and notices nothing.
PeerEndNoticed ==
  []<>(state \in {"Connecting", "Disconnected"}
        \/ ~(peerFin \/ reset) \/ "read" \notin events)

\* The channel agrees with the connection and its buffer until it leaves the
\* poller, which it does for good.
ChannelInStep == TypeOK /\ WritingIffPending /\ GoneFromPoller

\* The asserts of remove() and of both destructors at the end of a connection
\* that was not half closed when its server died.
DestroyedClean == []DestroyedDisconnected /\ RemovesIdleChannel

\* Whatever is begun on a connection comes to its end: a forced close, the
\* destruction of one that is down, the output ahead of a shutdown; and the
\* end of the peer does not go unnoticed.
EndsComplete ==
  ForceCloseEnds /\ DownIsDestroyed /\ ShutdownCompletes /\ PeerEndNoticed
=============================================================================
