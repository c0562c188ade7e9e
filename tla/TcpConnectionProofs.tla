------------------------ MODULE TcpConnectionProofs ------------------------
(***************************************************************************)
(* TLAPS proofs about TcpConnection, for any threads, messages, message    *)
(* lengths, marks and bounds, and any peer: what a connection keeps as     *)
(* long as its users keep to one of three disciplines.                     *)
(***************************************************************************)
EXTENDS TcpConnection, SequenceLemmas

(* The disciplines.                                                        *)

\* Other threads close and start nothing, whose functors and stores may come
\* after the end; reads are not started after the end; and a server that may
\* die half closes nothing.
CarefulUse ==
  /\ ThreadOps \subseteq {"send", "stopRead"}
  /\ CarefulReads
  /\ ServerDies => LoopOps \cap Closing = {}

\* Other threads only send.
SendingThreads == CarefulUse /\ ThreadOps \subseteq {"send"}

\* Nothing takes the channel out of epoll before the end.
StaysInPoller == SendingThreads /\ (UseEPoll => "stopRead" \notin LoopOps)

-----------------------------------------------------------------------------
(* The inductive invariants.                                               *)

\* The calls of other threads under way: none has a state_ left to store.
CallsInv ==
  \A t \in Threads :
    \/ pc[t] = Idle
    \/ /\ pc[t].op \in ThreadOps /\ pc[t].next = "queue"
       /\ pc[t].op = "send" => pc[t].m \in Messages

\* What the queue may hold behind its first functor, in state s.
MayQueue(f, s) ==
  /\ f.op # "established"
  /\ f.op = "send" => f.m \in Messages
  /\ f.op \in {"startRead", "stopRead"} => f.op \in ThreadOps
  /\ f.op = "destroyed" => ServerDies \/ s = "Disconnected"

\* The connection is established by the first functor, and destroyed after its
\* end, unless the server dies.
QueueInv ==
  /\ \A i \in DOMAIN queue :
       \/ MayQueue(queue[i], state)
       \/ i = 1 /\ state = "Connecting" /\ queue[i].op = "established"
  /\ state = "Connecting" => queue # <<>> /\ Head(queue).op = "established"

\* state_ against what it stands for: kConnecting before everything else,
\* kDisconnected from the first end on, with no interest left.
StateInv ==
  /\ state = "Connecting" <=> ups = 0
  /\ ups <= 1
  /\ state = "Connecting" =>
       /\ loopPc = "idle" /\ revents = {}
       /\ events = {} /\ ~watched /\ ~inPoller
       /\ outputBuffer = <<>> /\ ~timer
       /\ \A t \in Threads : pc[t] = Idle
  /\ state = "Disconnected" <=> downs > 0
  /\ removals > 0 \/ destroyed \/ loopPc \in {"down", "destroying"} =>
       state = "Disconnected"
  /\ state = "Disconnected" => events = {}
  /\ ServerDies => state # "Disconnecting" /\ ~timer
  /\ WritingIffPending

BaseInv == TypeOK /\ CallsInv /\ QueueInv /\ StateInv

\* A destroyed channel is out of the poller, and nothing is left to dispatch.
GoneInv ==
  /\ destroyed => ~inPoller /\ ~watched /\ revents = {}
  /\ loopPc = "destroying" => revents = {}

\* The channel is watched until the end and not after it, and what is left to
\* dispatch then closes nothing.
OnceInv ==
  /\ state \in {"Connected", "Disconnecting"} =>
       /\ UseEPoll => watched /\ "read" \in events
       /\ downs = 0
  /\ state = "Disconnected" => ~watched /\ revents \subseteq {"out"} /\ downs = 1
  /\ closes <= downs
  /\ loopPc = "down" => closes < downs

\* A message that some send() carries and that the stream has not got yet.
Carried(m) == m \in used /\ m \notin Range(wire \o outputBuffer)

\* Every message is in the stream, with one send() under way or in none, and a
\* write side that is shut has nothing to write.
SentInv ==
  /\ Range(wire \o outputBuffer) \subseteq used
  /\ \A i \in DOMAIN queue : queue[i].op = "send" =>
       /\ Carried(queue[i].m)
       /\ \A j \in DOMAIN queue :
            queue[j].op = "send" /\ queue[j].m = queue[i].m => j = i
  /\ \A t \in Threads : pc[t].op = "send" =>
       /\ Carried(pc[t].m)
       /\ \A i \in DOMAIN queue : queue[i].op = "send" => queue[i].m # pc[t].m
       /\ \A u \in Threads : pc[u].op = "send" /\ pc[u].m = pc[t].m => u = t
  /\ shut /\ state # "Disconnected" => outputBuffer = <<>>

-----------------------------------------------------------------------------
(* The functor queue.                                                      *)

\* What a push and a pop leave of a queue.
LEMMA QueueElements ==
  ASSUME NEW q \in Seq(Functors)
  PROVE  /\ \A f \in Functors :
              /\ Append(q, f) \in Seq(Functors)
              /\ \A i \in DOMAIN Append(q, f) :
                   \/ i \in DOMAIN q /\ Append(q, f)[i] = q[i]
                   \/ i = Len(q) + 1 /\ Append(q, f)[i] = f
              /\ Append(q, f) # <<>>
              /\ q # <<>> => Head(Append(q, f)) = Head(q)
         /\ q # <<>> =>
              /\ Head(q) \in Functors /\ Tail(q) \in Seq(Functors)
              /\ 1 \in DOMAIN q /\ Head(q) = q[1]
              /\ \A i \in DOMAIN Tail(q) :
                   i + 1 \in DOMAIN q /\ i + 1 # 1 /\ Tail(q)[i] = q[i + 1]
OBVIOUS

\* The functors the connection queues itself.
LEMMA OwnFunctors ==
  ASSUME NEW op \in Ops \cup {"established", "destroyed", "writeComplete",
                              "highWater"}
  PROVE  Functor(op) \in Functors /\ Functor(op).op = op
BY DEF Functor, Functors

\* Pushing one of them.
LEMMA OwnPushes ==
  ASSUME NEW q \in Seq(Functors)
  PROVE  /\ Append(q, Functor("writeComplete")) \in Seq(Functors)
         /\ Append(q, Functor("highWater")) \in Seq(Functors)
         /\ Append(q, Functor("forceClose")) \in Seq(Functors)
         /\ Append(q, Functor("destroyed")) \in Seq(Functors)
<1>1. /\ Functor("writeComplete") \in Functors
      /\ Functor("highWater") \in Functors
      /\ Functor("forceClose") \in Functors
      /\ Functor("destroyed") \in Functors
  BY OwnFunctors DEF Ops
<1> HIDE DEF Functor, Functors
<1> QED BY <1>1

\* Some bytes of a message or of a buffer are bytes.
LEMMA ByteTypes ==
  /\ \A m \in Messages :
       /\ Size[m] \in Nat \ {0}
       /\ Bytes(m) \in Seq(Messages) /\ Len(Bytes(m)) = Size[m]
       /\ \A j, k \in Nat : j >= 1 /\ k <= Size[m] =>
            SubSeq(Bytes(m), j, k) \in Seq(Messages)
  /\ \A b \in Seq(Messages), j, k \in Nat :
       j >= 1 /\ k <= Len(b) => SubSeq(b, j, k) \in Seq(Messages)
<1>1. \A m \in Messages : Size[m] \in Nat \ {0}
  BY ConnectionAssumption
<1>2. ASSUME NEW m \in Messages
      PROVE  Bytes(m) \in Seq(Messages) /\ Len(Bytes(m)) = Size[m]
  BY <1>1 DEF Bytes
<1>3. \A b \in Seq(Messages), j, k \in Nat :
        j >= 1 /\ k <= Len(b) => SubSeq(b, j, k) \in Seq(Messages)
  OBVIOUS
<1> QED BY <1>1, <1>2, <1>3

-----------------------------------------------------------------------------
(* sendInLoop.                                                             *)

\* enableWriting() with output to buffer.
LEMMA BufferFacts ==
  ASSUME TypeOK, NEW bytes \in Seq(Messages), bytes # <<>>,
         NEW q \in Seq(Functors), Buffer(bytes, q)
  PROVE  /\ outputBuffer' \in Seq(Messages) /\ outputBuffer' # <<>>
         /\ outputBuffer' = outputBuffer \o bytes
         /\ queue' = q \/ queue' = Append(q, Functor("highWater"))
         /\ events' = events \cup {"write"}
         /\ inPoller' = TRUE /\ watched' = TRUE
<1>1. /\ outputBuffer' = outputBuffer \o bytes
      /\ queue' = q \/ queue' = Append(q, Functor("highWater"))
      /\ Update(events \cup {"write"})
  BY DEF Buffer
<1>2. outputBuffer' \in Seq(Messages) /\ outputBuffer' # <<>>
  BY <1>1 DEF TypeOK
<1>3. events' = events \cup {"write"} /\ inPoller' = TRUE /\ watched' = TRUE
  BY <1>1 DEF Update
<1> QED BY <1>1, <1>2, <1>3

\* sendInLoop gives up on a connection that is down; otherwise it keeps the
\* interest in step with the buffer.
LEMMA SendFacts ==
  ASSUME TypeOK, NEW m \in Messages, NEW q \in Seq(Functors),
         SendInLoop(m, q)
  PROVE  /\ wire' \in Seq(Messages) /\ outputBuffer' \in Seq(Messages)
         /\ \/ queue' = q
            \/ queue' = Append(q, Functor("writeComplete"))
            \/ queue' = Append(q, Functor("highWater"))
         /\ \/ UNCHANGED <<outputBuffer, chanVars>>
            \/ /\ state # "Disconnected"
               /\ events' = events \cup {"write"} /\ outputBuffer' # <<>>
               /\ inPoller' = TRUE /\ watched' = TRUE
<1>1. wire \in Seq(Messages) /\ outputBuffer \in Seq(Messages)
  BY DEF TypeOK
<1>2. CASE /\ queue' = q
           /\ UNCHANGED <<outputBuffer, chanVars, wire>>
  BY <1>1, <1>2
<1>3. ASSUME NEW k \in 0 .. Size[m], ~GiveUp,
             wire' = wire \o SubSeq(Bytes(m), 1, k), k = Size[m],
             queue' = Append(q, Functor("writeComplete")),
             UNCHANGED <<outputBuffer, chanVars>>
      PROVE  wire' \in Seq(Messages)
  <2>1. SubSeq(Bytes(m), 1, k) \in Seq(Messages)
    BY ByteTypes
  <2> QED BY <1>1, <1>3, <2>1
<1>4. ASSUME NEW k \in 0 .. Size[m], k # Size[m],
             wire' = wire \o SubSeq(Bytes(m), 1, k)
      PROVE  /\ wire' \in Seq(Messages)
             /\ SubSeq(Bytes(m), k + 1, Size[m]) \in Seq(Messages)
             /\ SubSeq(Bytes(m), k + 1, Size[m]) # <<>>
  <2>1. /\ SubSeq(Bytes(m), 1, k) \in Seq(Messages)
        /\ SubSeq(Bytes(m), k + 1, Size[m]) \in Seq(Messages)
        /\ Size[m] \in Nat /\ Len(Bytes(m)) = Size[m]
        /\ Bytes(m) \in Seq(Messages)
    BY ByteTypes
  <2>2. /\ k + 1 \in Nat /\ Size[m] \in Nat /\ Bytes(m) \in Seq(Messages)
        /\ 1 <= k + 1 /\ k + 1 <= Size[m] /\ Size[m] <= Len(Bytes(m))
    BY <1>4, <2>1
  <2>3. SubSeq(Bytes(m), k + 1, Size[m]) # <<>>
    BY <2>2, SubSeqNonEmpty, Zenon
  <2> QED BY <1>1, <1>4, <2>1, <2>3
<1>5. Bytes(m) \in Seq(Messages) /\ Bytes(m) # <<>>
  <2>1. Bytes(m) \in Seq(Messages) /\ Len(Bytes(m)) # 0
    BY ByteTypes
  <2> QED BY <2>1
<1> QED BY <1>1, <1>2, <1>3, <1>4, <1>5, BufferFacts DEF SendInLoop, GiveUp

-----------------------------------------------------------------------------
(* Type correctness.                                                       *)

\* updateChannel() keeps the channel well typed.
LEMMA UpdateType ==
  ASSUME NEW new \in SUBSET {"read", "write"}, Update(new)
  PROVE  /\ events' \subseteq {"read", "write"}
         /\ inPoller' \in BOOLEAN /\ watched' \in BOOLEAN
BY DEF Update

\* Where handleClose leaves the state well typed.
LEMMA HandleCloseType ==
  ASSUME TypeOK, HandleClose
  PROVE  /\ state' \in States /\ downs' \in Nat
         /\ loopPc' = "down"
         /\ events' \subseteq {"read", "write"}
         /\ inPoller' \in BOOLEAN /\ watched' \in BOOLEAN
BY UpdateType DEF HandleClose, TypeOK, States

\* Calls of user code keep the state well typed.
LEMMA UserTypeOK ==
  ASSUME BaseInv, LoopUser
  PROVE  TypeOK'
<1> USE DEF BaseInv
<1>1. ASSUME NEW m \in Messages, LoopSend(m)
      PROVE  TypeOK'
  <2>1. CASE SendInLoop(m, queue)
    <3>1. /\ queue \in Seq(Functors) /\ events \subseteq {"read", "write"}
          /\ inPoller \in BOOLEAN /\ watched \in BOOLEAN
      BY DEF TypeOK
    <3>2. /\ wire' \in Seq(Messages) /\ outputBuffer' \in Seq(Messages)
          /\ \/ queue' = queue
             \/ queue' = Append(queue, Functor("writeComplete"))
             \/ queue' = Append(queue, Functor("highWater"))
          /\ \/ UNCHANGED chanVars
             \/ /\ events' = events \cup {"write"}
                /\ inPoller' = TRUE /\ watched' = TRUE
      BY <2>1, <3>1, SendFacts
    <3>3. queue' \in Seq(Functors)
      BY <3>1, <3>2, OwnPushes
    <3>4. /\ events' \subseteq {"read", "write"}
          /\ inPoller' \in BOOLEAN /\ watched' \in BOOLEAN
      BY <3>1, <3>2 DEF chanVars
    <3> QED
      BY <1>1, <3>2, <3>3, <3>4 DEF LoopSend, TypeOK, loopVars, serverVars,
                                    netVars, historyVars
  <2>2. CASE UNCHANGED <<outputBuffer, chanVars, queue, wire>>
    BY <1>1, <2>2 DEF LoopSend, TypeOK, loopVars, serverVars, netVars,
                      historyVars, chanVars
  <2> QED BY <1>1, <2>1, <2>2 DEF LoopSend
<1>2. CASE LoopShutdown
  BY <1>2 DEF LoopShutdown, ShutdownInLoop, TypeOK, States, loopVars, chanVars,
              serverVars, netVars, historyVars
<1>3. ASSUME ForceClose
      PROVE  state' \in States /\ queue' \in Seq(Functors)
  BY <1>3, OwnPushes DEF ForceClose, TypeOK, States, Ops
<1>4. CASE LoopForceClose
  BY <1>3, <1>4 DEF LoopForceClose, TypeOK, loopVars, chanVars, serverVars,
                    netVars, historyVars
<1>5. CASE LoopForceCloseWithDelay
  BY <1>5 DEF LoopForceCloseWithDelay, TypeOK, States, loopVars, chanVars,
              serverVars, netVars, historyVars
<1>6. CASE LoopStartRead \/ LoopStopRead
  <2>1. /\ events' \subseteq {"read", "write"} /\ reading' \in BOOLEAN
        /\ inPoller' \in BOOLEAN /\ watched' \in BOOLEAN
    BY <1>6, UpdateType DEF LoopStartRead, LoopStopRead, StartReadInLoop,
                            StopReadInLoop, TypeOK, chanVars
  <2>2. UNCHANGED <<state, outputBuffer, loopVars, queue, timer, pc, serverVars,
                    wire, shut, netVars, used, historyVars>>
    BY <1>6 DEF LoopStartRead, LoopStopRead
  <2> QED BY <2>1, <2>2 DEF TypeOK, loopVars, serverVars, netVars, historyVars
<1> QED BY <1>1, <1>2, <1>4, <1>5, <1>6 DEF LoopUser

\* Dispatching events keeps the state well typed.
LEMMA LoopRunsTypeOK ==
  ASSUME BaseInv, LoopRuns
  PROVE  TypeOK'
<1> USE DEF BaseInv
<1>1. CASE DispatchHup
  BY <1>1, HandleCloseType
     DEF DispatchHup, TypeOK, chanVars, serverVars, netVars
<1>2. CASE HandleRead
  <2>1. /\ state' \in States /\ downs' \in Nat
        /\ loopPc' \in {"idle", "event", "up", "message", "down", "destroying"}
        /\ events' \subseteq {"read", "write"}
        /\ inPoller' \in BOOLEAN /\ watched' \in BOOLEAN
    BY <1>2, HandleCloseType DEF HandleRead, TypeOK, chanVars
  <2>2. received' \in 0 .. MaxReceived
    BY <1>2, ConnectionAssumption DEF HandleRead, HasData, TypeOK
  <2> QED BY <1>2, <2>1, <2>2 DEF HandleRead, TypeOK, serverVars
<1>3. CASE HandleWrite
  <2>1. PICK k \in 0 .. Len(outputBuffer) :
          /\ wire' = wire \o SubSeq(outputBuffer, 1, k)
          /\ outputBuffer' = SubSeq(outputBuffer, k + 1, Len(outputBuffer))
          /\ IF AllWritten(k)
               THEN StopWriting
               ELSE UNCHANGED <<chanVars, queue, shut>>
    BY <1>3 DEF HandleWrite
  <2>2. wire' \in Seq(Messages) /\ outputBuffer' \in Seq(Messages)
    <3>1. wire \in Seq(Messages) /\ outputBuffer \in Seq(Messages)
      BY DEF TypeOK
    <3>2. /\ SubSeq(outputBuffer, 1, k) \in Seq(Messages)
          /\ SubSeq(outputBuffer, k + 1, Len(outputBuffer)) \in Seq(Messages)
      BY <3>1
    <3> QED BY <2>1, <3>1, <3>2
  <2>3. /\ queue' \in Seq(Functors) /\ shut' \in BOOLEAN
        /\ events' \subseteq {"read", "write"}
        /\ inPoller' \in BOOLEAN /\ watched' \in BOOLEAN
    <3>1. CASE StopWriting
      <4>1. queue' \in Seq(Functors)
        BY <3>1, OwnPushes DEF StopWriting, TypeOK
      <4>2. shut' \in BOOLEAN
        BY <3>1 DEF StopWriting
      <4> QED BY <3>1, <4>1, <4>2, UpdateType DEF StopWriting, TypeOK
    <3>2. CASE UNCHANGED <<chanVars, queue, shut>>
      BY <3>2 DEF TypeOK, chanVars
    <3> QED BY <2>1, <3>1, <3>2
  <2> QED BY <1>3, <2>2, <2>3 DEF HandleWrite, TypeOK, serverVars, netVars,
                                  historyVars
<1>4. CASE EndCallback \/ EndEvent
  <2>1. /\ loopPc' \in {"idle", "event"}
        /\ UNCHANGED <<connVars, revents, queue, timer, pc, serverVars, wire,
                       shut, netVars, used, historyVars>>
    BY <1>4 DEF EndCallback, EndEvent
  <2> QED BY <2>1 DEF TypeOK, connVars, chanVars, serverVars, netVars,
                      historyVars
<1>5. CASE CallClose
  BY <1>5 DEF CallClose, TypeOK, connVars, chanVars, netVars
<1>6. CASE FinishDestroy
  BY <1>6 DEF FinishDestroy, RemoveChannel, TypeOK, serverVars, netVars
<1> QED BY <1>1, <1>2, <1>3, <1>4, <1>5, <1>6 DEF LoopRuns

\* Functors keep the state well typed.
LEMMA RunFunctorTypeOK ==
  ASSUME BaseInv, RunFunctor
  PROVE  TypeOK'
<1> USE DEF BaseInv
<1> DEFINE f == Head(queue)
<1>1. /\ queue \in Seq(Functors) /\ queue # <<>> /\ Tail(queue) \in Seq(Functors)
      /\ f.op = "send" => f.m \in Messages
      /\ UNCHANGED <<revents, timer, pc, serverVars, netVars, used, closes>>
  BY QueueElements DEF RunFunctor, TypeOK, QueueInv, MayQueue
<1>2. /\ events \subseteq {"read", "write"}
      /\ inPoller \in BOOLEAN /\ watched \in BOOLEAN
      /\ state \in States /\ downs \in Nat /\ ups \in Nat
  BY DEF TypeOK
<1>3. ASSUME queue' \in Seq(Functors), state' \in States, reading' \in BOOLEAN,
             events' \subseteq {"read", "write"},
             inPoller' \in BOOLEAN, watched' \in BOOLEAN,
             outputBuffer' \in Seq(Messages), wire' \in Seq(Messages),
             loopPc' \in {"idle", "event", "up", "message", "down",
                          "destroying"},
             ups' \in Nat, downs' \in Nat, shut' \in BOOLEAN,
             destroyed' \in BOOLEAN
      PROVE  TypeOK'
  BY <1>1, <1>3 DEF TypeOK, serverVars, netVars
<1>4. CASE /\ ConnectEstablished /\ queue' = Tail(queue)
           /\ UNCHANGED <<reading, outputBuffer, wire, shut, downs, destroyed>>
  BY <1>1, <1>3, <1>4, UpdateType DEF ConnectEstablished, TypeOK, States
<1>5. CASE /\ f.op = "send" /\ SendInLoop(f.m, Tail(queue))
           /\ UNCHANGED <<state, reading, loopPc, shut, ups, downs, destroyed>>
  <2>1. /\ wire' \in Seq(Messages) /\ outputBuffer' \in Seq(Messages)
        /\ \/ queue' = Tail(queue)
           \/ queue' = Append(Tail(queue), Functor("writeComplete"))
           \/ queue' = Append(Tail(queue), Functor("highWater"))
        /\ \/ UNCHANGED chanVars
           \/ /\ events' = events \cup {"write"}
              /\ inPoller' = TRUE /\ watched' = TRUE
    BY <1>1, <1>5, SendFacts
  <2>2. queue' \in Seq(Functors)
    BY <1>1, <2>1, OwnPushes
  <2>3. /\ events' \subseteq {"read", "write"}
        /\ inPoller' \in BOOLEAN /\ watched' \in BOOLEAN
    BY <1>2, <2>1 DEF chanVars
  <2> QED BY <1>3, <1>5, <2>1, <2>2, <2>3 DEF TypeOK
<1>6. CASE /\ ShutdownInLoop /\ queue' = Tail(queue)
           /\ UNCHANGED <<connVars, loopPc, wire, ups, downs, destroyed>>
  BY <1>1, <1>3, <1>6 DEF ShutdownInLoop, TypeOK, connVars, chanVars
<1>7. CASE /\ ForceCloseInLoop /\ queue' = Tail(queue)
           /\ UNCHANGED <<reading, outputBuffer, wire, shut, ups, destroyed>>
  BY <1>1, <1>3, <1>7, HandleCloseType DEF ForceCloseInLoop, TypeOK, chanVars
<1>8. CASE /\ StartReadInLoop \/ StopReadInLoop
           /\ queue' = Tail(queue)
           /\ UNCHANGED <<state, outputBuffer, loopPc, wire, shut, ups, downs,
                          destroyed>>
  <2>1. /\ events' \subseteq {"read", "write"} /\ reading' \in BOOLEAN
        /\ inPoller' \in BOOLEAN /\ watched' \in BOOLEAN
    BY <1>8, UpdateType DEF StartReadInLoop, StopReadInLoop, TypeOK, chanVars
  <2> QED BY <1>1, <1>3, <1>8, <2>1 DEF TypeOK
<1>9. CASE /\ queue' = Tail(queue)
           /\ UNCHANGED <<connVars, loopPc, wire, shut, ups, downs, destroyed>>
  BY <1>1, <1>3, <1>9 DEF TypeOK, connVars, chanVars
<1>10. CASE /\ ConnectDestroyed /\ queue' = Tail(queue)
            /\ UNCHANGED <<reading, outputBuffer, wire, shut, ups>>
  <2>1. CASE /\ state' = "Disconnected" /\ Update({}) /\ downs' = downs + 1
             /\ loopPc' = "destroying" /\ UNCHANGED destroyed
    <3>1. /\ events' \subseteq {"read", "write"}
          /\ inPoller' \in BOOLEAN /\ watched' \in BOOLEAN
      BY <2>1, UpdateType
    <3> QED BY <1>1, <1>3, <1>10, <2>1, <3>1 DEF TypeOK, States
  <2>2. CASE RemoveChannel /\ UNCHANGED <<state, events, downs, loopPc>>
    BY <1>1, <1>3, <1>10, <2>2 DEF RemoveChannel, TypeOK
  <2> QED BY <1>10, <2>1, <2>2 DEF ConnectDestroyed
<1> QED BY <1>4, <1>5, <1>6, <1>7, <1>8, <1>9, <1>10 DEF RunFunctor

\* Other threads, the timer, poll(), the server and the peer keep the state
\* well typed.
LEMMA OtherTypeOK ==
  ASSUME BaseInv,
         \/ Peer \/ DelayExpires
         \/ \E out \in BOOLEAN : Poll(out)
         \/ \E t \in Threads :
              \/ \E op \in Ops, m \in Messages \cup {NoMessage} :
                   TestState(t, op, m)
              \/ StoreState(t) \/ QueueCall(t)
         \/ RemoveConnectionInLoop \/ ServerDestroys
         \/ UNCHANGED vars
  PROVE  TypeOK'
<1> USE DEF BaseInv
<1>1. CASE Peer
  <2>1. /\ received' \in 0 .. MaxReceived
        /\ peerFin' \in BOOLEAN /\ reset' \in BOOLEAN
    <3>1. received \in 0 .. MaxReceived /\ MaxReceived \in Nat
      BY ConnectionAssumption DEF TypeOK
    <3>2. received < MaxReceived => received + 1 \in 0 .. MaxReceived
      BY <3>1
    <3> QED BY <1>1, <3>1, <3>2
               DEF Peer, PeerSends, PeerCloses, PeerResets, TypeOK
  <2>2. UNCHANGED <<connVars, loopVars, queue, timer, pc, serverVars, wire, shut,
                    used, historyVars>>
    BY <1>1 DEF Peer, PeerSends, PeerCloses, PeerResets
  <2> QED BY <2>1, <2>2 DEF TypeOK, connVars, chanVars, loopVars, serverVars,
                            historyVars
<1>2. CASE DelayExpires
  <2>1. state' \in States /\ queue' \in Seq(Functors)
    BY <1>2, OwnPushes
       DEF DelayExpires, ForceClose, TypeOK, States, Ops
  <2> QED BY <1>2, <2>1 DEF DelayExpires, TypeOK, chanVars, loopVars, serverVars,
                            netVars, historyVars
<1>3. ASSUME NEW out \in BOOLEAN, Poll(out)
      PROVE  TypeOK'
  <2>1. revents' \subseteq {"hup", "in", "out"}
    BY <1>3 DEF Poll, Reported
  <2> QED BY <1>3, <2>1 DEF Poll, TypeOK, connVars, chanVars, serverVars, netVars,
                            historyVars
<1>4. ASSUME NEW t \in Threads, NEW op \in Ops,
             NEW m \in Messages \cup {NoMessage}, TestState(t, op, m)
      PROVE  TypeOK'
  BY <1>4 DEF TestState, TypeOK, connVars, chanVars, loopVars, serverVars,
              netVars, historyVars
<1>5. ASSUME NEW t \in Threads, StoreState(t)
      PROVE  TypeOK'
  <2>1. state' \in States
    BY <1>5 DEF StoreState, States
  <2> DEFINE left == [pc[t] EXCEPT !.next = "queue"]
             PC == [op : Ops \cup {"idle"}, m : Messages \cup {NoMessage},
                    next : {"store", "queue"}]
  <2>2. pc \in [Threads -> PC] /\ left \in PC
    BY DEF TypeOK
  <2>3. pc' = [pc EXCEPT ![t] = left]
    BY <1>5 DEF StoreState
  <2> HIDE DEF left, PC
  <2>4. pc' \in [Threads -> PC]
    BY <2>2, <2>3
  <2>5. UNCHANGED <<reading, chanVars, outputBuffer, loopVars, queue, timer,
                    serverVars, wire, shut, netVars, used, historyVars>>
    BY <1>5 DEF StoreState
  <2> QED BY <2>1, <2>4, <2>5 DEF PC, TypeOK, chanVars, loopVars, serverVars,
                                  netVars, historyVars
<1>6. ASSUME NEW t \in Threads, QueueCall(t)
      PROVE  TypeOK'
  <2>1. Idle \in [op : Ops \cup {"idle"}, m : Messages \cup {NoMessage},
                  next : {"store", "queue"}]
    BY DEF Idle
  <2>2. pc[t].op # "idle" => [op |-> pc[t].op, m |-> pc[t].m] \in Functors
    BY DEF TypeOK, Functors
  <2>3. pc[t] # Idle => pc[t].op # "idle"
    BY ConnectionAssumption DEF CallsInv, Ops
  <2>4. queue' \in Seq(Functors)
    <3> DEFINE f == [op |-> pc[t].op, m |-> pc[t].m]
    <3>1. f \in Functors /\ queue \in Seq(Functors)
      BY <1>6, <2>2, <2>3 DEF QueueCall, TypeOK
    <3>2. queue' = queue \/ queue' = Append(queue, f)
      BY <1>6 DEF QueueCall
    <3> HIDE DEF f, Functors
    <3> QED BY <3>1, <3>2
  <2>5. /\ pc' = [pc EXCEPT ![t] = Idle]
        /\ timer' \in BOOLEAN
        /\ UNCHANGED <<connVars, loopVars, serverVars, wire, shut, netVars,
                       used, historyVars>>
    BY <1>6 DEF QueueCall, TypeOK
  <2> QED BY <2>1, <2>4, <2>5 DEF TypeOK, connVars, chanVars, loopVars,
                                  serverVars, netVars, historyVars
<1>7. CASE RemoveConnectionInLoop \/ ServerDestroys
  <2>1. queue' \in Seq(Functors)
    BY <1>7, OwnPushes
       DEF RemoveConnectionInLoop, ServerDestroys, TypeOK
  <2>2. removals' \in Nat
    BY <1>7 DEF RemoveConnectionInLoop, ServerDestroys, TypeOK
  <2>3. /\ inMap' \in BOOLEAN /\ serverAlive' \in BOOLEAN
        /\ UNCHANGED <<connVars, loopVars, timer, pc, wire, shut, netVars,
                       used, historyVars>>
    BY <1>7 DEF RemoveConnectionInLoop, ServerDestroys, TypeOK
  <2> QED BY <2>1, <2>2, <2>3
             DEF TypeOK, connVars, chanVars, loopVars, netVars, historyVars
<1>8. CASE UNCHANGED vars
  BY <1>8 DEF vars, TypeOK, connVars, chanVars, loopVars, serverVars, netVars,
              historyVars
<1> QED BY <1>1, <1>2, <1>3, <1>4, <1>5, <1>6, <1>7, <1>8

-----------------------------------------------------------------------------
(* The queue's invariant.                                                  *)

\* A push at the end.
LEMMA PushKeeps ==
  ASSUME BaseInv, NEW f \in Functors, queue' = Append(queue, f), MayQueue(f, state'),
         state' = "Connecting" <=> state = "Connecting",
         state = "Disconnected" => state' = "Disconnected"
  PROVE  QueueInv'
<1>1. queue \in Seq(Functors)
  BY DEF BaseInv, TypeOK
<1>2. /\ \A i \in DOMAIN queue' :
           \/ i \in DOMAIN queue /\ queue'[i] = queue[i]
           \/ queue'[i] = f
      /\ queue' # <<>>
      /\ queue # <<>> => Head(queue') = Head(queue)
  BY <1>1, QueueElements
<1>3. ASSUME NEW i \in DOMAIN queue'
      PROVE  \/ MayQueue(queue'[i], state')
             \/ i = 1 /\ state' = "Connecting" /\ queue'[i].op = "established"
  <2>1. CASE i \in DOMAIN queue /\ queue'[i] = queue[i]
    BY <2>1 DEF BaseInv, QueueInv, MayQueue
  <2>2. CASE queue'[i] = f
    BY <2>2 DEF MayQueue
  <2> QED BY <1>2, <1>3, <2>1, <2>2
<1> QED BY <1>2, <1>3 DEF BaseInv, QueueInv

\* The functor at the head is run, and may queue a callback.
LEMMA PopKeeps ==
  ASSUME BaseInv, queue # <<>>, state' # "Connecting",
         \/ queue' = Tail(queue)
         \/ queue' = Append(Tail(queue), Functor("writeComplete"))
         \/ queue' = Append(Tail(queue), Functor("highWater")),
         state = "Disconnected" => state' = "Disconnected"
  PROVE  QueueInv'
<1>1. queue \in Seq(Functors)
  BY DEF BaseInv, TypeOK
<1>2. /\ Tail(queue) \in Seq(Functors)
      /\ \A i \in DOMAIN Tail(queue) :
           i + 1 \in DOMAIN queue /\ i + 1 # 1 /\ Tail(queue)[i] = queue[i + 1]
  BY <1>1, QueueElements
<1>3. \A i \in DOMAIN Tail(queue) : MayQueue(Tail(queue)[i], state)
  BY <1>2 DEF BaseInv, QueueInv
<1>4. \A op \in {"writeComplete", "highWater"} :
        Functor(op) \in Functors /\ Functor(op).op = op
  BY OwnFunctors DEF Ops
<1>5. ASSUME NEW i \in DOMAIN queue'
      PROVE  \/ i \in DOMAIN Tail(queue) /\ queue'[i] = Tail(queue)[i]
             \/ queue'[i] \in {Functor("writeComplete"), Functor("highWater")}
  BY <1>2, <1>4, QueueElements
<1>6. ASSUME NEW i \in DOMAIN queue'
      PROVE  MayQueue(queue'[i], state')
  <2>1. CASE i \in DOMAIN Tail(queue) /\ queue'[i] = Tail(queue)[i]
    BY <1>3, <2>1 DEF MayQueue
  <2>2. CASE queue'[i] \in {Functor("writeComplete"), Functor("highWater")}
    <3>1. queue'[i].op \in {"writeComplete", "highWater"}
      BY <1>4, <2>2
    <3> QED BY <3>1 DEF MayQueue
  <2> QED BY <1>5, <1>6, <2>1, <2>2
<1> QED BY <1>6 DEF QueueInv

\* The queue is left alone.
LEMMA IdleKeeps ==
  ASSUME BaseInv, queue' = queue,
         state' = "Connecting" <=> state = "Connecting",
         state = "Disconnected" => state' = "Disconnected"
  PROVE  QueueInv'
BY DEF BaseInv, QueueInv, MayQueue

-----------------------------------------------------------------------------
(* The steps keep the invariant.                                           *)

\* handleClose ends the connection.
LEMMA HandleCloseState ==
  ASSUME BaseInv, HandleClose, UNCHANGED <<removals, destroyed, timer, ups>>,
         state # "Connecting"
  PROVE  StateInv'
<1>1. /\ state' = "Disconnected" /\ events' = {} /\ loopPc' = "down"
      /\ downs' > 0
  BY DEF HandleClose, Update, BaseInv, TypeOK
<1>2. ServerDies => ~timer
  BY DEF BaseInv, StateInv
<1> QED BY <1>1, <1>2 DEF BaseInv, StateInv, WritingIffPending

\* sendInLoop, called on a live connection or run as a functor.
LEMMA SendState ==
  ASSUME BaseInv, NEW m \in Messages, NEW q \in Seq(Functors),
         SendInLoop(m, q), state # "Connecting",
         UNCHANGED <<state, ups, downs, loopPc, removals, destroyed, timer>>
  PROVE  StateInv'
<1>1. \/ UNCHANGED <<outputBuffer, chanVars>>
      \/ /\ state # "Disconnected"
         /\ events' = events \cup {"write"} /\ outputBuffer' # <<>>
  BY SendFacts DEF BaseInv
<1>2. WritingIffPending'
  BY <1>1 DEF BaseInv, StateInv, WritingIffPending, IsWriting, chanVars
<1>3. state' = "Disconnected" => events' = {}
  BY <1>1 DEF BaseInv, StateInv, chanVars
<1> QED BY <1>2, <1>3 DEF BaseInv, StateInv

\* Calls of user code on the loop thread.
LEMMA UserKeeps ==
  ASSUME CarefulUse, BaseInv, LoopUser
  PROVE  CallsInv' /\ QueueInv' /\ StateInv'
<1>1. state # "Connecting" /\ UNCHANGED <<pc, ups, downs, loopPc, removals,
                                          destroyed, revents>>
  BY DEF LoopUser, LoopSend, LoopShutdown, LoopForceClose,
         LoopForceCloseWithDelay, LoopStartRead, LoopStopRead, Calls, UserCode,
         BaseInv, StateInv, TypeOK, serverVars, historyVars, loopVars
<1>2. CallsInv'
  BY <1>1 DEF BaseInv, CallsInv
<1>3. ASSUME NEW m \in Messages, LoopSend(m)
      PROVE  QueueInv' /\ StateInv'
  <2>1. UNCHANGED <<state, timer>>
    BY <1>3 DEF LoopSend
  <2>2. CASE SendInLoop(m, queue)
    <3>1. queue \in Seq(Functors)
      BY DEF BaseInv, TypeOK
    <3>2. StateInv'
      BY <1>1, <2>1, <2>2, <3>1, SendState
    <3>3. \/ queue' = queue
          \/ queue' = Append(queue, Functor("writeComplete"))
          \/ queue' = Append(queue, Functor("highWater"))
      BY <2>2, <3>1, SendFacts DEF BaseInv
    <3>4. \A op \in {"writeComplete", "highWater"} :
            Functor(op) \in Functors /\ MayQueue(Functor(op), state')
      BY OwnFunctors DEF MayQueue, Ops
    <3>5. QueueInv'
      BY <2>1, <3>3, <3>4, IdleKeeps, PushKeeps
    <3> QED BY <3>2, <3>5
  <2>3. CASE UNCHANGED <<outputBuffer, chanVars, queue, wire>>
    BY <1>1, <2>1, <2>3, IdleKeeps
       DEF BaseInv, StateInv, WritingIffPending, IsWriting, chanVars
  <2> QED BY <1>3, <2>2, <2>3 DEF LoopSend
<1>4. CASE LoopShutdown \/ LoopForceClose \/ LoopForceCloseWithDelay
  <2>1. /\ state \in {"Connected", "Disconnecting"}
        /\ state' = "Disconnecting" /\ ~ServerDies
        /\ UNCHANGED <<events, watched, inPoller, outputBuffer>>
        /\ queue' = queue \/ queue' = Append(queue, Functor("forceClose"))
    BY <1>4 DEF LoopShutdown, LoopForceClose, LoopForceCloseWithDelay, ForceClose,
                Calls, chanVars, CarefulUse, Closing
  <2>2. StateInv'
    BY <1>1, <2>1 DEF BaseInv, StateInv, WritingIffPending, IsWriting
  <2>3. /\ Functor("forceClose") \in Functors
        /\ MayQueue(Functor("forceClose"), state')
    BY OwnFunctors DEF MayQueue, Ops
  <2>4. QueueInv'
    BY <2>1, <2>3, IdleKeeps, PushKeeps
  <2> QED BY <1>2, <2>2, <2>4
<1>5. CASE LoopStartRead \/ LoopStopRead
  <2>1. /\ state # "Disconnected" /\ UNCHANGED <<state, queue, outputBuffer, timer>>
        /\ "write" \in events' <=> "write" \in events
    BY <1>5 DEF LoopStartRead, LoopStopRead, StartReadInLoop, StopReadInLoop,
                CarefulUse, Update, chanVars
  <2>2. StateInv'
    BY <1>1, <2>1 DEF BaseInv, StateInv, WritingIffPending, IsWriting
  <2> QED BY <1>2, <2>1, <2>2, IdleKeeps
<1> QED BY <1>2, <1>3, <1>4, <1>5 DEF LoopUser

\* Events of the channel, and the rest of callbacks.
LEMMA LoopRunsKeeps ==
  ASSUME CarefulUse, BaseInv, LoopRuns
  PROVE  CallsInv' /\ QueueInv' /\ StateInv'
<1>1. state # "Connecting" /\ UNCHANGED <<pc, ups, timer>>
  BY DEF LoopRuns, DispatchHup, HandleRead, HandleWrite, EndCallback, CallClose,
         FinishDestroy, EndEvent, BaseInv, StateInv, historyVars, serverVars
<1>2. CallsInv'
  BY <1>1 DEF BaseInv, CallsInv
<1>3. ASSUME UNCHANGED <<state, events, outputBuffer, downs, removals, destroyed,
                         queue>>,
             loopPc' \in {"event", "idle", "message"}
      PROVE  QueueInv' /\ StateInv'
  BY <1>1, <1>3, IdleKeeps DEF BaseInv, StateInv, WritingIffPending, IsWriting
<1>4. ASSUME HandleClose, UNCHANGED <<removals, destroyed, queue>>
      PROVE  QueueInv' /\ StateInv'
  <2>1. state' = "Disconnected"
    BY <1>4 DEF HandleClose
  <2> QED BY <1>1, <1>4, <2>1, HandleCloseState, IdleKeeps
<1>5. CASE DispatchHup
  BY <1>2, <1>3, <1>4, <1>5 DEF DispatchHup, chanVars, serverVars
<1>6. CASE HandleRead
  BY <1>2, <1>3, <1>4, <1>6 DEF HandleRead, chanVars, serverVars
<1>7. CASE HandleWrite
  <2>1. PICK k \in 0 .. Len(outputBuffer) :
          /\ k > 0 => IsWriting
          /\ outputBuffer' = SubSeq(outputBuffer, k + 1, Len(outputBuffer))
          /\ IF AllWritten(k)
               THEN StopWriting
               ELSE UNCHANGED <<chanVars, queue, shut>>
    BY <1>7 DEF HandleWrite
  <2>2. /\ UNCHANGED <<state, downs, removals, destroyed>> /\ loopPc' = "event"
        /\ outputBuffer \in Seq(Messages)
    BY <1>7 DEF HandleWrite, BaseInv, TypeOK, serverVars, historyVars
  <2>3. CASE AllWritten(k)
    <3>1. k > 0 /\ k = Len(outputBuffer)
      BY <2>3 DEF AllWritten
    <3>2. outputBuffer' = <<>> /\ state # "Disconnected"
      BY <2>1, <2>2, <3>1 DEF BaseInv, StateInv, IsWriting
    <3>3. /\ events' = events \ {"write"}
          /\ queue' = Append(queue, Functor("writeComplete"))
      BY <2>1, <2>3 DEF StopWriting, Update
    <3>4. /\ Functor("writeComplete") \in Functors
          /\ MayQueue(Functor("writeComplete"), state')
      BY OwnFunctors DEF MayQueue, Ops
    <3>5. QueueInv'
      BY <2>2, <3>3, <3>4, PushKeeps
    <3>6. StateInv'
      BY <1>1, <2>2, <3>2, <3>3
         DEF BaseInv, StateInv, WritingIffPending, IsWriting
    <3> QED BY <1>2, <3>5, <3>6
  <2>4. CASE ~AllWritten(k)
    <3>1. UNCHANGED <<events, queue>>
      BY <2>1, <2>4 DEF chanVars
    <3>2. state # "Disconnected" =>
            (outputBuffer' # <<>> <=> outputBuffer # <<>>)
      <4>1. CASE outputBuffer = <<>>
        <5>1. k = 0 /\ Len(outputBuffer) = 0
          BY <4>1
        <5>2. outputBuffer' = <<>>
          BY <2>1, <4>1, <5>1
        <5> QED BY <4>1, <5>2
      <4>2. CASE outputBuffer # <<>>
        <5>1. /\ k < Len(outputBuffer) /\ Len(outputBuffer) \in Nat
              /\ k \in Nat
          BY <2>2, <2>4, <4>2 DEF AllWritten
        <5>2. /\ k + 1 \in Nat /\ 1 <= k + 1 /\ k + 1 <= Len(outputBuffer)
              /\ Len(outputBuffer) <= Len(outputBuffer)
          BY <5>1
        <5>3. outputBuffer' # <<>>
          BY <2>1, <2>2, <5>1, <5>2, SubSeqNonEmpty, Zenon
        <5> QED BY <4>2, <5>3
      <4> QED BY <4>1, <4>2
    <3>3. StateInv'
      BY <1>1, <2>2, <3>1, <3>2
         DEF BaseInv, StateInv, WritingIffPending, IsWriting
    <3> QED BY <1>2, <2>2, <3>1, <3>3, IdleKeeps
  <2> QED BY <2>3, <2>4
<1>8. CASE EndCallback \/ EndEvent
  BY <1>2, <1>3, <1>8 DEF EndCallback, EndEvent, connVars, chanVars, serverVars,
                    historyVars
<1>9. CASE CallClose
  <2>1. /\ UNCHANGED <<state, events, outputBuffer, downs, destroyed, queue>>
        /\ loopPc' = "event" /\ state = "Disconnected"
    BY <1>9 DEF CallClose, BaseInv, StateInv, connVars, chanVars
  <2>2. StateInv'
    BY <1>1, <2>1 DEF BaseInv, StateInv, WritingIffPending
  <2> QED BY <1>2, <2>1, <2>2, IdleKeeps
<1>10. CASE FinishDestroy
  <2>1. /\ UNCHANGED <<state, events, outputBuffer, downs, removals, queue>>
        /\ loopPc' = "event" /\ state = "Disconnected"
    BY <1>10 DEF FinishDestroy, BaseInv, StateInv, serverVars
  <2>2. StateInv'
    BY <1>1, <2>1 DEF BaseInv, StateInv, WritingIffPending
  <2> QED BY <1>2, <2>1, <2>2, IdleKeeps
<1> QED BY <1>2, <1>5, <1>6, <1>7, <1>8, <1>9, <1>10 DEF LoopRuns

\* The functors.
LEMMA RunFunctorKeeps ==
  ASSUME CarefulUse, BaseInv, RunFunctor
  PROVE  CallsInv' /\ QueueInv' /\ StateInv'
<1> DEFINE f == Head(queue)
<1>1. /\ queue \in Seq(Functors) /\ queue # <<>> /\ Tail(queue) \in Seq(Functors)
      /\ 1 \in DOMAIN queue /\ f = queue[1] /\ f \in Functors
      /\ UNCHANGED <<pc, timer, removals>>
  BY QueueElements DEF RunFunctor, BaseInv, TypeOK, serverVars
<1>2. CallsInv'
  BY <1>1 DEF BaseInv, CallsInv
<1>3. /\ f.op = "established" <=> state = "Connecting"
      /\ state # "Connecting" => MayQueue(f, state)
  BY <1>1 DEF BaseInv, QueueInv, MayQueue
<1>4. CASE /\ f.op = "established" /\ ConnectEstablished
           /\ queue' = Tail(queue)
           /\ UNCHANGED <<reading, outputBuffer, wire, shut, downs, destroyed>>
  <2>1. /\ state = "Connecting" /\ state' = "Connected" /\ events' = {"read"}
        /\ ups = 0 /\ ups' = 1 /\ loopPc' = "up" /\ outputBuffer' = <<>>
    <3>1. state = "Connecting" /\ ups = 0 /\ events = {} /\ outputBuffer = <<>>
      BY <1>3, <1>4 DEF BaseInv, StateInv
    <3> QED BY <1>4, <3>1 DEF ConnectEstablished, Update
  <2>2. StateInv'
    BY <1>1, <1>4, <2>1 DEF BaseInv, StateInv, WritingIffPending, IsWriting
  <2> QED BY <1>1, <1>2, <1>4, <2>1, <2>2, PopKeeps
<1>5. CASE /\ f.op = "send" /\ SendInLoop(f.m, Tail(queue))
           /\ UNCHANGED <<state, reading, loopPc, shut, ups, downs, destroyed>>
  <2>1. state # "Connecting" /\ f.m \in Messages
    BY <1>3, <1>5 DEF MayQueue
  <2>2. StateInv'
    BY <1>1, <1>5, <2>1, SendState
  <2>3. \/ queue' = Tail(queue)
        \/ queue' = Append(Tail(queue), Functor("writeComplete"))
        \/ queue' = Append(Tail(queue), Functor("highWater"))
    BY <1>1, <1>5, <2>1, SendFacts DEF BaseInv
  <2> QED BY <1>1, <1>2, <1>5, <2>1, <2>2, <2>3, PopKeeps
<1>6. ASSUME state # "Connecting", queue' = Tail(queue),
             UNCHANGED <<state, outputBuffer, loopPc, ups, downs, destroyed>>,
             "write" \in events' <=> "write" \in events,
             events = {} => events' = {}
      PROVE  QueueInv' /\ StateInv'
  <2>1. StateInv'
    BY <1>1, <1>6 DEF BaseInv, StateInv, WritingIffPending, IsWriting
  <2> QED BY <1>1, <1>6, <2>1, PopKeeps
<1>7. CASE /\ f.op \in {"shutdown", "writeComplete", "highWater"}
           /\ queue' = Tail(queue)
           /\ UNCHANGED <<connVars, loopPc, ups, downs, destroyed>>
  BY <1>2, <1>3, <1>6, <1>7 DEF connVars, chanVars
<1>8. CASE /\ f.op = "forceClose" /\ ForceCloseInLoop
           /\ queue' = Tail(queue)
           /\ UNCHANGED <<reading, outputBuffer, wire, shut, ups, destroyed>>
  <2>1. state # "Connecting"
    BY <1>3, <1>8
  <2>2. CASE HandleClose
    <3>1. state' = "Disconnected"
      BY <2>2 DEF HandleClose
    <3> QED BY <1>1, <1>2, <1>8, <2>1, <2>2, <3>1, HandleCloseState, PopKeeps
  <2>3. CASE UNCHANGED <<state, chanVars, loopPc, downs>>
    BY <1>2, <1>6, <1>8, <2>1, <2>3 DEF chanVars
  <2> QED BY <1>8, <2>2, <2>3 DEF ForceCloseInLoop
<1>9. CASE /\ f.op \in {"startRead", "stopRead"}
           /\ IF f.op = "startRead" THEN StartReadInLoop ELSE StopReadInLoop
           /\ queue' = Tail(queue)
           /\ UNCHANGED <<state, outputBuffer, loopPc, wire, shut, ups, downs,
                          destroyed>>
  <2>1. state # "Connecting" /\ f.op = "stopRead"
    BY <1>3, <1>9 DEF MayQueue, CarefulUse
  <2>2. events' = events \/ events' = events \ {"read"}
    BY <1>9, <2>1 DEF StopReadInLoop, Update, chanVars
  <2> QED BY <1>2, <1>6, <1>9, <2>1, <2>2
<1>10. CASE /\ f.op = "destroyed" /\ ConnectDestroyed
            /\ queue' = Tail(queue)
            /\ UNCHANGED <<reading, outputBuffer, wire, shut, ups>>
  <2>1. /\ state # "Connecting"
        /\ ServerDies \/ state = "Disconnected"
        /\ ServerDies => state # "Disconnecting"
    BY <1>3, <1>10 DEF MayQueue, BaseInv, StateInv
  <2>2. CASE /\ state = "Connected" /\ state' = "Disconnected" /\ Update({})
             /\ downs' = downs + 1 /\ loopPc' = "destroying"
    <3>1. events' = {} /\ downs' > 0
      BY <2>2 DEF Update, BaseInv, TypeOK
    <3>2. StateInv'
      BY <1>1, <1>10, <2>1, <2>2, <3>1 DEF BaseInv, StateInv, WritingIffPending
    <3> QED BY <1>1, <1>2, <1>10, <2>2, <3>2, PopKeeps
  <2>3. CASE /\ state # "Connected"
             /\ UNCHANGED <<state, events, downs, loopPc>>
    <3>1. state = "Disconnected"
      BY <2>1, <2>3 DEF BaseInv, TypeOK, States
    <3>2. StateInv'
      BY <1>1, <1>10, <2>3, <3>1 DEF BaseInv, StateInv, WritingIffPending
    <3> QED BY <1>1, <1>2, <1>10, <2>3, <3>1, <3>2, PopKeeps
  <2> QED BY <1>10, <2>2, <2>3 DEF ConnectDestroyed
<1> QED BY <1>4, <1>5, <1>7, <1>8, <1>9, <1>10 DEF RunFunctor

\* Other threads, the timer, poll(), the server and the peer.
LEMMA OtherKeeps ==
  ASSUME CarefulUse, BaseInv,
         \/ Peer \/ DelayExpires
         \/ \E out \in BOOLEAN : Poll(out)
         \/ \E t \in Threads :
              \/ \E op \in Ops, m \in Messages \cup {NoMessage} :
                   TestState(t, op, m)
              \/ StoreState(t) \/ QueueCall(t)
         \/ RemoveConnectionInLoop \/ ServerDestroys
         \/ UNCHANGED vars
  PROVE  CallsInv' /\ QueueInv' /\ StateInv'
<1>1. ASSUME UNCHANGED <<state, events, outputBuffer, ups, downs, loopPc, timer,
                         destroyed>>,
             UNCHANGED <<revents, watched, inPoller>> \/ state # "Connecting",
             UNCHANGED pc \/ state # "Connecting",
             removals' > 0 => removals > 0
      PROVE  StateInv'
  BY <1>1 DEF BaseInv, StateInv, WritingIffPending, IsWriting
<1>2. CASE Peer \/ UNCHANGED vars
  <2>1. UNCHANGED <<connVars, loopVars, queue, timer, pc, serverVars,
                    historyVars>>
    BY <1>2 DEF Peer, PeerSends, PeerCloses, PeerResets, vars
  <2>2. CallsInv' /\ QueueInv'
    BY <2>1, IdleKeeps DEF BaseInv, CallsInv, connVars
  <2>3. StateInv'
    BY <1>1, <2>1 DEF connVars, chanVars, loopVars, serverVars, historyVars
  <2> QED BY <2>2, <2>3
<1>3. CASE DelayExpires
  <2>1. /\ state # "Connecting" /\ ~ServerDies
        /\ UNCHANGED <<chanVars, outputBuffer, loopVars, pc, serverVars,
                       historyVars>>
        /\ timer' = FALSE
    BY <1>3 DEF DelayExpires, BaseInv, StateInv
  <2>2. \/ /\ state \in {"Connected", "Disconnecting"}
           /\ state' = "Disconnecting"
           /\ queue' = Append(queue, Functor("forceClose"))
        \/ UNCHANGED <<state, queue>>
    BY <1>3 DEF DelayExpires, ForceClose
  <2>3. /\ Functor("forceClose") \in Functors
        /\ MayQueue(Functor("forceClose"), state')
    BY OwnFunctors DEF MayQueue, Ops
  <2>4. CallsInv' /\ QueueInv'
    BY <2>1, <2>2, <2>3, IdleKeeps, PushKeeps DEF BaseInv, CallsInv
  <2>5. StateInv'
    BY <2>1, <2>2 DEF BaseInv, StateInv, WritingIffPending, IsWriting, chanVars,
                      loopVars, serverVars, historyVars
  <2> QED BY <2>4, <2>5
<1>4. ASSUME NEW out \in BOOLEAN, Poll(out)
      PROVE  CallsInv' /\ QueueInv' /\ StateInv'
  <2>1. /\ state # "Connecting"
        /\ UNCHANGED <<connVars, loopPc, queue, timer, pc, serverVars,
                       historyVars>>
    BY <1>4 DEF Poll, BaseInv, StateInv
  <2>2. CallsInv' /\ QueueInv'
    BY <2>1, IdleKeeps DEF BaseInv, CallsInv, connVars
  <2>3. StateInv'
    BY <1>1, <2>1 DEF connVars, chanVars, serverVars, historyVars
  <2> QED BY <2>2, <2>3
<1>5. ASSUME NEW t \in Threads, NEW op \in Ops,
             NEW m \in Messages \cup {NoMessage}, TestState(t, op, m)
      PROVE  CallsInv' /\ QueueInv' /\ StateInv'
  <2> DEFINE call == [op |-> op, m |-> m,
                      next |-> IF op \in Closing THEN "store" ELSE "queue"]
  <2>1. /\ state # "Connecting" /\ op \in ThreadOps
        /\ op = "send" => m \in Messages
        /\ UNCHANGED <<connVars, loopVars, queue, timer, serverVars,
                       historyVars>>
        /\ pc' = [pc EXCEPT ![t] = call]
    BY <1>5 DEF TestState, BaseInv, StateInv
  <2>2. call.op = op /\ call.m = m /\ call.next = "queue"
    BY <2>1 DEF CarefulUse, Closing
  <2>3. \A u \in Threads : pc'[u] = IF u = t THEN call ELSE pc[u]
    BY <2>1 DEF BaseInv, TypeOK
  <2> HIDE DEF call
  <2>4. CallsInv'
    BY <2>1, <2>2, <2>3 DEF BaseInv, CallsInv
  <2>5. QueueInv'
    BY <2>1, IdleKeeps DEF connVars
  <2>6. StateInv'
    BY <1>1, <2>1 DEF connVars, chanVars, loopVars, serverVars, historyVars
  <2> QED BY <2>4, <2>5, <2>6
<1>6. ASSUME NEW t \in Threads, StoreState(t)
      PROVE  FALSE
  BY <1>6 DEF StoreState, BaseInv, CallsInv, Idle
<1>7. ASSUME NEW t \in Threads, QueueCall(t)
      PROVE  CallsInv' /\ QueueInv' /\ StateInv'
  <2> DEFINE f == [op |-> pc[t].op, m |-> pc[t].m]
  <2>1. /\ state # "Connecting" /\ pc[t].op \in {"send", "stopRead"}
        /\ pc[t].op \in ThreadOps
        /\ pc[t].op = "send" => pc[t].m \in Messages
        /\ pc[t].m \in Messages \cup {NoMessage}
        /\ UNCHANGED <<connVars, loopVars, serverVars, historyVars>>
        /\ pc' = [pc EXCEPT ![t] = Idle]
    BY <1>7 DEF QueueCall, BaseInv, StateInv, CallsInv, CarefulUse, TypeOK
  <2>2. queue' = Append(queue, f) /\ UNCHANGED timer
    BY <1>7, <2>1 DEF QueueCall
  <2>3. f \in Functors /\ MayQueue(f, state')
    BY <2>1 DEF Functors, MayQueue, Ops
  <2>4. QueueInv'
    BY <2>1, <2>2, <2>3, PushKeeps DEF connVars
  <2>5. CallsInv'
    BY <2>1 DEF BaseInv, TypeOK, CallsInv
  <2>6. StateInv'
    BY <1>1, <2>1, <2>2 DEF connVars, chanVars, loopVars, serverVars, historyVars
  <2> QED BY <2>4, <2>5, <2>6
<1>8. CASE RemoveConnectionInLoop \/ ServerDestroys
  <2>1. /\ UNCHANGED <<connVars, loopVars, timer, pc, historyVars>>
        /\ removals' > 0 => removals > 0
        /\ \/ queue' = queue
           \/ /\ queue' = Append(queue, Functor("destroyed"))
              /\ ServerDies \/ state = "Disconnected"
    BY <1>8 DEF RemoveConnectionInLoop, ServerDestroys, BaseInv, StateInv, TypeOK
  <2>2. /\ Functor("destroyed") \in Functors
        /\ ServerDies \/ state = "Disconnected" =>
             MayQueue(Functor("destroyed"), state')
    BY <2>1, OwnFunctors DEF MayQueue, Ops, connVars
  <2>3. CallsInv' /\ QueueInv'
    BY <2>1, <2>2, IdleKeeps, PushKeeps DEF BaseInv, CallsInv, connVars
  <2>4. StateInv'
    BY <1>1, <2>1 DEF connVars, chanVars, loopVars, historyVars
  <2> QED BY <2>3, <2>4
<1> QED BY <1>2, <1>3, <1>4, <1>5, <1>6, <1>7, <1>8

\* A new connection.
LEMMA InitBase == Init => BaseInv
<1> SUFFICES ASSUME Init PROVE BaseInv
  OBVIOUS
<1>1. /\ Functor("established") \in Functors
      /\ Functor("established").op = "established"
  BY OwnFunctors
<1>2. /\ queue \in Seq(Functors) /\ queue # <<>>
      /\ DOMAIN queue = {1} /\ queue[1].op = "established"
      /\ Head(queue).op = "established"
  BY <1>1 DEF Init
<1>3. TypeOK
  <2>1. pc \in [Threads -> [op : Ops \cup {"idle"},
                            m : Messages \cup {NoMessage},
                            next : {"store", "queue"}]]
    BY DEF Init, Idle
  <2>2. /\ outputBuffer \in Seq(Messages) /\ wire \in Seq(Messages)
        /\ received \in 0 .. MaxReceived /\ removals \in Nat
        /\ ups \in Nat /\ downs \in Nat /\ closes \in Nat
    BY ConnectionAssumption DEF Init
  <2>3. /\ reading \in BOOLEAN /\ inPoller \in BOOLEAN /\ watched \in BOOLEAN
        /\ timer \in BOOLEAN /\ inMap \in BOOLEAN /\ serverAlive \in BOOLEAN
        /\ shut \in BOOLEAN /\ peerFin \in BOOLEAN /\ reset \in BOOLEAN
        /\ destroyed \in BOOLEAN
    BY DEF Init
  <2>4. /\ state \in States /\ events \subseteq {"read", "write"}
        /\ revents \subseteq {"hup", "in", "out"} /\ used \subseteq Messages
        /\ loopPc \in {"idle", "event", "up", "message", "down", "destroying"}
    BY DEF Init, States
  <2> QED BY <1>2, <2>1, <2>2, <2>3, <2>4 DEF TypeOK
<1>4. CallsInv /\ QueueInv
  BY <1>2 DEF Init, CallsInv, QueueInv
<1>5. StateInv
  BY DEF Init, StateInv, WritingIffPending, IsWriting
<1> QED BY <1>3, <1>4, <1>5 DEF BaseInv

\* Every step of a carefully used connection.
LEMMA NextBase ==
  ASSUME CarefulUse, BaseInv, [Next]_vars
  PROVE  BaseInv'
<1>1. TypeOK'
  BY UserTypeOK, LoopRunsTypeOK, RunFunctorTypeOK, OtherTypeOK DEF Next
<1>2. CallsInv' /\ QueueInv' /\ StateInv'
  BY UserKeeps, LoopRunsKeeps, RunFunctorKeeps, OtherKeeps DEF Next
<1> QED BY <1>1, <1>2 DEF BaseInv

-----------------------------------------------------------------------------
(* The poller.                                                             *)

\* Steps that leave the channel, the events and the end alone.
LEMMA OtherChannel ==
  ASSUME BaseInv, CarefulUse,
         \/ Peer \/ DelayExpires
         \/ \E t \in Threads :
              \/ \E op \in Ops, m \in Messages \cup {NoMessage} :
                   TestState(t, op, m)
              \/ StoreState(t) \/ QueueCall(t)
         \/ RemoveConnectionInLoop \/ ServerDestroys
         \/ UNCHANGED vars
  PROVE  /\ UNCHANGED <<chanVars, loopVars, historyVars>>
         /\ \/ UNCHANGED state
            \/ /\ state = "Connected" /\ state' = "Disconnecting"
<1>1. \A t \in Threads : ~StoreState(t)
  BY DEF StoreState, BaseInv, CallsInv, Idle
<1> QED
  BY <1>1 DEF Peer, PeerSends, PeerCloses, PeerResets, DelayExpires, ForceClose,
              TestState, QueueCall, RemoveConnectionInLoop, ServerDestroys,
              connVars, vars

\* What user code on the loop thread does to the channel of a live connection;
\* it cannot touch that of one that is down.
LEMMA UserChannel ==
  ASSUME BaseInv, CarefulUse, LoopUser
  PROVE  /\ UNCHANGED <<loopVars, historyVars>>
         /\ state # "Connecting" /\ state' # "Connecting"
         /\ state = "Disconnected" <=> state' = "Disconnected"
         /\ \/ UNCHANGED chanVars
            \/ /\ state # "Disconnected"
               /\ \/ watched' = TRUE /\ events \subseteq events'
                  \/ "stopRead" \in LoopOps
<1>1. /\ UNCHANGED <<loopVars, historyVars>> /\ state # "Connecting"
      /\ UNCHANGED state \/ (state # "Disconnected" /\ state' = "Disconnecting")
  BY DEF LoopUser, LoopSend, LoopShutdown, LoopForceClose, ForceClose,
         LoopForceCloseWithDelay, LoopStartRead, LoopStopRead, Calls, UserCode,
         BaseInv, StateInv
<1>2. ASSUME NEW m \in Messages, LoopSend(m)
      PROVE  \/ UNCHANGED chanVars
             \/ /\ state # "Disconnected"
                /\ watched' = TRUE /\ events \subseteq events'
  <2>1. CASE SendInLoop(m, queue)
    <3>1. queue \in Seq(Functors)
      BY DEF BaseInv, TypeOK
    <3>2. \/ UNCHANGED chanVars
          \/ /\ state # "Disconnected" /\ events' = events \cup {"write"}
             /\ watched' = TRUE
      BY <2>1, <3>1, SendFacts DEF BaseInv
    <3> QED BY <3>2
  <2> QED BY <1>2, <2>1 DEF LoopSend
<1>3. CASE LoopShutdown \/ LoopForceClose \/ LoopForceCloseWithDelay
  BY <1>1, <1>3 DEF LoopShutdown, LoopForceClose, LoopForceCloseWithDelay
<1>4. CASE LoopStartRead
  <2>1. state # "Disconnected"
    BY <1>4 DEF LoopStartRead, CarefulUse
  <2> QED BY <1>1, <1>4, <2>1 DEF LoopStartRead, StartReadInLoop, Update
<1>5. CASE LoopStopRead
  BY <1>1, <1>5 DEF LoopStopRead, Calls, CarefulUse
<1> QED BY <1>1, <1>2, <1>3, <1>4, <1>5 DEF LoopUser

\* What a functor does to the channel.
LEMMA FunctorChannel ==
  ASSUME BaseInv, SendingThreads, RunFunctor
  PROVE  /\ revents = {} /\ revents' = {} /\ closes' = closes
         /\ loopPc = "idle" /\ state' # "Connecting"
         /\ \/ UNCHANGED <<chanVars, state, downs, destroyed>> /\ loopPc' = "idle"
            \/ /\ state = "Connecting" /\ state' = "Connected"
               /\ watched' = TRUE /\ "read" \in events'
               /\ UNCHANGED <<downs, destroyed>> /\ loopPc' = "up"
            \/ /\ state \in {"Connected", "Disconnecting"} /\ UNCHANGED state
               /\ watched' = TRUE /\ events \subseteq events'
               /\ UNCHANGED <<downs, destroyed>> /\ loopPc' = "idle"
            \/ /\ state \in {"Connected", "Disconnecting"}
               /\ state' = "Disconnected"
               /\ Update({}) /\ downs' = downs + 1 /\ UNCHANGED destroyed
               /\ loopPc' \in {"down", "destroying"}
            \/ /\ state = "Disconnected" /\ state' = "Disconnected"
               /\ inPoller' = FALSE /\ watched' = FALSE /\ destroyed' = TRUE
               /\ UNCHANGED <<events, downs>> /\ loopPc' = "idle"
<1> DEFINE f == Head(queue)
<1>1. /\ queue \in Seq(Functors) /\ queue # <<>> /\ Tail(queue) \in Seq(Functors)
      /\ 1 \in DOMAIN queue /\ f = queue[1]
      /\ loopPc = "idle" /\ revents = {} /\ revents' = {} /\ closes' = closes
  BY QueueElements DEF RunFunctor, BaseInv, TypeOK
<1>2. /\ f.op = "established" <=> state = "Connecting"
      /\ state # "Connecting" => MayQueue(f, state)
  BY <1>1 DEF BaseInv, QueueInv, MayQueue
<1>3. state \in States /\ CarefulUse
  BY DEF BaseInv, TypeOK, SendingThreads
<1>4. CASE /\ f.op = "established" /\ ConnectEstablished
           /\ UNCHANGED <<downs, destroyed>>
  BY <1>1, <1>2, <1>4 DEF ConnectEstablished, Update
<1>5. CASE /\ f.op = "send" /\ SendInLoop(f.m, Tail(queue))
           /\ UNCHANGED <<state, loopPc, downs, destroyed>>
  <2>1. f.m \in Messages /\ state # "Connecting"
    BY <1>2, <1>5 DEF MayQueue
  <2>2. \/ UNCHANGED chanVars
        \/ /\ state # "Disconnected"
           /\ events' = events \cup {"write"} /\ watched' = TRUE
    BY <1>1, <1>5, <2>1, SendFacts DEF BaseInv
  <2> QED BY <1>1, <1>3, <1>5, <2>1, <2>2 DEF States
<1>6. CASE /\ f.op \in {"shutdown", "writeComplete", "highWater"}
           /\ UNCHANGED <<connVars, loopPc, downs, destroyed>>
  BY <1>1, <1>2, <1>6 DEF connVars
<1>7. CASE /\ f.op = "forceClose" /\ ForceCloseInLoop /\ UNCHANGED destroyed
  BY <1>1, <1>2, <1>7 DEF ForceCloseInLoop, HandleClose
<1>8. CASE f.op \in {"startRead", "stopRead"}
  BY <1>2, <1>8 DEF MayQueue, SendingThreads
<1>9. CASE f.op = "destroyed" /\ ConnectDestroyed
  <2>1. /\ state # "Connecting"
        /\ ServerDies \/ state = "Disconnected"
        /\ ServerDies => state # "Disconnecting"
    BY <1>2, <1>9 DEF MayQueue, BaseInv, StateInv
  <2>2. state \in {"Connected", "Disconnected"}
    BY <1>3, <2>1 DEF States
  <2> QED BY <1>1, <1>9, <2>2 DEF ConnectDestroyed, RemoveChannel
<1> QED BY <1>4, <1>5, <1>6, <1>7, <1>8, <1>9 DEF RunFunctor

\* A destroyed channel stays out of the poller.
LEMMA NextGone ==
  ASSUME SendingThreads, BaseInv, BaseInv', GoneInv, [Next]_vars
  PROVE  GoneInv'
<1>1. CarefulUse /\ (destroyed => state = "Disconnected")
  BY DEF SendingThreads, BaseInv, StateInv
<1>2. CASE LoopUser
  <2>1. destroyed => UNCHANGED chanVars
    BY <1>1, <1>2, UserChannel
  <2>2. UNCHANGED <<loopVars, historyVars>>
    BY <1>1, <1>2, UserChannel
  <2> QED BY <2>1, <2>2 DEF GoneInv, chanVars, loopVars, historyVars
<1>3. CASE LoopRuns
  <2>1. CASE DispatchHup \/ HandleRead \/ HandleWrite
    <3>1. revents # {} /\ destroyed' = destroyed /\ loopPc' # "destroying"
      BY <2>1 DEF DispatchHup, HandleRead, HandleWrite, HandleClose, historyVars
    <3> QED BY <3>1 DEF GoneInv
  <2>2. CASE EndCallback \/ CallClose \/ EndEvent
    BY <2>2 DEF EndCallback, CallClose, EndEvent, GoneInv, connVars, chanVars,
                historyVars
  <2>3. CASE FinishDestroy
    BY <2>3 DEF FinishDestroy, RemoveChannel, GoneInv
  <2> QED BY <1>3, <2>1, <2>2, <2>3 DEF LoopRuns
<1>4. CASE RunFunctor
  <2>1. revents' = {}
    BY <1>4, FunctorChannel
  <2>2. CASE ~destroyed'
    BY <2>1, <2>2 DEF GoneInv
  <2>3. CASE destroyed'
    <3>1. CASE /\ state = "Disconnected"
               /\ inPoller' = FALSE /\ watched' = FALSE
      BY <2>1, <3>1 DEF GoneInv
    <3>2. CASE destroyed /\ UNCHANGED chanVars
      BY <2>1, <3>2 DEF GoneInv, chanVars
    <3> QED BY <1>1, <1>4, <2>3, <3>1, <3>2, FunctorChannel
  <2> QED BY <2>2, <2>3
<1>5. ASSUME NEW out \in BOOLEAN, Poll(out)
      PROVE  GoneInv'
  BY <1>5 DEF Poll, GoneInv, connVars, chanVars, historyVars
<1>6. CASE UNCHANGED <<chanVars, loopVars, historyVars>>
  BY <1>6 DEF GoneInv, chanVars, loopVars, historyVars
<1> QED BY <1>1, <1>2, <1>3, <1>4, <1>5, <1>6, OtherChannel DEF Next

\* The channel is watched until the first end, and nothing ends it twice.
LEMMA NextOnce ==
  ASSUME StaysInPoller, BaseInv, BaseInv', OnceInv, [Next]_vars
  PROVE  OnceInv'
<1>1. /\ SendingThreads /\ CarefulUse
      /\ UseEPoll => "stopRead" \notin LoopOps
      /\ state \in States /\ closes \in Nat /\ downs \in Nat
      /\ state = "Connecting" => downs = 0
      /\ state = "Disconnected" => events = {}
  BY DEF StaysInPoller, SendingThreads, BaseInv, TypeOK, StateInv
<1>2. CASE LoopUser
  <2>1. UNCHANGED <<loopVars, historyVars>>
    BY <1>1, <1>2, UserChannel
  <2>2. CASE state = "Disconnected"
    BY <1>1, <1>2, <2>1, <2>2, UserChannel
       DEF OnceInv, chanVars, loopVars, historyVars
  <2>3. CASE state # "Disconnected"
    <3>1. state \in {"Connected", "Disconnecting"} /\ state' # "Disconnected"
      BY <1>1, <1>2, <2>3, UserChannel DEF States
    <3>2. UseEPoll => watched' /\ "read" \in events'
      BY <1>1, <1>2, <3>1, UserChannel DEF OnceInv, chanVars
    <3> QED BY <2>1, <3>1, <3>2 DEF OnceInv, loopVars, historyVars
  <2> QED BY <2>2, <2>3
<1>3. ASSUME HandleClose, state \in {"Connected", "Disconnecting"},
             UNCHANGED closes, revents' \subseteq {"out"}
      PROVE  OnceInv'
  <2>1. /\ state' = "Disconnected" /\ downs' = 1 /\ closes' <= 0
        /\ loopPc' = "down"
    BY <1>1, <1>3 DEF HandleClose, OnceInv
  <2>2. ~watched'
    BY <1>3 DEF HandleClose, Update, OnceInv
  <2> QED BY <1>1, <1>3, <2>1, <2>2 DEF OnceInv
<1>4. CASE DispatchHup \/ HandleRead
  <2>1. /\ state \in {"Connected", "Disconnecting"} /\ UNCHANGED closes
        /\ revents \subseteq {"hup", "in", "out"}
    BY <1>1, <1>4 DEF DispatchHup, HandleRead, States, OnceInv, BaseInv, StateInv,
                      TypeOK
  <2>2. CASE HandleClose
    <3>1. revents' \subseteq {"out"}
      BY <1>4, <2>1, <2>2 DEF DispatchHup, HandleRead, HupOnly, HandleClose
    <3> QED BY <1>3, <2>1, <2>2, <3>1
  <2>3. CASE loopPc' \in {"event", "message"} /\ UNCHANGED <<state, chanVars, downs>>
    BY <2>1, <2>3 DEF OnceInv, chanVars
  <2> QED BY <1>4, <2>2, <2>3 DEF DispatchHup, HandleRead
<1>5. CASE HandleWrite
  <2>1. /\ UNCHANGED <<state, downs, closes>> /\ revents' = {}
        /\ loopPc' = "event" /\ state # "Connecting"
    BY <1>5 DEF HandleWrite, historyVars, BaseInv, StateInv
  <2>2. PICK k \in 0 .. Len(outputBuffer) :
          /\ k > 0 => IsWriting
          /\ IF AllWritten(k)
               THEN StopWriting
               ELSE UNCHANGED <<chanVars, queue, shut>>
    BY <1>5 DEF HandleWrite
  <2>3. CASE AllWritten(k)
    <3>1. state # "Disconnected" /\ events' = events \ {"write"}
      BY <1>1, <2>2, <2>3 DEF AllWritten, IsWriting, StopWriting, Update
    <3>2. UseEPoll => watched' /\ "read" \in events'
      <4>1. UseEPoll => "read" \in events'
        BY <1>1, <2>1, <3>1 DEF OnceInv, States
      <4>2. watched' = (events' # {} \/ (UseEPoll /\ ~watched))
        BY <2>2, <2>3, <3>1 DEF StopWriting, Update
      <4> QED BY <4>1, <4>2
    <3> QED BY <2>1, <3>1, <3>2 DEF OnceInv
  <2>4. CASE ~AllWritten(k)
    BY <2>1, <2>2, <2>4 DEF OnceInv, chanVars
  <2> QED BY <2>3, <2>4
<1>6. CASE EndCallback \/ FinishDestroy \/ EndEvent
  <2>1. /\ UNCHANGED <<state, events, downs, closes, revents>>
        /\ loopPc' \in {"event", "idle"}
        /\ watched' = watched \/ (state = "Disconnected" /\ watched' = FALSE)
    BY <1>6 DEF EndCallback, FinishDestroy, RemoveChannel, EndEvent, connVars,
                chanVars, historyVars, BaseInv, StateInv
  <2> QED BY <2>1 DEF OnceInv
<1>7. CASE CallClose
  BY <1>1, <1>7 DEF CallClose, OnceInv, connVars, chanVars
<1>8. CASE RunFunctor
  <2>1. ASSUME state \in {"Connected", "Disconnecting"}, state' = "Disconnected",
               Update({}), downs' = downs + 1, UNCHANGED closes, revents' = {}
        PROVE  OnceInv'
    <3>1. ~watched'
      BY <2>1 DEF Update, OnceInv
    <3>2. downs' = 1 /\ closes' <= 0
      BY <1>1, <2>1 DEF OnceInv
    <3> QED BY <1>1, <2>1, <3>1, <3>2 DEF OnceInv
  <2>2. CASE UNCHANGED <<chanVars, state, downs>> /\ loopPc' = "idle"
    BY <1>1, <1>8, <2>2, FunctorChannel DEF OnceInv, chanVars
  <2>3. CASE /\ state' \in {"Connected", "Disconnecting"} /\ UNCHANGED downs
             /\ watched' = TRUE /\ "read" \in events'
             /\ loopPc' \in {"up", "idle"}
             /\ state # "Disconnected"
    <3>1. downs = 0 /\ closes' = closes
      BY <1>1, <1>8, <2>3, FunctorChannel DEF OnceInv, States
    <3> QED BY <2>3, <3>1 DEF OnceInv
  <2>4. CASE /\ state \in {"Connected", "Disconnecting"} /\ UNCHANGED state
             /\ watched' = TRUE /\ events \subseteq events'
             /\ UNCHANGED downs /\ loopPc' = "idle"
    BY <1>1, <1>8, <2>4, FunctorChannel DEF OnceInv
  <2>5. CASE /\ state = "Disconnected" /\ state' = "Disconnected"
             /\ watched' = FALSE /\ UNCHANGED downs /\ loopPc' = "idle"
    BY <1>1, <1>8, <2>5, FunctorChannel DEF OnceInv
  <2> QED BY <1>1, <1>8, <2>1, <2>2, <2>3, <2>4, <2>5, FunctorChannel
<1>9. ASSUME NEW out \in BOOLEAN, Poll(out)
      PROVE  OnceInv'
  BY <1>9 DEF Poll, OnceInv, connVars, chanVars, historyVars
<1>10. CASE /\ UNCHANGED <<chanVars, loopVars, historyVars>>
            /\ \/ UNCHANGED state
               \/ state = "Connected" /\ state' = "Disconnecting"
  BY <1>10 DEF OnceInv, chanVars, loopVars, historyVars
<1> QED BY <1>1, <1>2, <1>4, <1>5, <1>6, <1>7, <1>8, <1>9, <1>10, OtherChannel
        DEF Next, LoopRuns

-----------------------------------------------------------------------------
(* The theorems about the channel and the callbacks.                       *)

\* channel_->remove() comes when the interest is gone.
LEMMA RemovesIdle ==
  ASSUME CarefulUse, BaseInv, [Next]_vars, destroyed' # destroyed
  PROVE  events = {}
<1>1. state = "Disconnected" => events = {}
  BY DEF BaseInv, StateInv
<1>2. CASE FinishDestroy
  BY <1>1, <1>2 DEF FinishDestroy, BaseInv, StateInv
<1>3. CASE RunFunctor
  <2> DEFINE f == Head(queue)
  <2>1. f.op = "destroyed" /\ state # "Connected"
    BY <1>3 DEF RunFunctor, ConnectDestroyed, connVars
  <2>2. f = queue[1] /\ 1 \in DOMAIN queue
    BY <1>3, QueueElements DEF RunFunctor, BaseInv, TypeOK
  <2>3. MayQueue(f, state)
    BY <2>1, <2>2 DEF BaseInv, QueueInv
  <2>4. /\ state # "Connecting" /\ state \in States
        /\ ServerDies \/ state = "Disconnected"
        /\ ServerDies => state # "Disconnecting"
    BY <2>1, <2>3 DEF MayQueue, BaseInv, QueueInv, StateInv, TypeOK
  <2> QED BY <1>1, <2>1, <2>4 DEF States
<1>4. CASE LoopUser
  BY <1>4, UserChannel DEF historyVars
<1>5. CASE LoopRuns /\ ~FinishDestroy
  BY <1>5 DEF LoopRuns, DispatchHup, HandleRead, HandleWrite, EndCallback,
              CallClose, EndEvent, historyVars
<1>6. ASSUME NEW out \in BOOLEAN, Poll(out)
      PROVE  FALSE
  BY <1>6 DEF Poll, historyVars
<1> QED BY <1>2, <1>3, <1>4, <1>5, <1>6, OtherChannel DEF Next, historyVars

\* Whatever is sent, read, shut down and closed in callbacks, however many
\* threads send or stop reading, and whenever the peer or the server goes: a
\* connection that is destroyed is kDisconnected (the assert of ~TcpConnection,
\* TcpConnection.cc:71) and its channel is removed with no interest left (that
\* of Channel::remove, Channel.cc:61).
THEOREM AlwaysDestroyedClean ==
  ASSUME CarefulUse
  PROVE  Spec => DestroyedClean
<1>1. Init => BaseInv
  BY InitBase
<1>2. BaseInv /\ [Next]_vars => BaseInv'
  BY NextBase
<1>3. BaseInv => DestroyedDisconnected
  BY DEF BaseInv, StateInv, DestroyedDisconnected
<1>4. BaseInv /\ [Next]_vars => [destroyed' # destroyed => events = {}]_vars
  BY RemovesIdle
<1> QED BY <1>1, <1>2, <1>3, <1>4, PTL
           DEF Spec, DestroyedClean, RemovesIdleChannel

\* If threads only send: the state is well typed, the channel waits for room
\* exactly while output waits, on which shutdownInLoop's test of isWriting()
\* relies, and once destroyed it is out of the poller for good (Channel.cc:40).
THEOREM ChannelAlwaysInStep ==
  ASSUME SendingThreads
  PROVE  Spec => []ChannelInStep
<1>1. Init => BaseInv /\ GoneInv
  BY InitBase DEF Init, GoneInv
<1>2. BaseInv /\ GoneInv /\ [Next]_vars => BaseInv' /\ GoneInv'
  BY NextBase, NextGone DEF SendingThreads
<1>3. BaseInv /\ GoneInv => ChannelInStep
  BY DEF BaseInv, StateInv, GoneInv, ChannelInStep, GoneFromPoller
<1> QED BY <1>1, <1>2, <1>3, PTL DEF Spec

\* If also nothing takes the channel out of epoll before the end: the
\* connection callback comes once up and at most once down, and the close
\* callback at most once and after it (handleClose, TcpConnection.cc:408-421).
THEOREM CallbacksAlwaysOnce ==
  ASSUME StaysInPoller
  PROVE  Spec => []CallbacksOnce
<1>1. Init => BaseInv /\ OnceInv
  BY InitBase DEF Init, OnceInv
<1>2. BaseInv /\ OnceInv /\ [Next]_vars => BaseInv' /\ OnceInv'
  BY NextBase, NextOnce DEF StaysInPoller, SendingThreads
<1>3. BaseInv /\ OnceInv => CallbacksOnce
  <2> SUFFICES ASSUME BaseInv, OnceInv PROVE CallbacksOnce
    OBVIOUS
  <2>1. /\ state \in States /\ ups \in Nat /\ downs \in Nat /\ closes \in Nat
        /\ state = "Connecting" <=> ups = 0
        /\ state = "Disconnected" <=> downs > 0
        /\ ups <= 1 /\ closes <= downs
        /\ state = "Disconnected" => downs = 1
    BY DEF BaseInv, TypeOK, StateInv, OnceInv
  <2> QED BY <2>1 DEF CallbacksOnce, States
<1> QED BY <1>1, <1>2, <1>3, PTL DEF Spec

-----------------------------------------------------------------------------
(* The stream of what is sent.                                             *)

\* What is buffered follows what is written.
LEMMA StreamFacts ==
  /\ \A a, b \in Seq(Messages) :
       /\ a \o b \in Seq(Messages) /\ IsPrefix(a, a \o b)
       /\ Range(a \o b) = Range(a) \cup Range(b)
       /\ a \o <<>> = a
  /\ \A m \in Messages : Bytes(m) \in Seq(Messages) /\ Range(Bytes(m)) \subseteq {m}
<1>1. ASSUME NEW a \in Seq(Messages), NEW b \in Seq(Messages)
      PROVE  /\ a \o b \in Seq(Messages) /\ IsPrefix(a, a \o b)
             /\ Range(a \o b) = Range(a) \cup Range(b)
             /\ a \o <<>> = a
  <2>1. IsPrefix(a, a \o b)
    BY Begins DEF IsPrefix
  <2> QED BY <2>1, ConcatProperties, RangeConcatenation, ConcatEmptySeq
<1>2. ASSUME NEW m \in Messages
      PROVE  Bytes(m) \in Seq(Messages) /\ Range(Bytes(m)) \subseteq {m}
  BY ByteTypes DEF Bytes, Range
<1> QED BY <1>1, <1>2

\* sendInLoop adds the whole message to the stream or leaves it alone.
LEMMA SendStream ==
  ASSUME BaseInv, SentInv, NEW m \in Messages, NEW q, SendInLoop(m, q)
  PROVE  \/ UNCHANGED <<wire, outputBuffer>>
         \/ /\ state # "Disconnected" /\ ~shut
            /\ wire' \in Seq(Messages) /\ outputBuffer' \in Seq(Messages)
            /\ wire' \o outputBuffer' = (wire \o outputBuffer) \o Bytes(m)
            /\ IsPrefix(wire, wire')
            /\ IsPrefix(wire', wire' \o outputBuffer')
<1>1. /\ wire \in Seq(Messages) /\ outputBuffer \in Seq(Messages)
      /\ shut /\ state # "Disconnected" => outputBuffer = <<>> /\ ~IsWriting
      /\ Bytes(m) \in Seq(Messages) /\ Len(Bytes(m)) = Size[m]
      /\ Size[m] \in Nat
  BY ByteTypes DEF BaseInv, TypeOK, SentInv, StateInv, WritingIffPending
<1>2. ASSUME NEW k \in 0 .. Size[m], ~GiveUp, NothingWaits, ~shut,
             wire' = wire \o SubSeq(Bytes(m), 1, k),
             outputBuffer' = SubSeq(Bytes(m), k + 1, Size[m])
      PROVE  /\ wire' \in Seq(Messages) /\ outputBuffer' \in Seq(Messages)
             /\ wire' \o outputBuffer' = (wire \o outputBuffer) \o Bytes(m)
             /\ IsPrefix(wire, wire')
             /\ IsPrefix(wire', wire' \o outputBuffer')
  <2> DEFINE sent == SubSeq(Bytes(m), 1, k)
             left == SubSeq(Bytes(m), k + 1, Size[m])
  <2>1. /\ sent \in Seq(Messages) /\ left \in Seq(Messages)
        /\ sent \o left = Bytes(m)
    BY <1>1, SplitAt
  <2>2. outputBuffer = <<>>
    BY <1>2 DEF NothingWaits
  <2>3. wire' = wire \o sent /\ outputBuffer' = left
    BY <1>2
  <2> HIDE DEF sent, left
  <2>4. (wire \o sent) \o left = wire \o (sent \o left)
    <3>1. /\ wire \in Seq(Messages) /\ sent \in Seq(Messages)
          /\ left \in Seq(Messages)
      BY <1>1, <2>1
    <3> QED BY <3>1, ConcatAssociative
  <2>5. wire \o outputBuffer = wire
    BY <1>1, <2>2, StreamFacts, Zenon
  <2>6. (wire \o outputBuffer) \o Bytes(m) = wire \o (sent \o left)
    BY <2>1, <2>5
  <2>7. /\ wire \o sent \in Seq(Messages)
        /\ IsPrefix(wire, wire \o sent)
        /\ IsPrefix(wire \o sent, (wire \o sent) \o left)
    BY <1>1, <2>1, StreamFacts, Zenon
  <2> QED BY <2>1, <2>3, <2>4, <2>6, <2>7
<1>3. ASSUME NEW k \in 0 .. Size[m], k = Size[m], NothingWaits,
             UNCHANGED outputBuffer
      PROVE  outputBuffer' = SubSeq(Bytes(m), k + 1, Size[m])
  <2>1. outputBuffer' = <<>> /\ k + 1 \in Int /\ Size[m] \in Int
        /\ Size[m] < k + 1
    BY <1>1, <1>3 DEF NothingWaits
  <2> QED BY <2>1, SubSeqEmpty
<1>4. ASSUME NEW k \in 0 .. Size[m], k # Size[m], NothingWaits,
             Buffer(SubSeq(Bytes(m), k + 1, Size[m]), q)
      PROVE  outputBuffer' = SubSeq(Bytes(m), k + 1, Size[m])
  <2>1. SubSeq(Bytes(m), k + 1, Size[m]) \in Seq(Messages)
    BY <1>1, SplitAt
  <2> QED BY <1>4, <2>1, ConcatEmptySeq DEF Buffer, NothingWaits
<1>5. ASSUME ~GiveUp, ~NothingWaits, Buffer(Bytes(m), q), UNCHANGED wire
      PROVE  /\ ~shut
             /\ wire' \in Seq(Messages) /\ outputBuffer' \in Seq(Messages)
             /\ wire' \o outputBuffer' = (wire \o outputBuffer) \o Bytes(m)
             /\ IsPrefix(wire, wire')
             /\ IsPrefix(wire', wire' \o outputBuffer')
  <2>1. outputBuffer' = outputBuffer \o Bytes(m) /\ ~shut
    BY <1>1, <1>5 DEF Buffer, GiveUp, NothingWaits
  <2>2. IsPrefix(wire, wire)
    <3>1. wire \o <<>> = wire /\ <<>> \in Seq(Messages)
      BY <1>1, ConcatEmptySeq
    <3>2. IsPrefix(wire, wire \o <<>>)
      BY <1>1, <3>1, StreamFacts, Zenon
    <3> QED BY <3>1, <3>2
  <2>3. (wire \o outputBuffer) \o Bytes(m) = wire \o (outputBuffer \o Bytes(m))
    BY <1>1, ConcatAssociative
  <2>4. /\ outputBuffer \o Bytes(m) \in Seq(Messages)
        /\ IsPrefix(wire, wire \o (outputBuffer \o Bytes(m)))
    BY <1>1, StreamFacts, Zenon
  <2> QED BY <1>1, <1>5, <2>1, <2>2, <2>3, <2>4
<1>6. CASE GiveUp
  BY <1>6 DEF SendInLoop
<1>7. CASE ~GiveUp /\ NothingWaits
  BY <1>2, <1>3, <1>4, <1>7 DEF SendInLoop, GiveUp
<1>8. CASE ~GiveUp /\ ~NothingWaits
  BY <1>5, <1>8 DEF SendInLoop, GiveUp
<1> QED BY <1>6, <1>7, <1>8

\* handleWrite moves bytes within the stream, and shuts the write side when
\* nothing is left and a shutdown() waits.
LEMMA WriteStream ==
  ASSUME BaseInv, SentInv, HandleWrite
  PROVE  /\ wire' \o outputBuffer' = wire \o outputBuffer
         /\ \/ UNCHANGED <<wire, outputBuffer, shut>>
            \/ /\ state # "Disconnected" /\ ~shut
               /\ IsPrefix(wire, wire')
               /\ IsPrefix(wire', wire \o outputBuffer)
               /\ shut' => wire' = wire \o outputBuffer /\ outputBuffer' = <<>>
<1>1. /\ wire \in Seq(Messages) /\ outputBuffer \in Seq(Messages)
      /\ Len(outputBuffer) \in Nat
  BY DEF BaseInv, TypeOK
<1>2. PICK k \in 0 .. Len(outputBuffer) :
        /\ k > 0 => IsWriting /\ ~reset /\ ~shut
        /\ wire' = wire \o SubSeq(outputBuffer, 1, k)
        /\ outputBuffer' = SubSeq(outputBuffer, k + 1, Len(outputBuffer))
        /\ IF AllWritten(k)
             THEN StopWriting
             ELSE UNCHANGED <<chanVars, queue, shut>>
  BY DEF HandleWrite
<1> DEFINE sent == SubSeq(outputBuffer, 1, k)
           left == SubSeq(outputBuffer, k + 1, Len(outputBuffer))
<1>3. /\ sent \in Seq(Messages) /\ left \in Seq(Messages)
      /\ sent \o left = outputBuffer
  BY <1>1, SplitAt
<1>4. k = 0 => sent = <<>> /\ left = outputBuffer
  <2> SUFFICES ASSUME k = 0 PROVE sent = <<>> /\ left = outputBuffer
    OBVIOUS
  <2>1. SubSeq(outputBuffer, 1, 0) = <<>>
    BY SubSeqEmpty
  <2> QED BY <1>1, <2>1, SubSeqFull
<1>5. k = Len(outputBuffer) => sent = outputBuffer /\ left = <<>>
  <2> SUFFICES ASSUME k = Len(outputBuffer)
               PROVE  sent = outputBuffer /\ left = <<>>
    OBVIOUS
  <2>1. /\ k + 1 \in Int /\ Len(outputBuffer) \in Int
        /\ Len(outputBuffer) < k + 1
    BY <1>1
  <2>2. left = <<>>
    BY <2>1, SubSeqEmpty
  <2> QED BY <1>1, <2>2, SubSeqFull
<1>6. wire' = wire \o sent /\ outputBuffer' = left
  BY <1>2
<1> HIDE DEF sent, left
<1>7. wire' \o outputBuffer' = wire \o outputBuffer
  <2>1. (wire \o sent) \o left = wire \o (sent \o left)
    <3>1. /\ wire \in Seq(Messages) /\ sent \in Seq(Messages)
          /\ left \in Seq(Messages)
      BY <1>1, <1>3
    <3> QED BY <3>1, ConcatAssociative
  <2> QED BY <1>3, <1>6, <2>1
<1>8. CASE k = 0
  <2>1. UNCHANGED <<chanVars, queue, shut>>
    BY <1>2, <1>8 DEF AllWritten
  <2>2. wire' = wire /\ outputBuffer' = outputBuffer
    BY <1>1, <1>4, <1>6, <1>8, ConcatEmptySeq
  <2> QED BY <1>7, <2>1, <2>2
<1>9. CASE k > 0
  <2>1. state # "Disconnected" /\ ~shut
    BY <1>2, <1>9 DEF IsWriting, BaseInv, StateInv
  <2>2. IsPrefix(wire, wire') /\ IsPrefix(wire', wire' \o outputBuffer')
    BY <1>1, <1>3, <1>6, StreamFacts
  <2>3. shut' => wire' = wire \o outputBuffer /\ outputBuffer' = <<>>
    <3>1. shut' => AllWritten(k)
      BY <1>2, <2>1
    <3> QED BY <1>5, <1>6, <3>1 DEF AllWritten
  <2> QED BY <1>7, <2>1, <2>2, <2>3
<1>10. k = 0 \/ k > 0
  BY <1>1
<1> QED BY <1>8, <1>9, <1>10

\* The sends in the queue were there, k places on.
SendsMoved(k) ==
  \A i \in DOMAIN queue' : queue'[i].op = "send" =>
    i \in Nat \ {0} /\ i + k \in DOMAIN queue /\ queue'[i] = queue[i + k]

\* What is added to the stream was not used before, or its functor is the
\* first and leaves the queue.
StreamGrows(k) ==
  \A m \in Range(wire' \o outputBuffer') \ Range(wire \o outputBuffer) :
    /\ m \in used'
    /\ \/ m \notin used
       \/ /\ k = 1 /\ 1 \in DOMAIN queue
          /\ queue[1].op = "send" /\ queue[1].m = m

\* A step that pushes no send.
LEMMA SentKeeps ==
  ASSUME SentInv, pc' = pc, used \subseteq used',
         \/ SendsMoved(0) /\ StreamGrows(0)
         \/ SendsMoved(1) /\ StreamGrows(1),
         shut' /\ state' # "Disconnected" => outputBuffer' = <<>>
  PROVE  SentInv'
<1>1. PICK k \in {0, 1} : SendsMoved(k) /\ StreamGrows(k)
  OBVIOUS
<1> DEFINE New == Range(wire' \o outputBuffer') \ Range(wire \o outputBuffer)
<1>2. New \subseteq used'
  BY <1>1 DEF StreamGrows
<1>3. Range(wire' \o outputBuffer') \subseteq used'
  BY <1>2 DEF SentInv
<1>4. ASSUME NEW i \in DOMAIN queue', queue'[i].op = "send"
      PROVE  /\ queue'[i].m \in used'
             /\ queue'[i].m \notin Range(wire' \o outputBuffer')
             /\ \A j \in DOMAIN queue' :
                  queue'[j].op = "send" /\ queue'[j].m = queue'[i].m => j = i
  <2>1. /\ i \in Nat \ {0} /\ i + k \in DOMAIN queue
        /\ queue'[i] = queue[i + k] /\ Carried(queue[i + k].m)
    BY <1>1, <1>4 DEF SentInv, SendsMoved
  <2>2. queue[i + k].m \notin New
    <3>1. k = 1 => i + k # 1
      BY <2>1
    <3> QED BY <1>1, <1>4, <2>1, <3>1 DEF SentInv, Carried, StreamGrows
  <2>3. /\ queue'[i].m \in used'
        /\ queue'[i].m \notin Range(wire' \o outputBuffer')
    BY <2>1, <2>2 DEF Carried
  <2>4. ASSUME NEW j \in DOMAIN queue', queue'[j].op = "send",
               queue'[j].m = queue'[i].m
        PROVE  j = i
    <3>1. j \in Nat \ {0} /\ j + k \in DOMAIN queue /\ queue'[j] = queue[j + k]
      BY <1>1, <2>4 DEF SendsMoved
    <3>2. j + k = i + k
      BY <1>4, <2>1, <2>4, <3>1 DEF SentInv
    <3> QED BY <2>1, <3>1, <3>2
  <2> QED BY <2>3, <2>4
<1>5. ASSUME NEW t \in Threads, pc[t].op = "send"
      PROVE  /\ pc[t].m \in used'
             /\ pc[t].m \notin Range(wire' \o outputBuffer')
             /\ \A i \in DOMAIN queue' :
                  queue'[i].op = "send" => queue'[i].m # pc[t].m
             /\ \A u \in Threads :
                  pc[u].op = "send" /\ pc[u].m = pc[t].m => u = t
  <2>1. Carried(pc[t].m) /\ pc[t].m \notin New
    BY <1>1, <1>5 DEF SentInv, Carried, StreamGrows
  <2>2. \A i \in DOMAIN queue' :
          queue'[i].op = "send" => queue'[i].m # pc[t].m
    BY <1>1, <1>5 DEF SentInv, SendsMoved
  <2> QED BY <1>5, <2>1, <2>2 DEF SentInv, Carried
<1> QED BY <1>3, <1>4, <1>5 DEF SentInv, Carried

\* The sends that pops and the connection's own pushes leave in the queue.
LEMMA SendsLeft ==
  ASSUME NEW q \in Seq(Functors),
         NEW op \in (Ops \ {"send"}) \cup {"destroyed", "writeComplete",
                                           "highWater"}
  PROVE  \A r \in {q, Append(q, Functor(op))} : \A i \in DOMAIN r :
           r[i].op = "send" => i \in Nat \ {0} /\ i \in DOMAIN q /\ r[i] = q[i]
<1>1. Functor(op) \in Functors /\ Functor(op).op # "send"
  BY OwnFunctors DEF Ops
<1>2. ASSUME NEW r \in {q, Append(q, Functor(op))},
             NEW i \in DOMAIN r, r[i].op = "send"
      PROVE  i \in DOMAIN q /\ r[i] = q[i]
  BY <1>1, <1>2, QueueElements
<1>3. \A i \in DOMAIN q : i \in Nat \ {0}
  OBVIOUS
<1> QED BY <1>2, <1>3

\* A step that leaves the stream alone: it pushes no send, and shuts the write
\* side only with nothing to write.
LEMMA QuietStep ==
  ASSUME BaseInv, SentInv, UNCHANGED <<pc, used, wire, outputBuffer>>,
         NEW op \in (Ops \ {"send"}) \cup {"destroyed", "writeComplete",
                                           "highWater"},
         \/ queue' \in {queue, Append(queue, Functor(op))}
         \/ queue # <<>> /\ queue' \in {Tail(queue), Append(Tail(queue), Functor(op))},
         state = "Disconnected" => state' = "Disconnected",
         shut' = shut \/ (shut' = TRUE /\ ~IsWriting)
  PROVE  SentInv' /\ [Stream!Next]_Stream!vars
<1>1. /\ queue \in Seq(Functors)
      /\ shut \in BOOLEAN
      /\ ~IsWriting /\ state # "Disconnected" => outputBuffer = <<>>
      /\ wire \in Seq(Messages)
  BY DEF BaseInv, TypeOK, StateInv, WritingIffPending
<1>2. shut' /\ state' # "Disconnected" => outputBuffer' = <<>>
  BY <1>1 DEF SentInv
<1>3. StreamGrows(0) /\ StreamGrows(1)
  BY DEF StreamGrows
<1>4. SentInv'
  <2>1. CASE queue' \in {queue, Append(queue, Functor(op))}
    <3>1. \A i \in DOMAIN queue' : queue'[i].op = "send" =>
            i \in Nat \ {0} /\ i \in DOMAIN queue /\ queue'[i] = queue[i]
      <4>1. \A r \in {queue, Append(queue, Functor(op))} : \A i \in DOMAIN r :
              r[i].op = "send" => i \in Nat \ {0} /\ i \in DOMAIN queue /\ r[i] = queue[i]
        BY <1>1, SendsLeft
      <4> QED BY <2>1, <4>1, Zenon
    <3>2. SendsMoved(0)
      BY <3>1 DEF SendsMoved
    <3> QED BY <1>2, <1>3, <3>2, SentKeeps
  <2>2. CASE /\ queue # <<>>
             /\ queue' \in {Tail(queue), Append(Tail(queue), Functor(op))}
    <3>1. /\ Tail(queue) \in Seq(Functors)
          /\ \A i \in DOMAIN Tail(queue) :
               i + 1 \in DOMAIN queue /\ Tail(queue)[i] = queue[i + 1]
      BY <1>1, <2>2, QueueElements
    <3>2. \A i \in DOMAIN queue' : queue'[i].op = "send" =>
            i \in Nat \ {0} /\ i \in DOMAIN Tail(queue) /\ queue'[i] = Tail(queue)[i]
      BY <2>2, <3>1, SendsLeft
    <3>3. SendsMoved(1)
      BY <3>1, <3>2 DEF SendsMoved
    <3> QED BY <1>2, <1>3, <3>3, SentKeeps
  <2> QED BY <2>1, <2>2
<1>5. [Stream!Next]_Stream!vars
  <2>1. CASE WriteSide' = WriteSide
    BY <2>1 DEF Stream!vars
  <2>2. CASE state # "Disconnected" /\ state' = "Disconnected"
    BY <2>2 DEF Stream!Next, Stream!Lose, WriteSide
  <2>3. CASE /\ state # "Disconnected" /\ state' # "Disconnected"
             /\ ~shut /\ shut' /\ ~IsWriting
    <3>1. wire \o outputBuffer = wire
      BY <1>1, <2>3, ConcatEmptySeq
    <3> QED BY <2>3, <3>1 DEF Stream!Next, Stream!Close, WriteSide
  <2> QED BY <1>1, <2>1, <2>2, <2>3 DEF WriteSide
<1> QED BY <1>4, <1>5

\* sendInLoop, called with a message not used before or run as a functor.
LEMMA SendStep ==
  ASSUME BaseInv, SentInv, UNCHANGED <<pc, state, shut>>,
         NEW m \in Messages, NEW q \in Seq(Functors), SendInLoop(m, q),
         \/ q = queue /\ m \notin used /\ used' = used \cup {m}
         \/ /\ queue # <<>> /\ q = Tail(queue) /\ Head(queue).op = "send"
            /\ Head(queue).m = m /\ used' = used
  PROVE  SentInv' /\ [Stream!Next]_Stream!vars
<1>1. /\ queue \in Seq(Functors) /\ shut \in BOOLEAN
      /\ wire \in Seq(Messages) /\ outputBuffer \in Seq(Messages)
      /\ wire \o outputBuffer \in Seq(Messages)
  BY StreamFacts DEF BaseInv, TypeOK
<1>2. \/ UNCHANGED <<wire, outputBuffer>>
      \/ /\ state # "Disconnected" /\ ~shut
         /\ wire' \in Seq(Messages) /\ outputBuffer' \in Seq(Messages)
         /\ wire' \o outputBuffer' = (wire \o outputBuffer) \o Bytes(m)
         /\ IsPrefix(wire, wire')
         /\ IsPrefix(wire', wire' \o outputBuffer')
  BY SendStream
<1>3. Range(wire' \o outputBuffer') \subseteq Range(wire \o outputBuffer) \cup {m}
  <2>1. /\ Bytes(m) \in Seq(Messages) /\ Range(Bytes(m)) \subseteq {m}
        /\ Range((wire \o outputBuffer) \o Bytes(m)) =
             Range(wire \o outputBuffer) \cup Range(Bytes(m))
    BY <1>1, StreamFacts, Zenon
  <2> QED BY <1>2, <2>1
<1>4. shut' /\ state' # "Disconnected" => outputBuffer' = <<>>
  BY <1>2 DEF SentInv
<1>5. PICK op \in {"writeComplete", "highWater"} :
        queue' \in {q, Append(q, Functor(op))}
  BY SendFacts DEF BaseInv
<1>6. \A i \in DOMAIN queue' : queue'[i].op = "send" =>
        i \in Nat \ {0} /\ i \in DOMAIN q /\ queue'[i] = q[i]
  <2>1. op \in (Ops \ {"send"}) \cup {"destroyed", "writeComplete", "highWater"}
    OBVIOUS
  <2> QED BY <1>5, <2>1, SendsLeft
<1>7. ASSUME q = queue, m \notin used, used' = used \cup {m}
      PROVE  SentInv'
  <2>1. SendsMoved(0)
    BY <1>6, <1>7 DEF SendsMoved
  <2>2. StreamGrows(0)
    BY <1>3, <1>7 DEF StreamGrows
  <2>3. used \subseteq used' /\ pc' = pc
    BY <1>7
  <2> QED BY <1>4, <2>1, <2>2, <2>3, SentKeeps, Zenon
<1>8. ASSUME queue # <<>>, q = Tail(queue), Head(queue).op = "send",
             Head(queue).m = m, used' = used
      PROVE  SentInv'
  <2>1. /\ 1 \in DOMAIN queue /\ Head(queue) = queue[1]
        /\ \A i \in DOMAIN q : i + 1 \in DOMAIN queue /\ q[i] = queue[i + 1]
    BY <1>1, <1>8, QueueElements
  <2>2. SendsMoved(1)
    BY <1>6, <2>1 DEF SendsMoved
  <2>3. StreamGrows(1)
    BY <1>3, <1>8, <2>1 DEF StreamGrows, SentInv, Carried
  <2>4. used \subseteq used' /\ pc' = pc
    BY <1>8
  <2> QED BY <1>4, <2>2, <2>3, <2>4, SentKeeps, Zenon
<1>9. m \notin Range(wire \o outputBuffer)
  BY <1>1, QueueElements DEF SentInv, Carried
<1>10. [Stream!Next]_Stream!vars
  <2>1. WriteSide' = WriteSide
    BY DEF WriteSide
  <2>2. CASE UNCHANGED <<wire, outputBuffer>>
    BY <2>1, <2>2 DEF Stream!vars
  <2>3. CASE /\ state # "Disconnected" /\ ~shut
             /\ wire' \o outputBuffer' = (wire \o outputBuffer) \o Bytes(m)
             /\ IsPrefix(wire, wire')
             /\ IsPrefix(wire', wire' \o outputBuffer')
    <3>1. WriteSide = "open" /\ Stream!Bytes(m) = Bytes(m)
      BY <2>3 DEF WriteSide, Stream!Bytes, Bytes
    <3>2. /\ Stream!Range(wire \o outputBuffer) = Range(wire \o outputBuffer)
          /\ Stream!IsPrefix(wire, wire') = IsPrefix(wire, wire')
          /\ Stream!IsPrefix(wire', wire' \o outputBuffer') =
               IsPrefix(wire', wire' \o outputBuffer')
      BY DEF Stream!Range, Range, Stream!IsPrefix, IsPrefix
    <3>3. Stream!Transfer
      BY <1>9, <2>1, <2>3, <3>1, <3>2 DEF Stream!Transfer
    <3> QED BY <3>3 DEF Stream!Next
  <2> QED BY <1>2, <2>2, <2>3
<1> QED BY <1>7, <1>8, <1>10

\* Calls of user code on the loop thread, and events of the channel.
LEMMA LoopStream ==
  ASSUME CarefulUse, BaseInv, SentInv, LoopUser \/ LoopRuns
  PROVE  SentInv' /\ [Stream!Next]_Stream!vars
<1>1. queue \in Seq(Functors) /\ shut \in BOOLEAN
  BY DEF BaseInv, TypeOK
<1>2. /\ "forceClose" \in Ops \ {"send"}
      /\ state = "Disconnected" => state' \in {"Disconnected", state}
  <2>1. state = "Disconnected" => state' \in {"Disconnected", state}
    BY DEF LoopUser, LoopSend, LoopShutdown, LoopForceClose, ForceClose,
           LoopForceCloseWithDelay, LoopStartRead, LoopStopRead, LoopRuns,
           DispatchHup, HandleRead, HandleWrite, EndCallback, CallClose,
           FinishDestroy, EndEvent, HandleClose, connVars
  <2> QED BY <2>1 DEF Ops
<1>3. ASSUME NEW m \in Messages, LoopSend(m)
      PROVE  SentInv' /\ [Stream!Next]_Stream!vars
  <2>1. /\ m \notin used /\ used' = used \cup {m}
        /\ UNCHANGED <<pc, state, shut>>
    BY <1>3 DEF LoopSend
  <2>2. CASE SendInLoop(m, queue)
    BY <1>1, <2>1, <2>2, SendStep
  <2>3. CASE UNCHANGED <<outputBuffer, chanVars, queue, wire>>
    <3>1. SendsMoved(0) /\ StreamGrows(0)
      BY <1>1, <2>3 DEF SendsMoved, StreamGrows
    <3>2. /\ used \subseteq used' /\ pc' = pc
          /\ shut' /\ state' # "Disconnected" => outputBuffer' = <<>>
      BY <2>1, <2>3 DEF SentInv
    <3>3. UNCHANGED Stream!vars
      BY <2>1, <2>3 DEF Stream!vars, WriteSide
    <3> QED BY <3>1, <3>2, <3>3, SentKeeps
  <2> QED BY <1>3, <2>2, <2>3 DEF LoopSend
<1>4. CASE LoopShutdown
  <2>1. /\ UNCHANGED <<pc, used, wire, outputBuffer, queue>>
        /\ shut' = shut \/ (shut' = TRUE /\ ~IsWriting)
    BY <1>1, <1>4 DEF LoopShutdown, ShutdownInLoop
  <2> QED BY <1>2, <2>1, QuietStep
<1>5. CASE LoopForceClose
  <2>1. /\ UNCHANGED <<pc, used, wire, outputBuffer, shut>>
        /\ queue' = Append(queue, Functor("forceClose"))
    BY <1>5 DEF LoopForceClose, ForceClose
  <2> QED BY <1>2, <2>1, QuietStep
<1>6. CASE LoopForceCloseWithDelay \/ LoopStartRead \/ LoopStopRead
  <2>1. UNCHANGED <<pc, used, wire, outputBuffer, shut, queue>>
    BY <1>6 DEF LoopForceCloseWithDelay, LoopStartRead, LoopStopRead
  <2> QED BY <1>2, <2>1, QuietStep
<1>7. CASE HandleWrite
  <2>1. /\ UNCHANGED <<pc, used, state>>
        /\ queue' \in {queue, Append(queue, Functor("writeComplete"))}
    <3>1. queue' \in {queue, Append(queue, Functor("writeComplete"))}
      BY <1>7 DEF HandleWrite, StopWriting
    <3> QED BY <1>7, <3>1 DEF HandleWrite
  <2>2. SendsMoved(0)
    <3>1. \A i \in DOMAIN queue' : queue'[i].op = "send" =>
            i \in Nat \ {0} /\ i \in DOMAIN queue /\ queue'[i] = queue[i]
      <4>1. \A r \in {queue, Append(queue, Functor("writeComplete"))} :
              \A i \in DOMAIN r : r[i].op = "send" =>
                i \in Nat \ {0} /\ i \in DOMAIN queue /\ r[i] = queue[i]
        BY <1>1, SendsLeft
      <4> QED BY <2>1, <4>1, Zenon
    <3> QED BY <3>1 DEF SendsMoved
  <2>3. StreamGrows(0)
    BY <1>7, WriteStream DEF StreamGrows
  <2>4. shut' /\ state' # "Disconnected" => outputBuffer' = <<>>
    BY <1>7, <2>1, WriteStream DEF SentInv
  <2>5. [Stream!Next]_Stream!vars
    <3>1. CASE UNCHANGED <<wire, outputBuffer, shut>>
      BY <2>1, <3>1 DEF Stream!vars, WriteSide
    <3>2. CASE /\ state # "Disconnected" /\ ~shut
               /\ IsPrefix(wire, wire')
               /\ IsPrefix(wire', wire \o outputBuffer)
               /\ shut' => wire' = wire \o outputBuffer /\ outputBuffer' = <<>>
      <4>1. /\ Stream!IsPrefix(wire, wire') = IsPrefix(wire, wire')
            /\ Stream!IsPrefix(wire', wire \o outputBuffer) =
                 IsPrefix(wire', wire \o outputBuffer)
        BY DEF Stream!IsPrefix, IsPrefix
      <4>2. wire' \o outputBuffer' = wire \o outputBuffer
        BY <1>7, WriteStream
      <4>3. CASE shut'
        BY <2>1, <3>2, <4>2, <4>3 DEF Stream!Next, Stream!Close, WriteSide
      <4>4. CASE ~shut'
        BY <2>1, <3>2, <4>1, <4>2, <4>4
           DEF Stream!Next, Stream!Transfer, WriteSide
      <4> QED BY <4>3, <4>4
    <3> QED BY <1>7, <3>1, <3>2, WriteStream
  <2> QED BY <2>1, <2>2, <2>3, <2>4, <2>5, SentKeeps
<1>8. CASE LoopRuns /\ ~HandleWrite
  <2>1. UNCHANGED <<pc, used, wire, outputBuffer, shut, queue>>
    BY <1>8 DEF LoopRuns, DispatchHup, HandleRead, EndCallback, CallClose,
                FinishDestroy, EndEvent, connVars
  <2> QED BY <1>2, <2>1, QuietStep
<1> QED BY <1>3, <1>4, <1>5, <1>6, <1>7, <1>8 DEF LoopUser

\* The functors.
LEMMA FunctorStream ==
  ASSUME CarefulUse, BaseInv, SentInv, RunFunctor
  PROVE  SentInv' /\ [Stream!Next]_Stream!vars
<1> DEFINE f == Head(queue)
<1>1. /\ queue \in Seq(Functors) /\ queue # <<>> /\ Tail(queue) \in Seq(Functors)
      /\ 1 \in DOMAIN queue /\ f = queue[1]
      /\ UNCHANGED <<pc, used>> /\ shut \in BOOLEAN
  BY QueueElements DEF RunFunctor, BaseInv, TypeOK
<1>2. /\ "forceClose" \in Ops \ {"send"}
      /\ f.op = "send" => f.m \in Messages
      /\ f.op = "established" => state = "Connecting"
  BY <1>1 DEF BaseInv, QueueInv, MayQueue, Ops
<1>3. CASE f.op = "send"
  <2>1. SendInLoop(f.m, Tail(queue)) /\ UNCHANGED <<state, shut>>
    BY <1>3 DEF RunFunctor
  <2> QED BY <1>1, <1>2, <1>3, <2>1, SendStep
<1>4. CASE f.op # "send"
  <2>1. UNCHANGED <<wire, outputBuffer>> /\ queue' = Tail(queue)
    BY <1>4 DEF RunFunctor, connVars
  <2>2. shut' = shut \/ (shut' = TRUE /\ ~IsWriting)
    BY <1>1, <1>4 DEF RunFunctor, ShutdownInLoop
  <2>3. state = "Disconnected" => state' = "Disconnected"
    BY <1>2, <1>4 DEF RunFunctor, ForceCloseInLoop, ConnectDestroyed, connVars
  <2> QED BY <1>1, <1>2, <2>1, <2>2, <2>3, QuietStep
<1> QED BY <1>3, <1>4

\* Other threads, the timer, poll(), the server and the peer.
LEMMA OtherStream ==
  ASSUME CarefulUse, BaseInv, SentInv,
         \/ Peer \/ DelayExpires
         \/ \E out \in BOOLEAN : Poll(out)
         \/ \E t \in Threads :
              \/ \E op \in Ops, m \in Messages \cup {NoMessage} :
                   TestState(t, op, m)
              \/ StoreState(t) \/ QueueCall(t)
         \/ RemoveConnectionInLoop \/ ServerDestroys
         \/ UNCHANGED vars
  PROVE  SentInv' /\ [Stream!Next]_Stream!vars
<1>1. queue \in Seq(Functors) /\ "forceClose" \in Ops \ {"send"}
  BY DEF BaseInv, TypeOK, Ops
<1>2. CASE \/ Peer \/ UNCHANGED vars
           \/ \E out \in BOOLEAN : Poll(out)
  <2>1. UNCHANGED <<pc, used, wire, outputBuffer, shut, queue, state>>
    BY <1>2 DEF Peer, PeerSends, PeerCloses, PeerResets, Poll, vars, connVars
  <2> QED BY <1>1, <2>1, QuietStep
<1>3. CASE DelayExpires
  <2>1. /\ UNCHANGED <<pc, used, wire, outputBuffer, shut>>
        /\ queue' \in {queue, Append(queue, Functor("forceClose"))}
        /\ state = "Disconnected" => state' = "Disconnected"
    BY <1>3 DEF DelayExpires, ForceClose
  <2> QED BY <1>1, <2>1, QuietStep
<1>4. CASE RemoveConnectionInLoop \/ ServerDestroys
  <2>1. /\ UNCHANGED <<pc, used, wire, outputBuffer, shut, state>>
        /\ queue' \in {queue, Append(queue, Functor("destroyed"))}
    BY <1>4 DEF RemoveConnectionInLoop, ServerDestroys, connVars
  <2> QED BY <2>1, QuietStep
<1>5. ASSUME NEW t \in Threads, NEW op \in Ops,
             NEW m \in Messages \cup {NoMessage}, TestState(t, op, m)
      PROVE  SentInv' /\ [Stream!Next]_Stream!vars
  <2> DEFINE call == [op |-> op, m |-> m,
                      next |-> IF op \in Closing THEN "store" ELSE "queue"]
  <2>1. /\ op = "send" => m \in Messages \ used
        /\ used' = used \cup ({m} \cap Messages)
        /\ UNCHANGED <<wire, outputBuffer, shut, queue, state>>
        /\ pc' = [pc EXCEPT ![t] = call]
    BY <1>5 DEF TestState, connVars
  <2>2. call.op = op /\ call.m = m
    OBVIOUS
  <2>3. \A u \in Threads : pc'[u] = IF u = t THEN call ELSE pc[u]
    BY <2>1 DEF BaseInv, TypeOK
  <2> HIDE DEF call
  <2>4. op = "send" =>
          /\ m \in used' /\ m \notin used
          /\ m \notin Range(wire \o outputBuffer)
    BY <2>1 DEF SentInv
  <2>5. ASSUME NEW u \in Threads, pc'[u].op = "send"
        PROVE  /\ pc'[u].m \in used'
               /\ pc'[u].m \notin Range(wire \o outputBuffer)
               /\ \A i \in DOMAIN queue :
                    queue[i].op = "send" => queue[i].m # pc'[u].m
               /\ \A v \in Threads :
                    pc'[v].op = "send" /\ pc'[v].m = pc'[u].m => v = u
    BY <2>1, <2>2, <2>3, <2>4, <2>5 DEF SentInv, Carried
  <2>6. SentInv'
    BY <2>1, <2>5 DEF SentInv, Carried
  <2>7. UNCHANGED Stream!vars
    BY <2>1 DEF Stream!vars, WriteSide
  <2> QED BY <2>6, <2>7
<1>6. ASSUME NEW t \in Threads, StoreState(t)
      PROVE  FALSE
  BY <1>6 DEF StoreState, BaseInv, CallsInv, Idle
<1>7. ASSUME NEW t \in Threads, QueueCall(t)
      PROVE  SentInv' /\ [Stream!Next]_Stream!vars
  <2> DEFINE f == [op |-> pc[t].op, m |-> pc[t].m]
  <2>1. /\ pc[t].op \in {"send", "stopRead"}
        /\ pc[t].m \in Messages \cup {NoMessage}
        /\ UNCHANGED <<wire, outputBuffer, shut, used, state>>
        /\ pc' = [pc EXCEPT ![t] = Idle]
    BY <1>7 DEF QueueCall, BaseInv, CallsInv, CarefulUse, TypeOK, connVars
  <2>2. queue' = Append(queue, f)
    BY <1>7, <2>1 DEF QueueCall
  <2>3. f \in Functors /\ f.op = pc[t].op /\ f.m = pc[t].m
    BY <2>1 DEF Functors, Ops
  <2> HIDE DEF f
  <2>4. \A i \in DOMAIN queue' :
          \/ i \in DOMAIN queue /\ queue'[i] = queue[i]
          \/ i = Len(queue) + 1 /\ queue'[i] = f
    BY <1>1, <2>2, <2>3, QueueElements
  <2>5. \A u \in Threads :
          /\ u = t => pc'[u].op # "send"
          /\ u # t => pc'[u] = pc[u]
    BY <2>1 DEF BaseInv, TypeOK, Idle
  <2>6. ASSUME NEW i \in DOMAIN queue', queue'[i].op = "send"
        PROVE  /\ Carried(queue'[i].m)
               /\ \A j \in DOMAIN queue' :
                    queue'[j].op = "send" /\ queue'[j].m = queue'[i].m => j = i
    BY <2>3, <2>4, <2>6 DEF SentInv
  <2>7. ASSUME NEW u \in Threads, pc'[u].op = "send"
        PROVE  /\ Carried(pc'[u].m)
               /\ \A i \in DOMAIN queue' :
                    queue'[i].op = "send" => queue'[i].m # pc'[u].m
               /\ \A v \in Threads :
                    pc'[v].op = "send" /\ pc'[v].m = pc'[u].m => v = u
    BY <2>3, <2>4, <2>5, <2>7 DEF SentInv
  <2>8. SentInv'
    BY <2>1, <2>6, <2>7 DEF SentInv, Carried
  <2>9. UNCHANGED Stream!vars
    BY <2>1 DEF Stream!vars, WriteSide
  <2> QED BY <2>8, <2>9
<1> QED BY <1>2, <1>3, <1>4, <1>5, <1>6, <1>7

\* Whatever is sent, in callbacks and by any number of threads: the messages
\* enter the stream whole and once each, their bytes reach the kernel in that
\* order, and the write side is shut only behind them (sendInLoop, handleWrite
\* and shutdownInLoop, TcpConnection.cc:134-213 and 368-406).
THEOREM StreamAlwaysSafe ==
  ASSUME CarefulUse
  PROVE  Spec => StreamSafe
<1>1. Init => BaseInv /\ SentInv /\ Stream!Init
  <2> SUFFICES ASSUME Init PROVE SentInv /\ Stream!Init
    BY InitBase
  <2>1. wire \o outputBuffer = <<>> /\ Range(<<>>) = {}
    BY DEF Init, Range
  <2>2. /\ \A i \in DOMAIN queue : queue[i].op # "send"
        /\ \A t \in Threads : pc[t].op # "send"
    BY DEF Init, Idle, Functor
  <2>3. SentInv
    BY <2>1, <2>2 DEF Init, SentInv
  <2>4. Stream!Init
    BY <2>1 DEF Init, Stream!Init, WriteSide
  <2> QED BY <2>3, <2>4
<1>2. BaseInv /\ SentInv /\ [Next]_vars =>
        BaseInv' /\ SentInv' /\ [Stream!Next]_Stream!vars
  BY NextBase, LoopStream, FunctorStream, OtherStream DEF Next
<1> QED BY <1>1, <1>2, PTL DEF Spec, StreamSafe, Stream!Safe
=============================================================================
