--------------------------- MODULE TcpClientProofs ---------------------------
(***************************************************************************)
(* TLAPS proofs about TcpClient, for any threads, retry delays, bound and  *)
(* outcome of every attempt: one attempt or connection at a time, with its *)
(* socket and its channel, and a client that goes on trying.               *)
(***************************************************************************)
EXTENDS TcpClient, SequenceLemmas

(* The inductive invariant.                                                *)

Unique(q, f) == \A i, j \in DOMAIN q : q[i] = f /\ q[j] = f => i = j

\* Functor f is queued once at most.
Once(f) ==
  /\ Unique(pending, f) /\ Unique(batch, f)
  /\ f \in Range(pending) => f \notin Range(batch)

OnceInv ==
  \A f \in {"startInLoop", "resetChannel", "connectDestroyed"} : Once(f)

Connects(t) == pc[t].at # "idle" /\ pc[t].call = "connect"

\* Before connect() is through there is nothing but its call, and a client is
\* not destroyed during a call.
StartInv ==
  /\ \A t \in Threads : Connects(t) => started = "begun"
  /\ \A t, u \in Threads : Connects(t) /\ Connects(u) => t = u
  /\ started # "done" =>
       Ways = 0 /\ state = "kDisconnected" /\ channel = "none" /\ link = "none"
  /\ ~clientAlive => \A t \in Threads : pc[t].at = "idle"

\* One way to go on, which leads to kConnecting from kDisconnected only, and
\* not before the channel of the attempt before is reset.
AttemptInv ==
  /\ OneAttempt
  /\ timers > 0 \/ "startInLoop" \in Queued => state = "kDisconnected"
  /\ "resetChannel" \in Queued <=> channel = "removed"
  /\ loopPc # "idle" \/ "startInLoop" \in Queued => "resetChannel" \notin Queued
  /\ "timer" \in active => timers > 0 /\ "resetChannel" \notin Queued

\* What is left to handle is of the connection or attempt there is, and what a
\* connection's begin and end have queued runs before the loop polls again.
LinkInv ==
  /\ phase # "events" => active = {}
  /\ phase # "functors" => batch = <<>>
  /\ "connection" \in active => link = "up" /\ "resetChannel" \notin Queued
  /\ "connector" \in active => link = "none"
  /\ "connectDestroyed" \in Queued <=> link = "closed"
  /\ link = "closed" =>
       \/ Ways = 0 \/ phase = "events"
       \/ phase = "functors" /\ "connectDestroyed" \in Range(batch)
  /\ link = "up" /\ "resetChannel" \in Queued =>
       \/ phase = "events"
       \/ phase = "functors" /\ "resetChannel" \in Range(batch)
  /\ SocketsOwned

\* The client and its connector against their ends: a dead client's attempt is
\* to be stopped, and no other begins.
EndInv ==
  /\ LifetimesKept
  /\ clientAlive => (connection <=> link = "up")
  /\ "forceClose" \in Queued => ~clientAlive
  /\ ~clientAlive => loopPc # "restart"
  /\ ~clientAlive /\ connect =>
       /\ state # "kConnecting" /\ timers = 0 /\ loopPc = "idle"
       /\ "startInLoop" \notin Queued
  /\ ~clientAlive /\ state = "kConnecting" => "stopInLoop" \in Queued
  /\ ~connectorAlive =>
       /\ ~clientAlive /\ timers = 0 /\ loopPc = "idle"

ClientInv ==
  /\ TypeOK /\ OnceInv /\ StartInv /\ AttemptInv /\ LinkInv /\ EndInv
  /\ KeepsTrying

-----------------------------------------------------------------------------
(* The functors queued.                                                    *)

\* The functors of which there is one at a time.
Single == {"startInLoop", "resetChannel", "connectDestroyed"}

LEMMA PushUnique ==
  ASSUME NEW q \in Seq(Functors), NEW f \in Functors
  PROVE  /\ Append(q, f) \in Seq(Functors)
         /\ Range(Append(q, f)) = Range(q) \cup {f}
         /\ \A g \in Functors :
              Unique(q, g) /\ (g = f => g \notin Range(q)) => Unique(Append(q, f), g)
<1>1. /\ Append(q, f) \in Seq(Functors)
      /\ Range(Append(q, f)) = Range(q) \cup {f}
  BY RangeAppend
<1>2. /\ \A i \in DOMAIN Append(q, f) :
           \/ i \in DOMAIN q /\ Append(q, f)[i] = q[i]
           \/ i = Len(q) + 1 /\ Append(q, f)[i] = f
      /\ \A i \in DOMAIN q : q[i] \in Range(q)
  BY DEF Range
<1> QED BY <1>1, <1>2 DEF Unique

LEMMA PopUnique ==
  ASSUME NEW q \in Seq(Functors), q # <<>>
  PROVE  /\ Tail(q) \in Seq(Functors) /\ Head(q) \in Functors
         /\ Range(q) = Range(Tail(q)) \cup {Head(q)}
         /\ \A g \in Functors : Unique(q, g) =>
              Unique(Tail(q), g) /\ (Head(q) = g => g \notin Range(Tail(q)))
<1>1. /\ Tail(q) \in Seq(Functors) /\ Head(q) \in Functors
      /\ 1 \in DOMAIN q /\ Head(q) = q[1]
      /\ \A i \in DOMAIN Tail(q) :
           i + 1 \in DOMAIN q /\ i + 1 # 1 /\ i \in Nat /\ Tail(q)[i] = q[i + 1]
      /\ \A i \in DOMAIN q :
           i = 1 \/ (i - 1 \in DOMAIN Tail(q) /\ Tail(q)[i - 1] = q[i])
  OBVIOUS
<1>2. Range(q) = Range(Tail(q)) \cup {Head(q)}
  <2>1. ASSUME NEW i \in DOMAIN q
        PROVE  q[i] \in Range(Tail(q)) \cup {Head(q)}
    <3>1. CASE i = 1
      BY <1>1, <3>1
    <3>2. CASE i - 1 \in DOMAIN Tail(q) /\ Tail(q)[i - 1] = q[i]
      BY <3>2 DEF Range
    <3> QED BY <1>1, <3>1, <3>2
  <2>2. \A i \in DOMAIN Tail(q) : Tail(q)[i] \in Range(q)
    BY <1>1 DEF Range
  <2>3. Head(q) \in Range(q)
    BY <1>1 DEF Range
  <2> QED BY <2>1, <2>2, <2>3 DEF Range
<1>3. ASSUME NEW g \in Functors, Unique(q, g)
      PROVE  Unique(Tail(q), g) /\ (Head(q) = g => g \notin Range(Tail(q)))
  <2>1. Unique(Tail(q), g)
    BY <1>1, <1>3 DEF Unique
  <2>2. ASSUME Head(q) = g, g \in Range(Tail(q))
        PROVE  FALSE
    <3>1. PICK i \in DOMAIN Tail(q) : Tail(q)[i] = g
      BY <2>2 DEF Range
    <3> QED BY <1>1, <1>3, <2>2, <3>1 DEF Unique
  <2> QED BY <2>1, <2>2
<1> QED BY <1>1, <1>2, <1>3

\* A step that pushes functor f or nothing, and runs the first functor or none.
LEMMA QueueStep ==
  ASSUME TypeOK, OnceInv, NEW f \in Functors,
         f \in Single => f \notin Queued,
         pending' \in {pending, Append(pending, f)},
         batch' = batch \/ (batch # <<>> /\ batch' = Tail(batch))
  PROVE  /\ pending' \in Seq(Functors) /\ batch' \in Seq(Functors)
         /\ OnceInv'
         /\ pending' = Append(pending, f) => Range(pending') = Range(pending) \cup {f}
         /\ batch # <<>> /\ batch' = Tail(batch) =>
              /\ Head(batch) \in Functors
              /\ Range(batch) = Range(batch') \cup {Head(batch)}
              /\ Head(batch) \in Single =>
                   Head(batch) \notin Range(pending) \cup Range(batch')
<1>1. /\ pending \in Seq(Functors) /\ batch \in Seq(Functors)
      /\ Single \subseteq Functors
  BY DEF TypeOK, Single, Functors
<1>2. /\ pending' \in Seq(Functors)
      /\ Range(pending') \in {Range(pending), Range(pending) \cup {f}}
      /\ pending' = Append(pending, f) => Range(pending') = Range(pending) \cup {f}
      /\ f \notin Range(pending) \/ f \notin Single \/ pending' = pending
      /\ \A g \in Single : Unique(pending, g) => Unique(pending', g)
  <2>1. CASE pending' = Append(pending, f)
    <3>1. /\ Append(pending, f) \in Seq(Functors)
          /\ Range(Append(pending, f)) = Range(pending) \cup {f}
          /\ \A g \in Functors :
               Unique(pending, g) /\ (g = f => g \notin Range(pending))
                 => Unique(Append(pending, f), g)
      BY <1>1, PushUnique
    <3> QED BY <1>1, <2>1, <3>1 DEF Queued
  <2>2. CASE pending' = pending /\ pending # Append(pending, f)
    BY <1>1, <2>2
  <2> QED BY <2>1, <2>2
<1>3. CASE batch' = batch
  <2>1. batch # <<>> => batch # Tail(batch)
    BY <1>1
  <2>2. OnceInv'
    BY <1>2, <1>3 DEF OnceInv, Once, Single, Queued
  <2> QED BY <1>1, <1>2, <1>3, <2>1, <2>2
<1>4. CASE batch # <<>> /\ batch' = Tail(batch)
  <2>1. /\ batch' \in Seq(Functors) /\ Head(batch) \in Functors
        /\ Range(batch) = Range(batch') \cup {Head(batch)}
        /\ \A g \in Single : Unique(batch, g) =>
             Unique(batch', g) /\ (Head(batch) = g => g \notin Range(batch'))
    BY <1>1, <1>4, PopUnique
  <2>2. OnceInv'
    BY <1>2, <2>1 DEF OnceInv, Once, Single, Queued
  <2>3. Head(batch) \in Single =>
          Head(batch) \notin Range(pending) \cup Range(batch')
    BY <2>1 DEF OnceInv, Once, Single
  <2> QED BY <1>2, <2>1, <2>2, <2>3
<1> QED BY <1>3, <1>4

\* The queue is left alone.
LEMMA QueueSame ==
  ASSUME OnceInv, UNCHANGED <<pending, batch>>
  PROVE  OnceInv' /\ Queued' = Queued
BY DEF OnceInv, Once, Queued

\* A functor is pushed.
LEMMA QueuePush ==
  ASSUME TypeOK, OnceInv, NEW f \in Functors, f \in Single => f \notin Queued,
         pending' = Append(pending, f), batch' = batch
  PROVE  /\ pending' \in Seq(Functors) /\ batch' \in Seq(Functors)
         /\ OnceInv' /\ Range(pending') = Range(pending) \cup {f}
         /\ Queued' = Queued \cup {f}
<1>1. /\ pending' \in Seq(Functors) /\ batch' \in Seq(Functors)
      /\ OnceInv' /\ Range(pending') = Range(pending) \cup {f}
  BY QueueStep
<1> QED BY <1>1 DEF Queued

\* min(), doubling the delay.
LEMMA RetryDelay ==
  ASSUME TypeOK
  PROVE  Min({retryDelayMs * 2, kMaxRetryDelayMs})
           \in kInitRetryDelayMs .. kMaxRetryDelayMs
<1> DEFINE a == retryDelayMs * 2
<1>1. /\ a \in Nat /\ kMaxRetryDelayMs \in Nat /\ kInitRetryDelayMs \in Nat
      /\ kInitRetryDelayMs <= a /\ kInitRetryDelayMs <= kMaxRetryDelayMs
  BY ClientAssumption DEF TypeOK
<1> HIDE DEF a
<1>2. \E x \in {a, kMaxRetryDelayMs} : \A y \in {a, kMaxRetryDelayMs} : x <= y
  BY <1>1
<1>3. /\ Min({a, kMaxRetryDelayMs}) \in {a, kMaxRetryDelayMs}
      /\ Min({a, kMaxRetryDelayMs}) <= kMaxRetryDelayMs
  BY <1>1, <1>2 DEF Min
<1> QED BY <1>1, <1>3 DEF a

\* retry() of an attempt that is over.
LEMMA RetriedFacts ==
  ASSUME TypeOK, Retried
  PROVE  /\ state' = "kDisconnected" /\ timers' \in Nat
         /\ retryDelayMs' \in kInitRetryDelayMs .. kMaxRetryDelayMs
         /\ connect => timers' = timers + 1
         /\ ~connect => timers' = timers
BY RetryDelay DEF Retried, TypeOK

-----------------------------------------------------------------------------
(* The steps keep the invariant.                                           *)

\* startInLoop() and connect().
LEMMA StartInLoopKeeps ==
  ASSUME ClientInv, StartInLoop
  PROVE  ClientInv'
<1>1. /\ loopPc = "startInLoop" /\ loopPc' = "idle"
      /\ UNCHANGED <<clientConnect, connection, clientAlive, connect,
                     connectorAlive, link, phase, active, pending, batch, pc,
                     started, stopped>>
  BY DEF StartInLoop, clientVars
<1>2. OnceInv' /\ Queued' = Queued
  BY <1>1, QueueSame DEF ClientInv
<1>3. /\ Ways = 1 /\ timers = 0 /\ state = "kDisconnected" /\ link # "up"
      /\ "startInLoop" \notin Queued /\ channel # "registered"
      /\ "resetChannel" \notin Queued /\ started = "done"
      /\ clientAlive \/ ~connect
      /\ connectorAlive
      /\ timers \in Nat
  BY <1>1 DEF ClientInv, TypeOK, StartInv, AttemptInv, OneAttempt, Ways, EndInv
<1>4. CASE connect /\ Connecting
  <2>1. /\ state' = "kConnecting" /\ channel' = "registered"
        /\ sockets' = sockets + 1 /\ faults' = faults
        /\ UNCHANGED <<retryDelayMs, timers, gaveUp>>
    BY <1>3, <1>4 DEF Connecting
  <2>2. TypeOK'
    BY <1>1, <2>1 DEF ClientInv, TypeOK
  <2>3. Ways' = 1
    BY <1>1, <1>2, <1>3, <2>1 DEF Ways
  <2>4. StartInv'
    BY <1>1, <1>3, <2>1 DEF ClientInv, StartInv, Connects
  <2>5. AttemptInv'
    BY <1>1, <1>2, <1>3, <2>1, <2>3 DEF ClientInv, AttemptInv, OneAttempt
  <2>6. LinkInv'
    BY <1>1, <1>2, <1>3, <2>1 DEF ClientInv, LinkInv, SocketsOwned, TypeOK
  <2>7. EndInv'
    BY <1>1, <1>2, <1>3, <1>4, <2>1 DEF ClientInv, EndInv, LifetimesKept
  <2>8. KeepsTrying'
    BY <2>3 DEF KeepsTrying
  <2> QED BY <1>2, <2>2, <2>4, <2>5, <2>6, <2>7, <2>8 DEF ClientInv
<1>5. CASE /\ connect /\ Retried
           /\ UNCHANGED <<channel, sockets, gaveUp, faults>>
  <2>1. /\ state' = "kDisconnected" /\ timers' = 1
        /\ retryDelayMs' \in kInitRetryDelayMs .. kMaxRetryDelayMs
    BY <1>3, <1>5, RetriedFacts DEF ClientInv
  <2>2. TypeOK'
    BY <1>1, <1>5, <2>1 DEF ClientInv, TypeOK
  <2>3. Ways' = 1
    BY <1>1, <1>2, <1>3, <2>1 DEF Ways
  <2>4. StartInv'
    BY <1>1, <1>3, <2>1 DEF ClientInv, StartInv, Connects
  <2>5. AttemptInv'
    BY <1>1, <1>2, <1>3, <1>5, <2>1, <2>3
       DEF ClientInv, AttemptInv, OneAttempt
  <2>6. LinkInv'
    BY <1>1, <1>2, <1>3, <1>5, <2>1 DEF ClientInv, LinkInv, SocketsOwned
  <2>7. EndInv'
    BY <1>1, <1>2, <1>3, <1>5, <2>1 DEF ClientInv, EndInv, LifetimesKept
  <2>8. KeepsTrying'
    BY <2>3 DEF KeepsTrying
  <2> QED BY <1>2, <2>2, <2>4, <2>5, <2>6, <2>7, <2>8 DEF ClientInv
<1>6. CASE /\ UNCHANGED <<attemptVars, sockets, faults>>
           /\ gaveUp' \in BOOLEAN
           /\ gaveUp' = TRUE \/ ~connect
  <2>1. UNCHANGED <<state, channel, retryDelayMs, timers, sockets, faults>>
    BY <1>6 DEF attemptVars
  <2>2. TypeOK'
    BY <1>1, <1>6, <2>1 DEF ClientInv, TypeOK
  <2>3. Ways' = 0
    BY <1>1, <1>2, <1>3, <2>1 DEF Ways
  <2>4. StartInv'
    BY <1>1, <1>3, <2>1 DEF ClientInv, StartInv, Connects
  <2>5. AttemptInv'
    BY <1>1, <1>2, <1>3, <2>1, <2>3 DEF ClientInv, AttemptInv, OneAttempt
  <2>6. LinkInv'
    BY <1>1, <1>2, <1>3, <2>1, <2>3 DEF ClientInv, LinkInv, SocketsOwned
  <2>7. EndInv'
    BY <1>1, <1>2, <1>3, <2>1 DEF ClientInv, EndInv, LifetimesKept
  <2>8. KeepsTrying'
    BY <1>1, <1>6 DEF KeepsTrying
  <2> QED BY <1>2, <2>2, <2>4, <2>5, <2>6, <2>7, <2>8 DEF ClientInv
<1> QED BY <1>4, <1>5, <1>6 DEF StartInLoop, ClientInv, TypeOK

\* The event of an attempt: connected, or to be retried.
LEMMA HandleAttemptKeeps ==
  ASSUME ClientInv, HandleAttempt
  PROVE  ClientInv'
<1>1. /\ "connector" \in active /\ loopPc = "idle"
      /\ active' = active \ {"connector"} /\ state = "kConnecting"
      /\ channel' = "removed" /\ pending' = Append(pending, "resetChannel")
      /\ UNCHANGED <<clientConnect, clientAlive, connect, connectorAlive,
                     phase, loopPc, batch, pc, started, stopped, gaveUp>>
  BY DEF HandleAttempt, Connected, AttemptFails, RemoveAndResetChannel
<1>2. /\ Ways = 1 /\ timers = 0 /\ channel = "registered" /\ link = "none"
      /\ "startInLoop" \notin Queued /\ "resetChannel" \notin Queued
      /\ "timer" \notin active /\ "connection" \notin active
      /\ phase = "events" /\ started = "done" /\ sockets = 1 /\ faults = {}
      /\ "connectDestroyed" \notin Queued
      /\ connect => clientAlive
      /\ connectorAlive
  <2>1. /\ Ways = 1 /\ timers = 0 /\ "startInLoop" \notin Queued
    BY <1>1 DEF ClientInv, TypeOK, AttemptInv, OneAttempt, Ways
  <2>2. /\ channel = "registered" /\ link = "none"
        /\ phase = "events" /\ started = "done" /\ sockets = 1 /\ faults = {}
        /\ connect => clientAlive
        /\ connectorAlive
    BY <1>1, <2>1 DEF ClientInv, TypeOK, StartInv, AttemptInv, OneAttempt,
                      LinkInv, SocketsOwned, EndInv, LifetimesKept
  <2> QED BY <2>1, <2>2 DEF ClientInv, AttemptInv, LinkInv
<1>3. /\ pending' \in Seq(Functors) /\ batch' \in Seq(Functors)
      /\ OnceInv' /\ Range(pending') = Range(pending) \cup {"resetChannel"}
      /\ Queued' = Queued \cup {"resetChannel"}
  <2>1. "resetChannel" \in Functors /\ pending \in Seq(Functors)
    BY DEF Functors, ClientInv, TypeOK
  <2> QED BY <1>1, <1>2, <2>1, QueuePush DEF ClientInv
<1>4. CASE Connected /\ connect
  <2>1. /\ state' = "kConnected" /\ connection' = TRUE /\ link' = "up"
        /\ faults' = {} /\ UNCHANGED <<sockets, retryDelayMs, timers>>
    BY <1>2, <1>4 DEF Connected, NewConnection
  <2>2. TypeOK'
    BY <1>1, <1>3, <2>1 DEF ClientInv, TypeOK
  <2>3. Ways' = 1
    BY <1>1, <1>2, <1>3, <2>1 DEF Ways
  <2>4. StartInv'
    BY <1>1, <1>2, <2>1 DEF ClientInv, StartInv, Connects
  <2>5. AttemptInv'
    BY <1>1, <1>2, <1>3, <2>1, <2>3 DEF ClientInv, AttemptInv, OneAttempt
  <2>6. LinkInv'
    BY <1>1, <1>2, <1>3, <2>1 DEF ClientInv, LinkInv, SocketsOwned
  <2>7. EndInv'
    BY <1>1, <1>2, <1>3, <1>4, <2>1 DEF ClientInv, EndInv, LifetimesKept
  <2>8. KeepsTrying'
    BY <2>3 DEF KeepsTrying
  <2> QED BY <1>3, <2>2, <2>4, <2>5, <2>6, <2>7, <2>8 DEF ClientInv
<1>5. ASSUME state' \in {"kConnected", "kDisconnected"}, sockets' = 0,
             UNCHANGED <<connection, link, faults>>,
             retryDelayMs' \in kInitRetryDelayMs .. kMaxRetryDelayMs,
             timers' \in {0, 1}, timers' = 1 => state' = "kDisconnected" /\ connect,
             connect => timers' = 1
      PROVE  ClientInv'
  <2>2. TypeOK'
    BY <1>1, <1>3, <1>5 DEF ClientInv, TypeOK
  <2>3. Ways' \in {0, 1} /\ (timers' = 0 => Ways' = 0) /\ (timers' = 1 => Ways' = 1)
    <3>1. /\ state' # "kConnecting" /\ link' # "up" /\ loopPc' = "idle"
          /\ "startInLoop" \notin Queued'
      BY <1>1, <1>2, <1>3, <1>5
    <3>2. CASE timers' = 0
      BY <3>1, <3>2 DEF Ways
    <3>3. CASE timers' = 1
      BY <3>1, <3>3 DEF Ways
    <3> QED BY <1>5, <3>2, <3>3
  <2>4. StartInv'
    BY <1>1, <1>2, <1>5 DEF ClientInv, StartInv, Connects
  <2>5. AttemptInv'
    BY <1>1, <1>2, <1>3, <1>5, <2>3 DEF ClientInv, AttemptInv, OneAttempt
  <2>6. LinkInv'
    BY <1>1, <1>2, <1>3, <1>5 DEF ClientInv, LinkInv, SocketsOwned
  <2>7. EndInv'
    BY <1>1, <1>2, <1>3, <1>5 DEF ClientInv, EndInv, LifetimesKept
  <2>8. KeepsTrying'
    BY <1>1, <1>5, <2>3 DEF KeepsTrying
  <2> QED BY <1>3, <2>2, <2>4, <2>5, <2>6, <2>7, <2>8 DEF ClientInv
<1>6. CASE Connected /\ ~connect
  <2>1. /\ state' = "kConnected" /\ sockets' = 0
        /\ UNCHANGED <<connection, link, faults, retryDelayMs, timers>>
    BY <1>2, <1>6 DEF Connected
  <2>2. retryDelayMs' \in kInitRetryDelayMs .. kMaxRetryDelayMs
    BY <2>1 DEF ClientInv, TypeOK
  <2>3. timers' = 0 /\ ~connect
    BY <1>2, <1>6, <2>1
  <2> QED BY <1>5, <2>1, <2>2, <2>3
<1>7. CASE AttemptFails
  <2>1. /\ state' = "kDisconnected" /\ timers' \in {0, 1}
        /\ timers' = 1 => connect
        /\ connect => timers' = 1
        /\ retryDelayMs' \in kInitRetryDelayMs .. kMaxRetryDelayMs
    BY <1>2, <1>7, RetriedFacts DEF AttemptFails, ClientInv
  <2>2. sockets' = 0 /\ UNCHANGED <<connection, link, faults>>
    BY <1>2, <1>7 DEF AttemptFails
  <2> QED BY <1>5, <2>1, <2>2
<1> QED BY <1>4, <1>6, <1>7 DEF HandleAttempt, ClientInv, TypeOK

\* A retry timer, and restart().
LEMMA TimerKeeps ==
  ASSUME ClientInv, HandleTimer \/ Restart
  PROVE  ClientInv'
<1>1. /\ loopPc' = "startInLoop"
      /\ UNCHANGED <<clientConnect, connection, clientAlive, channel,
                     connectorAlive, link, sockets, phase, pending, batch, pc,
                     started, stopped, gaveUp, faults>>
  BY DEF HandleTimer, Restart, clientVars, historyVars
<1>2. OnceInv' /\ Queued' = Queued
  BY <1>1, QueueSame DEF ClientInv
<1>3. CASE HandleTimer
  <2>1. /\ "timer" \in active /\ loopPc = "idle" /\ active' = active \ {"timer"}
        /\ timers' = timers - 1
        /\ UNCHANGED <<connect, state, retryDelayMs>>
    BY <1>3 DEF HandleTimer
  <2>2. /\ Ways = 1 /\ timers = 1 /\ state = "kDisconnected" /\ link # "up"
        /\ "startInLoop" \notin Queued /\ channel # "registered"
        /\ "resetChannel" \notin Queued /\ started = "done"
        /\ phase = "events" /\ (clientAlive \/ ~connect)
        /\ connectorAlive
    <3>1. /\ Ways = 1 /\ timers = 1 /\ "startInLoop" \notin Queued /\ link # "up"
          /\ "resetChannel" \notin Queued /\ state = "kDisconnected"
      BY <2>1 DEF ClientInv, TypeOK, AttemptInv, OneAttempt, Ways
    <3> QED BY <2>1, <3>1 DEF ClientInv, TypeOK, StartInv, AttemptInv, OneAttempt,
                              LinkInv, EndInv
  <2>3. TypeOK'
    BY <1>1, <2>1, <2>2 DEF ClientInv, TypeOK
  <2>4. Ways' = 1
    BY <1>1, <1>2, <2>1, <2>2 DEF Ways
  <2>5. StartInv'
    BY <1>1, <2>1, <2>2 DEF ClientInv, StartInv, Connects
  <2>6. AttemptInv'
    BY <1>1, <1>2, <2>1, <2>2, <2>4 DEF ClientInv, AttemptInv, OneAttempt
  <2>7. LinkInv'
    BY <1>1, <1>2, <2>1, <2>2 DEF ClientInv, LinkInv, SocketsOwned
  <2>8. EndInv'
    BY <1>1, <1>2, <2>1, <2>2 DEF ClientInv, EndInv, LifetimesKept
  <2>9. KeepsTrying'
    BY <2>4 DEF KeepsTrying
  <2> QED BY <1>2, <2>3, <2>5, <2>6, <2>7, <2>8, <2>9 DEF ClientInv
<1>4. CASE Restart
  <2>1. /\ loopPc = "restart" /\ state' = "kDisconnected" /\ connect' = TRUE
        /\ retryDelayMs' = kInitRetryDelayMs
        /\ UNCHANGED <<timers, active>>
    BY <1>4 DEF Restart
  <2>2. /\ Ways = 1 /\ timers = 0 /\ state # "kConnecting" /\ link # "up"
        /\ "startInLoop" \notin Queued /\ channel # "registered"
        /\ "resetChannel" \notin Queued /\ started = "done"
        /\ clientAlive /\ connectorAlive
    <3>1. /\ Ways = 1 /\ timers = 0 /\ "startInLoop" \notin Queued /\ link # "up"
          /\ state # "kConnecting" /\ "resetChannel" \notin Queued
      BY <2>1 DEF ClientInv, TypeOK, AttemptInv, OneAttempt, Ways
    <3> QED BY <2>1, <3>1 DEF ClientInv, TypeOK, StartInv, AttemptInv, OneAttempt,
                              LinkInv, EndInv
  <2>3. TypeOK'
    <3>1. retryDelayMs' \in kInitRetryDelayMs .. kMaxRetryDelayMs
      BY <2>1, ClientAssumption
    <3> QED BY <1>1, <2>1, <3>1 DEF ClientInv, TypeOK
  <2>4. Ways' = 1
    BY <1>1, <1>2, <2>1, <2>2 DEF Ways
  <2>5. StartInv'
    BY <1>1, <2>1, <2>2 DEF ClientInv, StartInv, Connects
  <2>6. AttemptInv'
    BY <1>1, <1>2, <2>1, <2>2, <2>4 DEF ClientInv, AttemptInv, OneAttempt
  <2>7. LinkInv'
    BY <1>1, <1>2, <2>1, <2>2, <2>4 DEF ClientInv, LinkInv, SocketsOwned
  <2>8. EndInv'
    BY <1>1, <1>2, <2>1, <2>2 DEF ClientInv, EndInv, LifetimesKept
  <2>9. KeepsTrying'
    BY <2>4 DEF KeepsTrying
  <2> QED BY <1>2, <2>3, <2>5, <2>6, <2>7, <2>8, <2>9 DEF ClientInv
<1> QED BY <1>3, <1>4

\* The end of the connection, by its event or by forceClose().
LEMMA RemoveConnectionKeeps ==
  ASSUME ClientInv, RemoveConnection, link = "up", loopPc = "idle",
         \/ phase = "events" /\ batch' = batch /\ "resetChannel" \notin Queued
         \/ /\ ~clientAlive /\ phase = "functors" /\ batch # <<>>
            /\ Head(batch) = "forceClose" /\ batch' = Tail(batch),
         active' = active \ {"connection"},
         UNCHANGED <<clientConnect, clientAlive, connectorVars, sockets, phase,
                     pc, historyVars>>
  PROVE  ClientInv'
<1>1. /\ link' = "closed" /\ connection' = FALSE
      /\ pending' = Append(pending, "connectDestroyed")
      /\ loopPc' \in {"restart", "idle"}
      /\ loopPc' = "restart" => clientAlive
      /\ UNCHANGED <<clientConnect, clientAlive, connect, state, channel,
                     retryDelayMs, timers, connectorAlive, sockets, phase, pc,
                     started, stopped, gaveUp, faults>>
  BY DEF RemoveConnection, connectorVars, attemptVars, historyVars
<1>2. /\ Ways = 1 /\ timers = 0 /\ state # "kConnecting"
      /\ channel # "registered" /\ "startInLoop" \notin Queued
      /\ started = "done" /\ sockets = 1
      /\ "connectDestroyed" \notin Queued
  <2>1. /\ Ways = 1 /\ timers = 0 /\ state # "kConnecting"
        /\ "startInLoop" \notin Queued
    BY DEF ClientInv, TypeOK, AttemptInv, OneAttempt, Ways
  <2> QED BY <2>1 DEF ClientInv, TypeOK, StartInv, AttemptInv, OneAttempt, LinkInv,
                      SocketsOwned
<1>3. /\ pending' \in Seq(Functors) /\ batch' \in Seq(Functors)
      /\ OnceInv' /\ Range(pending') = Range(pending) \cup {"connectDestroyed"}
      /\ batch' = batch \/ Range(batch) = Range(batch') \cup {"forceClose"}
  <2>1. "connectDestroyed" \in Functors
    BY DEF Functors
  <2>2. /\ pending' \in {pending, Append(pending, "connectDestroyed")}
        /\ batch' = batch \/ (batch # <<>> /\ batch' = Tail(batch))
    BY <1>1
  <2> QED BY <1>1, <1>2, <2>1, <2>2, QueueStep DEF ClientInv
<1>4. /\ Queued' \subseteq Queued \cup {"connectDestroyed"}
      /\ \A f \in Functors : f # "forceClose" =>
           (f \in Queued' <=> f \in Queued \/ f = "connectDestroyed")
  BY <1>3 DEF Queued
<1>5. TypeOK'
  <2>1. /\ active' \subseteq {"timer", "connector", "connection"}
        /\ loopPc' \in {"idle", "restart", "startInLoop"}
        /\ link' \in {"none", "up", "closed"} /\ connection' \in BOOLEAN
    BY <1>1 DEF ClientInv, TypeOK
  <2> QED BY <1>1, <1>3, <2>1 DEF ClientInv, TypeOK
<1>6. /\ "startInLoop" \notin Queued' /\ "connectDestroyed" \in Queued'
      /\ "resetChannel" \in Queued' <=> "resetChannel" \in Queued
      /\ "stopInLoop" \in Queued' <=> "stopInLoop" \in Queued
      /\ "forceClose" \in Queued' => "forceClose" \in Queued
      /\ Queued' \cap OfConnector = Queued \cap OfConnector
  BY <1>2, <1>4 DEF Functors, OfConnector
<1>7. Ways' = IF loopPc' = "idle" THEN 0 ELSE 1
  BY <1>1, <1>2, <1>6 DEF Ways
<1>8. StartInv'
  BY <1>1, <1>2 DEF ClientInv, StartInv, Connects
<1>9. AttemptInv'
  BY <1>1, <1>2, <1>6, <1>7 DEF ClientInv, AttemptInv, OneAttempt, EndInv, LinkInv
<1>10. LinkInv'
  BY <1>1, <1>2, <1>3, <1>6, <1>7 DEF ClientInv, LinkInv, SocketsOwned
<1>11. EndInv'
  BY <1>1, <1>2, <1>6 DEF ClientInv, EndInv, LifetimesKept
<1>12. KeepsTrying'
  BY <1>1, <1>7 DEF KeepsTrying, RemoveConnection
<1> QED BY <1>3, <1>5, <1>8, <1>9, <1>10, <1>11, <1>12 DEF ClientInv

LEMMA HandleCloseKeeps ==
  ASSUME ClientInv, HandleClose
  PROVE  ClientInv'
<1>1. /\ "connection" \in active /\ loopPc = "idle" /\ RemoveConnection
      /\ active' = active \ {"connection"} /\ batch' = batch
      /\ UNCHANGED <<clientConnect, clientAlive, connectorVars, sockets, phase,
                     pc, historyVars>>
  BY DEF HandleClose
<1>2. link = "up" /\ phase = "events" /\ "resetChannel" \notin Queued
  BY <1>1 DEF ClientInv, LinkInv
<1> QED BY <1>1, <1>2, RemoveConnectionKeeps

\* The loop polls, and takes up and ends a batch of functors.
LEMMA LoopKeeps ==
  ASSUME ClientInv, Poll \/ SwapFunctors \/ FinishFunctors
  PROVE  ClientInv'
<1>1. /\ UNCHANGED <<clientConnect, connection, clientAlive, connect, state,
                     channel, retryDelayMs, timers, connectorAlive, link, sockets,
                     loopPc, pc, started, stopped, gaveUp, faults>>
  BY DEF Poll, SwapFunctors, FinishFunctors, clientVars, connectorVars,
         attemptVars, historyVars
<1>2. ASSUME OnceInv', Queued' = Queued, LinkInv',
             pending' \in Seq(Functors), batch' \in Seq(Functors),
             phase' \in {"poll", "events", "functors"},
             active' \subseteq {"timer", "connector", "connection"},
             "timer" \in active' => timers > 0 /\ "resetChannel" \notin Queued
      PROVE  ClientInv'
  <2>1. TypeOK'
    BY <1>1, <1>2 DEF ClientInv, TypeOK
  <2>2. Ways' = Ways
    BY <1>1, <1>2 DEF Ways
  <2>3. StartInv' /\ AttemptInv'
    BY <1>1, <1>2, <2>2 DEF ClientInv, StartInv, Connects, AttemptInv, OneAttempt
  <2>4. EndInv'
    BY <1>1, <1>2 DEF ClientInv, EndInv, LifetimesKept
  <2>5. KeepsTrying'
    BY <1>1, <2>2 DEF ClientInv, KeepsTrying
  <2> QED BY <1>2, <2>1, <2>3, <2>4, <2>5 DEF ClientInv
<1>3. CASE Poll
  <2>1. /\ phase = "poll" /\ phase' = "events" /\ active' \subseteq Ready
        /\ UNCHANGED <<pending, batch>>
    BY <1>3 DEF Poll
  <2>2. OnceInv' /\ Queued' = Queued
    BY <2>1, QueueSame DEF ClientInv
  <2>3. /\ "timer" \in active' => timers > 0 /\ "resetChannel" \notin Queued
        /\ "connector" \in active' => channel = "registered"
        /\ "connection" \in active' => link = "up"
        /\ active' \subseteq {"timer", "connector", "connection"}
    BY <2>1 DEF Ready
  <2>4. channel = "registered" => link = "none"
    BY <2>1 DEF ClientInv, TypeOK, AttemptInv, OneAttempt, Ways, LinkInv
  <2>5. LinkInv'
    BY <1>1, <2>1, <2>2, <2>3, <2>4 DEF ClientInv, LinkInv, SocketsOwned
  <2> QED BY <1>2, <2>1, <2>2, <2>3, <2>5 DEF ClientInv, TypeOK
<1>4. CASE SwapFunctors
  <2>1. /\ phase = "events" /\ active = {} /\ loopPc = "idle"
        /\ phase' = "functors" /\ batch' = pending /\ pending' = <<>>
        /\ active' = active
    BY <1>4 DEF SwapFunctors
  <2>2. batch = <<>> /\ Range(<<>>) = {}
    BY <2>1 DEF ClientInv, LinkInv, Range
  <2>3. Queued' = Queued
    BY <2>1, <2>2 DEF Queued
  <2>4. OnceInv'
    BY <2>1, <2>2 DEF ClientInv, OnceInv, Once, Unique
  <2>5. LinkInv'
    BY <1>1, <2>1, <2>2, <2>3 DEF ClientInv, LinkInv, SocketsOwned, Queued
  <2> QED BY <1>2, <2>1, <2>3, <2>4, <2>5 DEF ClientInv, TypeOK
<1>5. CASE FinishFunctors
  <2>1. /\ phase = "functors" /\ batch = <<>> /\ phase' = "poll"
        /\ UNCHANGED <<active, pending, batch>>
    BY <1>5 DEF FinishFunctors
  <2>2. OnceInv' /\ Queued' = Queued /\ Range(batch) = {}
    BY <2>1, QueueSame DEF ClientInv, Range
  <2>3. Ways' = Ways
    BY <1>1, <2>2 DEF Ways
  <2>4. LinkInv'
    BY <1>1, <2>1, <2>2, <2>3 DEF ClientInv, LinkInv, SocketsOwned
  <2> QED BY <1>2, <2>1, <2>2, <2>4 DEF ClientInv, TypeOK, AttemptInv, LinkInv
<1> QED BY <1>3, <1>4, <1>5

\* A functor that finds nothing to do: stopInLoop() without an attempt, and
\* forceClose() of a connection that is closed.
LEMMA NothingKeeps ==
  ASSUME ClientInv, phase = "functors", batch # <<>>, batch' = Tail(batch),
         \/ Head(batch) = "stopInLoop" /\ state # "kConnecting"
         \/ Head(batch) = "forceClose",
         UNCHANGED <<clientVars, connectorVars, link, sockets, phase, active,
                     loopPc, pending, pc, historyVars>>
  PROVE  ClientInv'
<1>1. /\ UNCHANGED <<clientConnect, connection, clientAlive, connect, state,
                     channel, retryDelayMs, timers, connectorAlive, link, sockets,
                     phase, active, loopPc, pc, started, stopped, gaveUp, faults,
                     pending>>
  BY DEF clientVars, connectorVars, attemptVars, historyVars
<1>2. /\ pending' \in Seq(Functors) /\ batch' \in Seq(Functors) /\ OnceInv'
      /\ Range(batch) = Range(batch') \cup {Head(batch)}
  <2>1. "stopInLoop" \in Functors /\ "stopInLoop" \notin Single
    BY DEF Functors, Single
  <2>2. /\ pending' \in {pending, Append(pending, "stopInLoop")}
        /\ batch' = batch \/ (batch # <<>> /\ batch' = Tail(batch))
    BY <1>1
  <2> QED BY <2>1, <2>2, QueueStep DEF ClientInv
<1>3. /\ \A f \in Single : /\ f \in Queued' <=> f \in Queued
                           /\ f \in Range(batch') <=> f \in Range(batch)
      /\ Queued' \subseteq Queued
      /\ "stopInLoop" \in Queued => "stopInLoop" \in Queued' \/ state # "kConnecting"
  BY <1>1, <1>2 DEF Queued, Single
<1>4. /\ "startInLoop" \in Queued' <=> "startInLoop" \in Queued
      /\ "resetChannel" \in Queued' <=> "resetChannel" \in Queued
      /\ "connectDestroyed" \in Queued' <=> "connectDestroyed" \in Queued
      /\ "resetChannel" \in Range(batch') <=> "resetChannel" \in Range(batch)
      /\ "connectDestroyed" \in Range(batch') <=> "connectDestroyed" \in Range(batch)
  BY <1>3 DEF Single
<1>5. TypeOK'
  BY <1>1, <1>2 DEF ClientInv, TypeOK
<1>6. Ways' = Ways
  BY <1>1, <1>4 DEF Ways
<1>7. StartInv' /\ KeepsTrying'
  BY <1>1, <1>6 DEF ClientInv, StartInv, Connects, KeepsTrying
<1>8. AttemptInv'
  BY <1>1, <1>4, <1>6 DEF ClientInv, AttemptInv, OneAttempt
<1>9. LinkInv'
  BY <1>1, <1>4, <1>6 DEF ClientInv, LinkInv, SocketsOwned
<1>10. EndInv'
  BY <1>1, <1>3, <1>4 DEF ClientInv, EndInv, LifetimesKept
<1> QED BY <1>2, <1>5, <1>7, <1>8, <1>9, <1>10 DEF ClientInv

\* The next functor.
LEMMA RunFunctorKeeps ==
  ASSUME ClientInv, RunFunctor
  PROVE  ClientInv'
<1> DEFINE f == Head(batch)
<1>1. /\ phase = "functors" /\ batch # <<>> /\ loopPc = "idle"
      /\ batch' = Tail(batch) /\ active = {} /\ active' = {}
      /\ UNCHANGED <<clientConnect, clientAlive, connect, connectorAlive,
                     phase, active, pc, started, stopped, gaveUp>>
  BY DEF RunFunctor, ClientInv, LinkInv
<1>2. /\ f \in Functors /\ f \in Queued
      /\ \A g \in Functors \ Single :
           pending' \in {pending, Append(pending, g)} =>
             /\ pending' \in Seq(Functors) /\ batch' \in Seq(Functors) /\ OnceInv'
             /\ Range(batch) = Range(batch') \cup {f}
             /\ f \in Single => f \notin Range(pending) \cup Range(batch')
  <2>1. batch \in Seq(Functors)
    BY DEF ClientInv, TypeOK
  <2>2. f \in Functors /\ f \in Queued
    BY <1>1, <2>1, PopUnique DEF Queued
  <2>3. ASSUME NEW g \in Functors \ Single,
               pending' \in {pending, Append(pending, g)}
        PROVE  /\ pending' \in Seq(Functors) /\ batch' \in Seq(Functors) /\ OnceInv'
               /\ Range(batch) = Range(batch') \cup {f}
               /\ f \in Single => f \notin Range(pending) \cup Range(batch')
    <3>1. /\ g \in Functors /\ g \notin Single
          /\ batch' = batch \/ (batch # <<>> /\ batch' = Tail(batch))
      BY <1>1, <2>3
    <3> QED BY <1>1, <2>3, <3>1, QueueStep DEF ClientInv
  <2> QED BY <2>2, <2>3
<1>3. CASE /\ f = "startInLoop"
           /\ loopPc' = "startInLoop"
           /\ UNCHANGED <<connection, attemptVars, link, sockets, pending,
                          faults>>
  <2>1. UNCHANGED <<state, channel, retryDelayMs, timers, connection, link, sockets,
                    pending, faults>>
    BY <1>3 DEF attemptVars
  <2>2. /\ pending' \in Seq(Functors) /\ batch' \in Seq(Functors) /\ OnceInv'
        /\ Range(batch) = Range(batch') \cup {"startInLoop"}
        /\ "startInLoop" \notin Queued'
    BY <1>2, <1>3, <2>1 DEF Queued, Single, Functors
  <2>3. /\ Queued' \subseteq Queued
        /\ "resetChannel" \in Queued' <=> "resetChannel" \in Queued
        /\ "connectDestroyed" \in Queued' <=> "connectDestroyed" \in Queued
        /\ "connectDestroyed" \in Range(batch') <=> "connectDestroyed" \in Range(batch)
    BY <2>1, <2>2 DEF Queued
  <2>4. /\ Ways = 1 /\ timers = 0 /\ state = "kDisconnected" /\ link # "up"
        /\ "resetChannel" \notin Queued /\ started = "done"
        /\ clientAlive \/ ~connect
        /\ connectorAlive /\ channel # "registered"
    <3>1. /\ Ways = 1 /\ timers = 0 /\ link # "up" /\ state = "kDisconnected"
          /\ "resetChannel" \notin Queued
      BY <1>1, <1>2, <1>3 DEF ClientInv, TypeOK, AttemptInv, OneAttempt, Ways
    <3> QED BY <1>2, <1>3, <3>1
            DEF ClientInv, TypeOK, StartInv, AttemptInv, OneAttempt, EndInv,
                LifetimesKept, OfConnector
  <2>5. TypeOK'
    BY <1>1, <1>3, <2>1, <2>2 DEF ClientInv, TypeOK
  <2>6. Ways' = 1
    BY <1>3, <2>1, <2>2, <2>4 DEF Ways
  <2>7. StartInv' /\ KeepsTrying'
    BY <1>1, <2>1, <2>4, <2>6 DEF ClientInv, StartInv, Connects, KeepsTrying
  <2>8. AttemptInv'
    BY <1>1, <1>3, <2>1, <2>2, <2>3, <2>4, <2>6 DEF ClientInv, AttemptInv, OneAttempt
  <2>9. LinkInv'
    BY <1>1, <2>1, <2>3, <2>4 DEF ClientInv, LinkInv, SocketsOwned
  <2>10. EndInv'
    BY <1>1, <1>3, <2>1, <2>3, <2>4 DEF ClientInv, EndInv, LifetimesKept
  <2> QED BY <2>2, <2>5, <2>7, <2>8, <2>9, <2>10 DEF ClientInv
<1>4. CASE /\ f = "stopInLoop"
           /\ StopInLoop
           /\ UNCHANGED <<connection, link, loopPc, faults>>
  <2>1. CASE state # "kConnecting"
    <3>1. UNCHANGED <<attemptVars, sockets, pending>>
      BY <1>4, <2>1 DEF StopInLoop
    <3>2. UNCHANGED <<clientVars, connectorVars, link, sockets, phase, active,
                      loopPc, pending, pc, historyVars>>
      BY <1>1, <1>4, <3>1 DEF clientVars, connectorVars, historyVars
    <3> QED BY <1>1, <1>4, <2>1, <3>2, NothingKeeps
  <2>2. CASE state = "kConnecting"
    <3>1. /\ channel' = "removed" /\ pending' = Append(pending, "resetChannel")
          /\ sockets' = sockets - 1 /\ Retried
      BY <1>4, <2>2 DEF StopInLoop, RemoveAndResetChannel
    <3>2. /\ Ways = 1 /\ timers = 0 /\ channel = "registered" /\ link # "up"
          /\ "startInLoop" \notin Queued /\ "resetChannel" \notin Queued
          /\ started = "done" /\ connectorAlive
          /\ connect => clientAlive
      <4>1. /\ Ways = 1 /\ timers = 0 /\ link # "up" /\ "startInLoop" \notin Queued
            /\ channel = "registered"
        BY <2>2 DEF ClientInv, TypeOK, AttemptInv, OneAttempt, Ways
      <4> QED BY <2>2, <4>1 DEF ClientInv, TypeOK, StartInv, AttemptInv, EndInv,
                                LifetimesKept
    <3>3. /\ pending' \in Seq(Functors) /\ batch' \in Seq(Functors) /\ OnceInv'
          /\ Range(batch) = Range(batch') \cup {"stopInLoop"}
          /\ Range(pending') = Range(pending) \cup {"resetChannel"}
      <4>1. "resetChannel" \in Functors
        BY DEF Functors
      <4>2. /\ pending' \in {pending, Append(pending, "resetChannel")}
            /\ batch' = batch \/ (batch # <<>> /\ batch' = Tail(batch))
        BY <1>1, <3>1
      <4> QED BY <1>1, <1>4, <3>1, <3>2, <4>1, <4>2, QueueStep DEF ClientInv
    <3>4. /\ "startInLoop" \notin Queued' /\ "resetChannel" \in Queued'
          /\ "connectDestroyed" \in Queued' <=> "connectDestroyed" \in Queued
          /\ "forceClose" \in Queued' <=> "forceClose" \in Queued
          /\ "connectDestroyed" \in Range(batch') <=> "connectDestroyed" \in Range(batch)
      BY <3>2, <3>3 DEF Queued
    <3>5. /\ state' = "kDisconnected" /\ timers' \in {0, 1}
          /\ connect => timers' = 1
          /\ ~connect => timers' = 0
          /\ retryDelayMs' \in kInitRetryDelayMs .. kMaxRetryDelayMs
      BY <3>1, <3>2, RetriedFacts DEF ClientInv
    <3>6. sockets' = IF link # "none" THEN 1 ELSE 0
      BY <2>2, <3>1 DEF ClientInv, LinkInv, SocketsOwned
    <3>7. TypeOK'
      BY <1>1, <1>4, <3>1, <3>3, <3>5, <3>6 DEF ClientInv, TypeOK
    <3>8. /\ Ways' \in {0, 1}
          /\ timers' = 0 => Ways' = 0
          /\ timers' = 1 => Ways' = 1
      <4>1. CASE timers' = 0
        BY <1>1, <1>4, <3>2, <3>4, <3>5, <4>1 DEF Ways
      <4>2. CASE timers' = 1
        BY <1>1, <1>4, <3>2, <3>4, <3>5, <4>2 DEF Ways
      <4> QED BY <3>5, <4>1, <4>2
    <3>9. StartInv' /\ KeepsTrying'
      BY <1>1, <3>2, <3>5, <3>8 DEF ClientInv, StartInv, Connects, KeepsTrying
    <3>10. AttemptInv'
      BY <1>1, <1>4, <3>1, <3>2, <3>4, <3>5, <3>8
         DEF ClientInv, AttemptInv, OneAttempt
    <3>11. LinkInv'
      BY <1>1, <1>4, <2>2, <3>2, <3>4, <3>5, <3>6
         DEF ClientInv, LinkInv, SocketsOwned
    <3>12. EndInv'
      BY <1>1, <1>4, <3>2, <3>4, <3>5 DEF ClientInv, EndInv, LifetimesKept
    <3> QED BY <3>3, <3>7, <3>9, <3>10, <3>11, <3>12 DEF ClientInv
  <2> QED BY <2>1, <2>2
<1>5. CASE /\ f = "resetChannel"
           /\ ResetChannel
           /\ UNCHANGED <<connection, state, retryDelayMs, timers, link,
                          sockets, loopPc, pending>>
  <2>1. /\ pending' \in Seq(Functors) /\ batch' \in Seq(Functors) /\ OnceInv'
        /\ Range(batch) = Range(batch') \cup {"resetChannel"}
        /\ "resetChannel" \notin Queued'
    BY <1>2, <1>5 DEF Queued, Single, Functors
  <2>2. /\ Queued' \subseteq Queued
        /\ \A g \in Functors \ {"resetChannel"} :
             /\ g \in Queued' <=> g \in Queued
             /\ g \in Range(batch') <=> g \in Range(batch)
    BY <1>5, <2>1 DEF Queued
  <2>3. /\ "startInLoop" \in Queued' <=> "startInLoop" \in Queued
        /\ "stopInLoop" \in Queued' <=> "stopInLoop" \in Queued
        /\ "connectDestroyed" \in Queued' <=> "connectDestroyed" \in Queued
        /\ "connectDestroyed" \in Range(batch') <=> "connectDestroyed" \in Range(batch)
    BY <2>2 DEF Functors
  <2>4. /\ channel = "removed" /\ state # "kConnecting" /\ connectorAlive
    BY <1>2, <1>5 DEF ClientInv, AttemptInv, OneAttempt, EndInv, LifetimesKept,
                      OfConnector
  <2>5. channel' = "none" /\ faults' = faults
    BY <1>5, <2>4 DEF ResetChannel
  <2>6. TypeOK'
    BY <1>1, <1>5, <2>1, <2>5 DEF ClientInv, TypeOK
  <2>7. Ways' = Ways
    BY <1>5, <2>3 DEF Ways
  <2>8. StartInv' /\ KeepsTrying'
    BY <1>1, <1>5, <2>5, <2>7 DEF ClientInv, StartInv, Connects, KeepsTrying
  <2>9. AttemptInv'
    BY <1>1, <1>5, <2>1, <2>3, <2>4, <2>5, <2>7
       DEF ClientInv, AttemptInv, OneAttempt
  <2>10. LinkInv'
    BY <1>1, <1>5, <2>1, <2>3, <2>7 DEF ClientInv, LinkInv, SocketsOwned
  <2>11. EndInv'
    BY <1>1, <1>5, <2>2, <2>3, <2>4, <2>5 DEF ClientInv, EndInv, LifetimesKept
  <2> QED BY <2>1, <2>6, <2>8, <2>9, <2>10, <2>11 DEF ClientInv
<1>6. CASE /\ f = "forceClose"
           /\ IF link = "up"
                THEN RemoveConnection
                ELSE UNCHANGED <<connection, link, pending, loopPc>>
           /\ UNCHANGED <<attemptVars, sockets, faults>>
  <2>1. /\ ~clientAlive
        /\ UNCHANGED <<clientConnect, clientAlive, connectorVars, sockets,
                       phase, pc, historyVars>>
    BY <1>1, <1>2, <1>6 DEF ClientInv, EndInv, connectorVars, historyVars
  <2>2. CASE link = "up"
    <3>1. active' = active \ {"connection"}
      BY <1>1
    <3> QED BY <1>1, <1>6, <2>1, <2>2, <3>1, RemoveConnectionKeeps
  <2>3. CASE link # "up"
    <3>1. UNCHANGED <<clientVars, connectorVars, link, sockets, phase, active,
                      loopPc, pending, pc, historyVars>>
      BY <1>1, <1>6, <2>1, <2>3 DEF clientVars
    <3> QED BY <1>1, <1>6, <3>1, NothingKeeps
  <2> QED BY <2>2, <2>3
<1>7. CASE /\ f = "connectDestroyed"
           /\ link' = "none"
           /\ sockets' = sockets - 1
           /\ UNCHANGED <<connection, attemptVars, loopPc, pending, faults>>
  <2>1. UNCHANGED <<state, channel, retryDelayMs, timers>>
    BY <1>7 DEF attemptVars
  <2>2. /\ pending' \in Seq(Functors) /\ batch' \in Seq(Functors) /\ OnceInv'
        /\ Range(batch) = Range(batch') \cup {"connectDestroyed"}
        /\ "connectDestroyed" \notin Queued'
    BY <1>2, <1>7 DEF Queued, Single, Functors
  <2>3. /\ Queued' \subseteq Queued
        /\ \A g \in Functors \ {"connectDestroyed"} :
             /\ g \in Queued' <=> g \in Queued
             /\ g \in Range(batch') <=> g \in Range(batch)
    BY <1>7, <2>2 DEF Queued
  <2>4. /\ "startInLoop" \in Queued' <=> "startInLoop" \in Queued
        /\ "stopInLoop" \in Queued' <=> "stopInLoop" \in Queued
        /\ "resetChannel" \in Queued' <=> "resetChannel" \in Queued
        /\ "resetChannel" \in Range(batch') <=> "resetChannel" \in Range(batch)
    BY <2>3 DEF Functors
  <2>5. link = "closed"
    BY <1>2, <1>7 DEF ClientInv, LinkInv
  <2>6. sockets' = IF state = "kConnecting" THEN 1 ELSE 0
    BY <1>7, <2>5 DEF ClientInv, LinkInv, SocketsOwned
  <2>7. TypeOK'
    BY <1>1, <1>7, <2>1, <2>2, <2>6 DEF ClientInv, TypeOK
  <2>8. Ways' = Ways
    BY <1>7, <2>1, <2>4, <2>5 DEF Ways
  <2>9. StartInv' /\ KeepsTrying'
    BY <1>1, <1>7, <2>1, <2>8 DEF ClientInv, StartInv, Connects, KeepsTrying
  <2>10. AttemptInv'
    BY <1>1, <1>7, <2>1, <2>4, <2>8 DEF ClientInv, AttemptInv, OneAttempt
  <2>11. LinkInv'
    BY <1>1, <1>7, <2>1, <2>2, <2>6 DEF ClientInv, LinkInv, SocketsOwned
  <2>12. EndInv'
    BY <1>1, <1>7, <2>1, <2>3, <2>4, <2>5 DEF ClientInv, EndInv, LifetimesKept
  <2> QED BY <2>2, <2>7, <2>9, <2>10, <2>11, <2>12 DEF ClientInv
<1> QED BY <1>3, <1>4, <1>5, <1>6, <1>7 DEF RunFunctor

\* What a push of functor f leaves as it was.
LEMMA PushFacts ==
  ASSUME ClientInv, NEW f \in Functors, f \in Single => f \notin Queued,
         pending' = Append(pending, f), batch' = batch
  PROVE  /\ pending' \in Seq(Functors) /\ batch' \in Seq(Functors) /\ OnceInv'
         /\ Queued' = Queued \cup {f}
         /\ Range(batch') = Range(batch)
BY QueuePush DEF ClientInv

\* connect(), stop() and disconnect() on the loop thread.
LEMMA LoopCallKeeps ==
  ASSUME ClientInv, LoopConnect \/ LoopStop \/ Disconnect
  PROVE  ClientInv'
<1>1. /\ clientAlive
      /\ UNCHANGED <<connection, clientAlive, state, channel, retryDelayMs,
                     timers, connectorAlive, link, sockets, phase, active,
                     batch, pc, gaveUp, faults>>
  BY DEF LoopConnect, LoopStop, Disconnect, UserTurn, connectorVars, attemptVars,
         loopVars, historyVars
<1>2. CASE LoopConnect
  <2>1. /\ loopPc = "idle" /\ started = "no"
        /\ clientConnect' = TRUE /\ connect' = TRUE
        /\ loopPc' = "startInLoop" /\ started' = "done"
        /\ UNCHANGED <<pending, stopped>>
    BY <1>2 DEF LoopConnect, UserTurn
  <2>2. OnceInv' /\ Queued' = Queued
    BY <1>1, <2>1, QueueSame DEF ClientInv
  <2>3. /\ Ways = 0 /\ timers = 0 /\ state = "kDisconnected" /\ channel = "none"
        /\ link = "none" /\ "startInLoop" \notin Queued
        /\ "resetChannel" \notin Queued
        /\ connectorAlive
        /\ \A t \in Threads : ~Connects(t)
    <3>1. /\ Ways = 0 /\ state = "kDisconnected" /\ channel = "none"
          /\ link = "none" /\ \A t \in Threads : ~Connects(t)
          /\ "resetChannel" \notin Queued /\ connectorAlive
      BY <1>1, <2>1 DEF ClientInv, StartInv, AttemptInv, EndInv
    <3>2. timers = 0 /\ "startInLoop" \notin Queued
      BY <3>1 DEF ClientInv, TypeOK, Ways
    <3> QED BY <3>1, <3>2
  <2>4. TypeOK'
    BY <1>1, <2>1 DEF ClientInv, TypeOK
  <2>5. Ways' = 1
    BY <1>1, <2>1, <2>2, <2>3 DEF Ways
  <2>6. StartInv'
    BY <1>1, <2>1, <2>3 DEF ClientInv, StartInv, Connects
  <2>7. AttemptInv' /\ KeepsTrying'
    BY <1>1, <2>1, <2>2, <2>3, <2>5
       DEF ClientInv, AttemptInv, OneAttempt, KeepsTrying
  <2>8. LinkInv'
    BY <1>1, <2>1, <2>2, <2>3 DEF ClientInv, LinkInv, SocketsOwned
  <2>9. EndInv'
    BY <1>1, <2>1, <2>2, <2>3 DEF ClientInv, EndInv, LifetimesKept
  <2> QED BY <2>2, <2>4, <2>6, <2>7, <2>8, <2>9 DEF ClientInv
<1>3. CASE LoopStop
  <2>1. /\ clientConnect' = FALSE /\ connect' = FALSE
        /\ pending' = Append(pending, "stopInLoop") /\ stopped' \in BOOLEAN
        /\ UNCHANGED <<loopPc, started>>
    BY <1>3 DEF LoopStop
  <2>2. "stopInLoop" \in Functors /\ "stopInLoop" \notin Single
    BY DEF Functors, Single
  <2>3. /\ pending' \in Seq(Functors) /\ batch' \in Seq(Functors) /\ OnceInv'
        /\ Queued' = Queued \cup {"stopInLoop"} /\ Range(batch') = Range(batch)
    BY <1>1, <2>1, <2>2, PushFacts
  <2>4. TypeOK'
    <3>1. clientConnect' \in BOOLEAN /\ connect' \in BOOLEAN
      BY <2>1
    <3> QED BY <1>1, <2>1, <2>3, <3>1 DEF ClientInv, TypeOK
  <2>5. Ways' = Ways
    BY <1>1, <2>1, <2>3 DEF Ways
  <2>6. StartInv' /\ KeepsTrying'
    BY <1>1, <2>1, <2>5 DEF ClientInv, StartInv, Connects, KeepsTrying
  <2>7. AttemptInv'
    BY <1>1, <2>1, <2>3, <2>5 DEF ClientInv, AttemptInv, OneAttempt
  <2>8. LinkInv'
    BY <1>1, <2>1, <2>3, <2>5 DEF ClientInv, LinkInv, SocketsOwned
  <2>9. EndInv'
    BY <1>1, <2>1, <2>3 DEF ClientInv, EndInv, LifetimesKept
  <2> QED BY <2>3, <2>4, <2>6, <2>7, <2>8, <2>9 DEF ClientInv
<1>4. CASE Disconnect
  <2>1. /\ clientConnect' = FALSE
        /\ UNCHANGED <<connect, pending, loopPc, started, stopped>>
    BY <1>4 DEF Disconnect, connectorVars, loopVars, historyVars
  <2>2. OnceInv' /\ Queued' = Queued /\ Ways' = Ways
    BY <1>1, <2>1, QueueSame DEF ClientInv, Ways, Queued
  <2>3. TypeOK'
    <3>1. clientConnect' \in BOOLEAN
      BY <2>1
    <3> QED BY <1>1, <2>1, <3>1 DEF ClientInv, TypeOK
  <2>4. StartInv' /\ AttemptInv' /\ KeepsTrying'
    BY <1>1, <2>1, <2>2 DEF ClientInv, StartInv, Connects, AttemptInv, OneAttempt,
                            KeepsTrying
  <2>5. LinkInv' /\ EndInv'
    BY <1>1, <2>1, <2>2 DEF ClientInv, LinkInv, SocketsOwned, EndInv, LifetimesKept
  <2> QED BY <2>2, <2>3, <2>4, <2>5 DEF ClientInv
<1> QED BY <1>2, <1>3, <1>4

\* connect() and stop() on another thread: the flags.
LEMMA CallFlagsKeep ==
  ASSUME ClientInv, NEW t \in Threads,
         StoreConnect(t) \/ \E call \in Calls : Call(t, call)
  PROVE  ClientInv'
<1>1. UNCHANGED <<connection, clientAlive, state, channel, retryDelayMs, timers,
                  connectorAlive, link, sockets, phase, active, loopPc, pending,
                  batch, gaveUp, faults>>
  BY DEF StoreConnect, Call, clientVars, connectorVars, attemptVars, loopVars,
         historyVars
<1>2. OnceInv' /\ Queued' = Queued /\ Ways' = Ways
  BY <1>1, QueueSame DEF ClientInv, Ways, Queued
<1>3. pc \in [Threads -> [call : Calls, at : Places]]
  BY DEF ClientInv, TypeOK
<1>4. ASSUME clientConnect' \in BOOLEAN, connect' \in BOOLEAN, stopped' \in BOOLEAN,
             pc' \in [Threads -> [call : Calls, at : Places]],
             StartInv', KeepsTrying', clientAlive
      PROVE  ClientInv'
  <2>1. started' \in {"no", "begun", "done"}
    BY DEF StoreConnect, Call, historyVars, ClientInv, TypeOK
  <2>2. TypeOK'
    BY <1>1, <1>4, <2>1 DEF ClientInv, TypeOK
  <2>3. AttemptInv'
    BY <1>1, <1>2 DEF ClientInv, AttemptInv, OneAttempt
  <2>4. LinkInv' /\ EndInv'
    BY <1>1, <1>2, <1>4 DEF ClientInv, LinkInv, SocketsOwned, EndInv, LifetimesKept
  <2> QED BY <1>2, <1>4, <2>2, <2>3, <2>4 DEF ClientInv
<1>5. ASSUME NEW call \in Calls, Call(t, call)
      PROVE  ClientInv'
  <2>1. /\ clientAlive /\ pc[t].at = "idle"
        /\ call = "connect" => started = "no"
        /\ clientConnect' = (call = "connect")
        /\ started' = IF call = "connect" THEN "begun" ELSE started
        /\ stopped' \in BOOLEAN
        /\ pc' = [pc EXCEPT ![t] = [call |-> call, at |-> "connector"]]
        /\ connect' = connect
    BY <1>5 DEF Call, connectorVars, ClientInv, TypeOK
  <2>2. pc' \in [Threads -> [call : Calls, at : Places]]
    BY <1>3, <2>1 DEF Places
  <2>3. /\ Connects(t)' => call = "connect"
        /\ \A u \in Threads \ {t} : Connects(u)' <=> Connects(u)
    BY <1>3, <2>1 DEF Connects
  <2>4. StartInv'
    <3>1. CASE call = "connect"
      <4>1. /\ started = "no" /\ started' = "begun"
            /\ \A u \in Threads : ~Connects(u)
        BY <2>1, <3>1 DEF ClientInv, StartInv
      <4> QED BY <1>1, <1>2, <2>1, <2>3, <4>1 DEF ClientInv, StartInv
    <3>2. CASE call # "connect"
      BY <1>1, <1>2, <2>1, <2>3, <3>2 DEF ClientInv, StartInv
    <3> QED BY <3>1, <3>2
  <2>5. KeepsTrying'
    BY <2>1 DEF KeepsTrying
  <2> QED BY <1>4, <2>1, <2>2, <2>4, <2>5 DEF ClientInv, TypeOK
<1>6. CASE StoreConnect(t)
  <2>1. /\ pc[t].at = "connector" /\ connect' = (pc[t].call = "connect")
        /\ pc' = [pc EXCEPT ![t].at = "queue"]
        /\ UNCHANGED <<clientConnect, clientAlive, started, stopped>>
    BY <1>6 DEF StoreConnect, clientVars, historyVars
  <2>2. pc' \in [Threads -> [call : Calls, at : Places]]
    BY <1>3, <2>1 DEF Places
  <2>3. \A u \in Threads : /\ Connects(u)' <=> Connects(u)
                           /\ pc'[u].at = "idle" <=> pc[u].at = "idle"
    <3>1. \A u \in Threads : /\ pc'[u].call = pc[u].call
                             /\ pc'[u].at = "idle" <=> pc[u].at = "idle"
      BY <1>3, <2>1
    <3> QED BY <3>1 DEF Connects
  <2>4. StartInv'
    BY <1>1, <1>2, <2>1, <2>3 DEF ClientInv, StartInv
  <2>5. clientAlive /\ (pc[t].call = "connect" => started = "begun")
    BY <2>1 DEF ClientInv, StartInv, Connects
  <2>6. KeepsTrying'
    BY <2>1, <2>5 DEF KeepsTrying
  <2> QED BY <1>4, <2>1, <2>2, <2>4, <2>5, <2>6 DEF ClientInv, TypeOK
<1> QED BY <1>5, <1>6

\* The functor of connect() or stop() on another thread.
LEMMA QueueCallKeeps ==
  ASSUME ClientInv, NEW t \in Threads, QueueCall(t)
  PROVE  ClientInv'
<1>1. /\ pc[t].at = "queue" /\ pc' = [pc EXCEPT ![t] = Idle]
      /\ UNCHANGED <<clientConnect, connection, clientAlive, connect, state,
                     channel, retryDelayMs, timers, connectorAlive, link,
                     sockets, phase, active, loopPc, batch, stopped, gaveUp,
                     faults>>
  BY DEF QueueCall, clientVars, connectorVars, attemptVars
<1>2. /\ pc \in [Threads -> [call : Calls, at : Places]] /\ clientAlive
      /\ pc' \in [Threads -> [call : Calls, at : Places]]
      /\ pc'[t].at = "idle" /\ \A u \in Threads \ {t} : pc'[u] = pc[u]
  <2>1. pc \in [Threads -> [call : Calls, at : Places]] /\ clientAlive
    BY <1>1 DEF ClientInv, TypeOK, StartInv
  <2> QED BY <1>1, <2>1 DEF Idle, Calls, Places
<1>3. /\ ~Connects(t)'
      /\ \A u \in Threads \ {t} : Connects(u)' <=> Connects(u)
  BY <1>2 DEF Connects
<1>4. CASE pc[t].call = "connect"
  <2>1. /\ pending' = Append(pending, "startInLoop") /\ started' = "done"
    BY <1>4 DEF QueueCall
  <2>2. /\ started = "begun" /\ Ways = 0 /\ timers = 0 /\ state = "kDisconnected"
        /\ channel = "none" /\ link = "none" /\ "startInLoop" \notin Queued
        /\ "resetChannel" \notin Queued /\ connectorAlive /\ loopPc = "idle"
        /\ \A u \in Threads : ~Connects(u)'
    <3>1. Connects(t) /\ started = "begun" /\ \A u \in Threads : ~Connects(u)'
      BY <1>1, <1>3, <1>4 DEF ClientInv, StartInv, Connects
    <3>2. /\ Ways = 0 /\ state = "kDisconnected"
          /\ channel = "none" /\ link = "none"
          /\ "resetChannel" \notin Queued /\ connectorAlive
      BY <1>2, <3>1 DEF ClientInv, StartInv, AttemptInv, EndInv
    <3>3. timers = 0 /\ loopPc = "idle" /\ "startInLoop" \notin Queued
      BY <3>2 DEF ClientInv, TypeOK, Ways
    <3> QED BY <3>1, <3>2, <3>3
  <2>3. /\ pending' \in Seq(Functors) /\ batch' \in Seq(Functors) /\ OnceInv'
        /\ Queued' = Queued \cup {"startInLoop"} /\ Range(batch') = Range(batch)
    <3>1. "startInLoop" \in Functors
      BY DEF Functors
    <3> QED BY <1>1, <2>1, <2>2, <3>1, PushFacts
  <2>4. TypeOK'
    BY <1>1, <1>2, <2>1, <2>3 DEF ClientInv, TypeOK
  <2>5. Ways' = 1
    BY <1>1, <2>2, <2>3 DEF Ways
  <2>6. StartInv' /\ KeepsTrying'
    BY <1>1, <1>2, <2>1, <2>2, <2>5 DEF ClientInv, StartInv, KeepsTrying
  <2>7. AttemptInv'
    BY <1>1, <2>2, <2>3, <2>5 DEF ClientInv, AttemptInv, OneAttempt
  <2>8. LinkInv'
    BY <1>1, <2>2, <2>3 DEF ClientInv, LinkInv, SocketsOwned
  <2>9. EndInv'
    BY <1>1, <1>2, <2>2, <2>3 DEF ClientInv, EndInv, LifetimesKept
  <2> QED BY <2>3, <2>4, <2>6, <2>7, <2>8, <2>9 DEF ClientInv
<1>5. CASE pc[t].call # "connect"
  <2>1. /\ pending' = Append(pending, "stopInLoop") /\ started' = started
    BY <1>5 DEF QueueCall
  <2>2. "stopInLoop" \in Functors /\ "stopInLoop" \notin Single
    BY DEF Functors, Single
  <2>3. /\ pending' \in Seq(Functors) /\ batch' \in Seq(Functors) /\ OnceInv'
        /\ Queued' = Queued \cup {"stopInLoop"} /\ Range(batch') = Range(batch)
    BY <1>1, <2>1, <2>2, PushFacts
  <2>4. TypeOK'
    BY <1>1, <1>2, <2>1, <2>3 DEF ClientInv, TypeOK
  <2>5. Ways' = Ways
    BY <1>1, <2>3 DEF Ways
  <2>6. StartInv' /\ KeepsTrying'
    BY <1>1, <1>2, <1>3, <2>1, <2>5 DEF ClientInv, StartInv, KeepsTrying
  <2>7. AttemptInv'
    BY <1>1, <2>3, <2>5 DEF ClientInv, AttemptInv, OneAttempt
  <2>8. LinkInv'
    BY <1>1, <2>3, <2>5 DEF ClientInv, LinkInv, SocketsOwned
  <2>9. EndInv'
    BY <1>1, <1>2, <2>3 DEF ClientInv, EndInv, LifetimesKept
  <2> QED BY <2>3, <2>4, <2>6, <2>7, <2>8, <2>9 DEF ClientInv
<1> QED BY <1>4, <1>5

\* ~TcpClient.
LEMMA DestroyKeeps ==
  ASSUME ClientInv, NEW unique \in BOOLEAN, Destroy(unique)
  PROVE  ClientInv'
<1>1. /\ clientAlive /\ loopPc = "idle"
      /\ \A t \in Threads : pc[t].at = "idle"
      /\ clientAlive' = FALSE /\ connection' = FALSE
      /\ UNCHANGED <<clientConnect, state, channel, retryDelayMs, timers, link,
                     sockets, phase, active, loopPc, batch, pc, started,
                     stopped, gaveUp, faults>>
      /\ connectorAlive /\ faults = {}
  BY DEF Destroy, UserTurn, attemptVars, historyVars, ClientInv, EndInv,
         LifetimesKept
<1>2. "stopInLoop" \in Functors \ Single /\ "forceClose" \in Functors \ Single
  BY DEF Functors, Single
<1>3. ASSUME pending' \in Seq(Functors), batch' \in Seq(Functors), OnceInv',
             NEW f \in {"stopInLoop", "forceClose"},
             Queued' \in {Queued, Queued \cup {f}},
             connect' \in BOOLEAN, connectorAlive' \in BOOLEAN, EndInv'
      PROVE  ClientInv'
  <2>1. /\ "startInLoop" \in Queued' <=> "startInLoop" \in Queued
        /\ "resetChannel" \in Queued' <=> "resetChannel" \in Queued
        /\ "connectDestroyed" \in Queued' <=> "connectDestroyed" \in Queued
        /\ Range(batch') = Range(batch)
    BY <1>1, <1>3
  <2>2. TypeOK'
    BY <1>1, <1>3 DEF ClientInv, TypeOK
  <2>3. Ways' = Ways
    BY <1>1, <2>1 DEF Ways
  <2>4. StartInv' /\ KeepsTrying'
    BY <1>1, <2>3 DEF ClientInv, StartInv, Connects, KeepsTrying
  <2>5. AttemptInv'
    BY <1>1, <2>1, <2>3 DEF ClientInv, AttemptInv, OneAttempt
  <2>6. LinkInv'
    BY <1>1, <2>1, <2>3 DEF ClientInv, LinkInv, SocketsOwned
  <2> QED BY <1>3, <2>2, <2>4, <2>5, <2>6 DEF ClientInv
<1>4. CASE connection
  <2>1. /\ Queued \cap OfConnector = {} /\ connectorAlive' = (timers > 0)
        /\ connect' = connect
        /\ pending' \in {pending, Append(pending, "forceClose")}
    BY <1>4 DEF Destroy
  <2>2. /\ link = "up" /\ timers = 0 /\ state # "kConnecting"
        /\ "startInLoop" \notin Queued /\ "resetChannel" \notin Queued
        /\ channel = "none"
    <3>1. link = "up" /\ "resetChannel" \notin Queued /\ "startInLoop" \notin Queued
      BY <1>4, <2>1 DEF ClientInv, EndInv, LifetimesKept, OfConnector
    <3>2. timers = 0 /\ state # "kConnecting"
      BY <3>1 DEF ClientInv, TypeOK, AttemptInv, OneAttempt, Ways
    <3> QED BY <3>1, <3>2 DEF ClientInv, TypeOK, AttemptInv, OneAttempt
  <2>3. /\ pending' \in Seq(Functors) /\ batch' \in Seq(Functors) /\ OnceInv'
        /\ Queued' \in {Queued, Queued \cup {"forceClose"}}
    <3>1. CASE pending' = Append(pending, "forceClose")
      BY <1>1, <1>2, <3>1, PushFacts
    <3>2. CASE pending' = pending
      BY <1>1, <3>2, QueueSame DEF ClientInv, TypeOK
    <3> QED BY <2>1, <3>1, <3>2
  <2>4. /\ "startInLoop" \notin Queued' /\ Queued' \cap OfConnector = {}
        /\ connect' \in BOOLEAN /\ connectorAlive' \in BOOLEAN
    BY <2>1, <2>2, <2>3 DEF OfConnector, ClientInv, TypeOK
  <2>5. EndInv'
    BY <1>1, <2>1, <2>2, <2>4 DEF ClientInv, EndInv, LifetimesKept
  <2> QED BY <1>3, <2>3, <2>4, <2>5
<1>5. CASE ~connection
  <2>1. /\ connect' = FALSE /\ pending' = Append(pending, "stopInLoop")
        /\ connectorAlive' = connectorAlive
    BY <1>5 DEF Destroy
  <2>2. /\ pending' \in Seq(Functors) /\ batch' \in Seq(Functors) /\ OnceInv'
        /\ Queued' = Queued \cup {"stopInLoop"}
    BY <1>1, <1>2, <2>1, PushFacts
  <2>3. connect' \in BOOLEAN /\ connectorAlive' \in BOOLEAN
    BY <2>1 DEF ClientInv, TypeOK
  <2>4. EndInv'
    BY <1>1, <2>1, <2>2 DEF ClientInv, EndInv, LifetimesKept
  <2> QED BY <1>3, <2>2, <2>3, <2>4
<1> QED BY <1>4, <1>5

\* The last reference to the Connector is dropped.
LEMMA FreeConnectorKeeps ==
  ASSUME ClientInv, FreeConnector
  PROVE  ClientInv'
<1>1. /\ ~clientAlive /\ timers = 0 /\ loopPc = "idle"
      /\ Queued \cap OfConnector = {} /\ connectorAlive' = FALSE
      /\ UNCHANGED <<clientConnect, connection, clientAlive, connect, state,
                     channel, retryDelayMs, timers, link, sockets, phase,
                     active, loopPc, pending, batch, pc, started, stopped,
                     gaveUp, faults>>
  BY DEF FreeConnector, clientVars, attemptVars, loopVars, historyVars
<1>2. channel = "none"
  <2>1. "stopInLoop" \notin Queued /\ "resetChannel" \notin Queued
    BY <1>1 DEF OfConnector
  <2> QED BY <1>1, <2>1 DEF ClientInv, TypeOK, AttemptInv, OneAttempt, EndInv
<1>3. OnceInv' /\ Queued' = Queued /\ Ways' = Ways
  BY <1>1, QueueSame DEF ClientInv, Ways, Queued
<1>4. TypeOK'
  <2>1. connectorAlive' \in BOOLEAN
    BY <1>1
  <2> QED BY <1>1, <2>1 DEF ClientInv, TypeOK
<1>5. StartInv' /\ AttemptInv' /\ KeepsTrying'
  BY <1>1, <1>3 DEF ClientInv, StartInv, Connects, AttemptInv, OneAttempt,
                    KeepsTrying
<1>6. LinkInv' /\ EndInv'
  BY <1>1, <1>2, <1>3 DEF ClientInv, LinkInv, SocketsOwned, EndInv, LifetimesKept
<1> QED BY <1>3, <1>4, <1>5, <1>6 DEF ClientInv

LEMMA StutterKeeps ==
  ASSUME ClientInv, UNCHANGED vars
  PROVE  ClientInv'
<1>1. UNCHANGED <<clientConnect, connection, clientAlive, connect, state, channel,
                  retryDelayMs, timers, connectorAlive, link, sockets, phase, active,
                  loopPc, pending, batch, pc, started, stopped, gaveUp, faults>>
  BY DEF vars, clientVars, connectorVars, attemptVars, loopVars, historyVars
<1>2. OnceInv' /\ Queued' = Queued /\ Ways' = Ways
  BY <1>1, QueueSame DEF ClientInv, Ways, Queued
<1>3. TypeOK' /\ StartInv' /\ AttemptInv' /\ KeepsTrying'
  BY <1>1, <1>2 DEF ClientInv, TypeOK, StartInv, Connects, AttemptInv, OneAttempt,
                    KeepsTrying
<1>4. LinkInv' /\ EndInv'
  BY <1>1, <1>2 DEF ClientInv, LinkInv, SocketsOwned, EndInv, LifetimesKept
<1> QED BY <1>2, <1>3, <1>4 DEF ClientInv

LEMMA InitClient == Init => ClientInv
<1> SUFFICES ASSUME Init PROVE ClientInv
  OBVIOUS
<1>1. Queued = {} /\ Range(<<>>) = {}
  BY DEF Init, Queued, Range
<1>2. TypeOK
  <2>1. /\ kInitRetryDelayMs \in kInitRetryDelayMs .. kMaxRetryDelayMs
        /\ <<>> \in Seq(Functors)
        /\ pc \in [Threads -> [call : Calls, at : Places]]
    BY ClientAssumption DEF Init, Idle, Calls, Places
  <2>2. TRUE \in BOOLEAN /\ FALSE \in BOOLEAN /\ 0 \in Nat
    OBVIOUS
  <2> QED BY <2>1, <2>2 DEF Init, TypeOK
<1>3. OnceInv
  BY DEF Init, OnceInv, Once, Unique, Range
<1>4. Ways = 0
  BY <1>1 DEF Init, Ways
<1>5. StartInv
  BY <1>4 DEF Init, StartInv, Connects, Idle
<1>6. AttemptInv /\ KeepsTrying
  BY <1>1, <1>4 DEF Init, AttemptInv, OneAttempt, KeepsTrying
<1>7. LinkInv /\ EndInv
  BY <1>1 DEF Init, LinkInv, SocketsOwned, EndInv, LifetimesKept, OfConnector
<1> QED BY <1>2, <1>3, <1>5, <1>6, <1>7 DEF ClientInv

-----------------------------------------------------------------------------
(* The theorems.                                                           *)

\* The invariant of the client, its connector and their loop.
THEOREM ClientInvariant == Spec => []ClientInv
<1>1. ClientInv /\ [Next]_vars => ClientInv'
  <2> SUFFICES ASSUME ClientInv, [Next]_vars PROVE ClientInv'
    OBVIOUS
  <2>1. CASE LoopStep
    BY <2>1, StartInLoopKeeps, HandleAttemptKeeps, TimerKeeps, HandleCloseKeeps,
       LoopKeeps, RunFunctorKeeps DEF LoopStep
  <2>2. CASE UserCall
    <3>1. CASE LoopConnect \/ LoopStop \/ Disconnect
      BY <3>1, LoopCallKeeps
    <3>2. CASE \E t \in Threads, call \in Calls : Call(t, call)
      BY <3>2, CallFlagsKeep
    <3>3. CASE \E unique \in BOOLEAN : Destroy(unique)
      BY <3>3, DestroyKeeps
    <3> QED BY <2>2, <3>1, <3>2, <3>3 DEF UserCall
  <2>3. CASE CallStep
    BY <2>3, CallFlagsKeep, QueueCallKeeps DEF CallStep
  <2>4. CASE FreeConnector
    BY <2>4, FreeConnectorKeeps
  <2>5. CASE UNCHANGED vars
    BY <2>5, StutterKeeps
  <2> QED BY <2>1, <2>2, <2>3, <2>4, <2>5 DEF Next
<1> QED BY <1>1, InitClient, PTL DEF Spec

\* One attempt, retry timer, queued start or connection at a time, each with its
\* socket and its channel; nothing destroyed while it is registered or called:
\* Connector::startInLoop, connecting, handleWrite, handleError, retry, restart,
\* stopInLoop and resetChannel against TcpClient::newConnection,
\* removeConnection and ~TcpClient, however calls of other threads interleave.
THEOREM OneAlwaysOwned == Spec => []OneOwnedAttempt
<1>1. ClientInv => OneOwnedAttempt
  BY DEF ClientInv, AttemptInv, LinkInv, EndInv, OneOwnedAttempt
<1> QED BY <1>1, ClientInvariant, PTL

\* A client that retries and was not stopped always has a retry timer, a start,
\* an attempt or a connection to go on from (Connector::retry and
\* TcpClient::removeConnection), but for a ::connect() that failed for good.
THEOREM AlwaysKeepsTrying == Spec => []KeepsTrying
<1>1. ClientInv => KeepsTrying
  BY DEF ClientInv
<1> QED BY <1>1, ClientInvariant, PTL
=============================================================================
