----------------------------- MODULE NetProofs ------------------------------
(***************************************************************************)
(* TLAPS proofs about parts of muduo/net: the connections of a TcpServer   *)
(* on their loops, the calls of an RpcChannel, what the two Pollers        *)
(* report, the bytes of a Buffer and the integers among them, the frames   *)
(* of a codec, the answers of an HttpServer and the messages of protobuf's *)
(* generated classes, for any number of io loops, clients, descriptors,    *)
(* calling threads, calls, channels, frames, requests and headers, for     *)
(* buffers and frames of any size, integers of any width and messages with *)
(* any number of items and unknown fields.                                 *)
(***************************************************************************)
EXTENDS TcpServer, Rpc, Poller, Buffer, Codecs, Http, Messages, SequenceLemmas,
        FiniteSetTheorems

-----------------------------------------------------------------------------
(* TcpServer: the inductive invariants.                                    *)

\* Where a functor of connection c is queued.
Est(c) == <<"connectEstablished", c>> \in ToSet(functors[ioLoop[c]])
Rem(c) == <<"removeConnectionInLoop", c>> \in ToSet(functors[Base])
Des(c) == <<"connectDestroyed", c>> \in ToSet(functors[ioLoop[c]])

\* Every functor is in a queue once, connectEstablished() of a connection
\* before its connectDestroyed().
InOrder(q) ==
  /\ \A i, j \in DOMAIN q : q[i] = q[j] => i = j
  /\ \A i, j \in DOMAIN q : \A c \in Conns :
       q[i] = <<"connectEstablished", c>> /\ q[j] = <<"connectDestroyed", c>>
         => i < j

\* What is queued in a loop is of its own connections, but for the base loop,
\* which is told of the others' ends.
QueuesInv ==
  \A l \in Loops :
    /\ InOrder(functors[l])
    /\ \A c \in Conns :
         /\ <<"connectEstablished", c>> \in ToSet(functors[l]) =>
              l = ioLoop[c] /\ l # Base
         /\ <<"removeConnectionInLoop", c>> \in ToSet(functors[l]) =>
              l = Base /\ ioLoop[c] # Base
         /\ <<"connectDestroyed", c>> \in ToSet(functors[l]) => l = ioLoop[c]

\* A connection's state against what is queued for it.
ConnInv(c) ==
  /\ c >= nextConnId <=> state[c] = "none"
  /\ c >= nextConnId => c \notin connections /\ ioLoop[c] = Base
  /\ Est(c) <=> state[c] = "kConnecting"
  /\ state[c] = "kConnected" => added[c]
  /\ added[c] => state[c] \in {"kConnected", "kDisconnecting", "kDisconnected"}
  /\ c \in connections => ~Des(c) /\ (Est(c) \/ added[c])
  /\ Rem(c) => state[c] = "kDisconnected"
  /\ Rem(c) /\ server = "alive" => c \in connections
  /\ Des(c) => Est(c) \/ added[c]
  /\ Des(c) /\ (server = "alive" \/ ioLoop[c] = Base) =>
       state[c] = "kDisconnected"
  /\ c < nextConnId =>
       \/ c \in connections \/ Des(c)
       \/ ~added[c] /\ state[c] = "kDisconnected"
       \/ ~added[c] /\ state[c] = "kDisconnecting" /\ server # "alive"

\* Loops end after the server's end has begun; numThreads_ is fixed and next_ in
\* range from the start on.
LoopsInv ==
  /\ quit \subseteq 1 .. numThreads
  /\ server = "alive" => quit = {}
  /\ ~started => nextConnId = 1 /\ next = 0
  /\ numThreads > 0 => next < numThreads
  /\ numThreads = 0 => next = 0
  /\ \A c \in 1 .. nextConnId - 1 : ioLoop[c] \in GetAllLoops

OnLoop(x) == {c \in 1 .. nextConnId - 1 : ioLoop[c] = x}

\* The loops before next_ have had one connection more than the others.
RoundInv ==
  \E n \in Nat : \A k \in 1 .. numThreads :
    Cardinality(OnLoop(k)) = IF k <= next THEN n + 1 ELSE n

Live == {c \in Conns : Referenced(c)}

\* No more connections than clients; and while handleRead() has given the
\* reserved descriptor away, one is free for it unless another thread took it.
AcceptInv ==
  /\ nextConnId + backlog <= arrived + 1
  /\ others + (IF idleFd THEN 1 ELSE 0) + Cardinality(Live) <= MaxFds
  /\ acceptPc # "idle" => server = "alive"
  /\ acceptPc \in {"accept", "open"} => ~idleFd
  /\ server # "gone" /\ ~stolen /\ acceptPc \in {"idle", "close"} => idleFd
  /\ ~stolen /\ acceptPc \in {"accept", "drop", "open"} =>
       others + Cardinality(Live) < MaxFds

ServerInv ==
  /\ ServerTypeOK /\ QueuesInv /\ (\A c \in Conns : ConnInv(c))
  /\ LoopsInv /\ RoundInv /\ AcceptInv

-----------------------------------------------------------------------------
(* The queues.                                                             *)

LEMMA PushInOrder ==
  ASSUME NEW q \in Seq(Functor), NEW f \in Functor, InOrder(q),
         f \notin ToSet(q),
         \A c \in Conns : f = <<"connectEstablished", c>> =>
                            <<"connectDestroyed", c>> \notin ToSet(q)
  PROVE  /\ Append(q, f) \in Seq(Functor)
         /\ ToSet(Append(q, f)) = ToSet(q) \cup {f}
         /\ InOrder(Append(q, f))
<1>1. /\ Append(q, f) \in Seq(Functor) /\ Len(q) \in Nat
      /\ Len(q) + 1 \in DOMAIN Append(q, f) /\ Append(q, f)[Len(q) + 1] = f
      /\ \A i \in DOMAIN q :
           /\ i \in DOMAIN Append(q, f) /\ Append(q, f)[i] = q[i]
           /\ i \in 1 .. Len(q)
      /\ \A i \in DOMAIN Append(q, f) :
           \/ i \in DOMAIN q /\ Append(q, f)[i] = q[i]
           \/ i = Len(q) + 1 /\ Append(q, f)[i] = f
  OBVIOUS
<1>2. \A i \in DOMAIN q : q[i] \in ToSet(q)
  BY DEF ToSet
<1>3. ToSet(Append(q, f)) = ToSet(q) \cup {f}
  BY <1>1 DEF ToSet
<1>4. \A i, j \in DOMAIN Append(q, f) :
        Append(q, f)[i] = Append(q, f)[j] => i = j
  BY <1>1, <1>2 DEF InOrder
<1>5. ASSUME NEW i \in DOMAIN Append(q, f), NEW j \in DOMAIN Append(q, f),
             NEW c \in Conns, Append(q, f)[i] = <<"connectEstablished", c>>,
             Append(q, f)[j] = <<"connectDestroyed", c>>
      PROVE  i < j
  <2>1. i # j
    BY <1>5
  <2>2. CASE i \in DOMAIN q /\ j \in DOMAIN q
    <3>1. /\ q[i] = <<"connectEstablished", c>>
          /\ q[j] = <<"connectDestroyed", c>>
      BY <1>1, <1>5, <2>2
    <3> QED BY <2>2, <3>1, Zenon DEF InOrder
  <2>3. CASE i \in DOMAIN q /\ j = Len(q) + 1
    BY <1>1, <2>3
  <2>4. CASE i = Len(q) + 1 /\ j \in DOMAIN q
    BY <1>1, <1>2, <1>5, <2>4
  <2> QED BY <1>1, <2>1, <2>2, <2>3, <2>4
<1> QED BY <1>1, <1>3, <1>4, <1>5 DEF InOrder

LEMMA PopInOrder ==
  ASSUME NEW q \in Seq(Functor), q # <<>>, InOrder(q)
  PROVE  /\ Tail(q) \in Seq(Functor) /\ Head(q) \in Functor
         /\ ToSet(q) = ToSet(Tail(q)) \cup {Head(q)}
         /\ Head(q) \notin ToSet(Tail(q))
         /\ InOrder(Tail(q))
         /\ \A c \in Conns : Head(q) = <<"connectDestroyed", c>> =>
                               <<"connectEstablished", c>> \notin ToSet(q)
<1>1. /\ Tail(q) \in Seq(Functor) /\ Head(q) \in Functor
      /\ 1 \in DOMAIN q /\ Head(q) = q[1]
      /\ \A i \in DOMAIN Tail(q) :
           i + 1 \in DOMAIN q /\ i + 1 # 1 /\ i \in Nat /\ Tail(q)[i] = q[i + 1]
      /\ \A i \in DOMAIN q :
           /\ i \in Nat /\ i >= 1
           /\ i = 1 \/ (i - 1 \in DOMAIN Tail(q) /\ Tail(q)[i - 1] = q[i])
  OBVIOUS
<1>2. ToSet(q) = ToSet(Tail(q)) \cup {Head(q)}
  <2>1. ASSUME NEW i \in DOMAIN q
        PROVE  q[i] \in ToSet(Tail(q)) \cup {Head(q)}
    <3>1. CASE i = 1
      BY <1>1, <3>1
    <3>2. CASE i - 1 \in DOMAIN Tail(q) /\ Tail(q)[i - 1] = q[i]
      BY <3>2 DEF ToSet
    <3> QED BY <1>1, <3>1, <3>2
  <2>2. \A i \in DOMAIN Tail(q) : Tail(q)[i] \in ToSet(q)
    BY <1>1 DEF ToSet
  <2>3. Head(q) \in ToSet(q)
    BY <1>1 DEF ToSet
  <2> QED BY <2>1, <2>2, <2>3 DEF ToSet
<1>3. ASSUME Head(q) \in ToSet(Tail(q))
      PROVE  FALSE
  <2>1. PICK i \in DOMAIN Tail(q) : Tail(q)[i] = Head(q)
    BY <1>3 DEF ToSet
  <2> QED BY <1>1, <2>1 DEF InOrder
<1>4. InOrder(Tail(q))
  <2>1. \A i, j \in DOMAIN Tail(q) : Tail(q)[i] = Tail(q)[j] => i = j
    BY <1>1 DEF InOrder
  <2>2. ASSUME NEW i \in DOMAIN Tail(q), NEW j \in DOMAIN Tail(q),
               NEW c \in Conns,
               Tail(q)[i] = <<"connectEstablished", c>>,
               Tail(q)[j] = <<"connectDestroyed", c>>
        PROVE  i < j
    <3>1. /\ i + 1 \in DOMAIN q /\ j + 1 \in DOMAIN q /\ i \in Nat /\ j \in Nat
          /\ q[i + 1] = <<"connectEstablished", c>>
          /\ q[j + 1] = <<"connectDestroyed", c>>
      BY <1>1, <2>2
    <3>2. i + 1 < j + 1
      BY <3>1, Zenon DEF InOrder
    <3> QED BY <3>1, <3>2
  <2> QED BY <2>1, <2>2 DEF InOrder
<1>5. ASSUME NEW c \in Conns, Head(q) = <<"connectDestroyed", c>>,
             <<"connectEstablished", c>> \in ToSet(q)
      PROVE  FALSE
  <2>1. PICK i \in DOMAIN q : q[i] = <<"connectEstablished", c>>
    BY <1>5 DEF ToSet
  <2>2. i < 1
    BY <1>1, <1>5, <2>1 DEF InOrder
  <2> QED BY <1>1, <2>2
<1> QED BY <1>1, <1>2, <1>3, <1>4, <1>5

\* SetToSeq() lists a finite set, each element once.
LEMMA SetToSeqFacts ==
  ASSUME NEW S, IsFiniteSet(S)
  PROVE  /\ SetToSeq(S) \in Seq(S)
         /\ ToSet(SetToSeq(S)) = S
         /\ \A i, j \in DOMAIN SetToSeq(S) :
              SetToSeq(S)[i] = SetToSeq(S)[j] => i = j
<1> DEFINE n == Cardinality(S)
<1>1. n \in Nat /\ ExistsBijection(1 .. n, S)
  BY FS_CardinalityType
<1> HIDE DEF n
<1>2. \E f \in [1 .. n -> S] : IsInjective(f)
  BY <1>1 DEF ExistsBijection, Bijection, Injection
<1>3. SetToSeq(S) \in [1 .. n -> S] /\ IsInjective(SetToSeq(S))
  BY <1>2 DEF SetToSeq, n
<1>4. SetToSeq(S) \in Injection(1 .. n, S)
  BY <1>3 DEF Injection
<1>5. IsFiniteSet(1 .. n) /\ Cardinality(1 .. n) = Cardinality(S)
  <2>1. Cardinality(1 .. n) = IF 1 > n THEN 0 ELSE n - 1 + 1
    BY <1>1, FS_Interval
  <2>2. Cardinality(1 .. n) = n
    BY <1>1, <2>1
  <2> QED BY <1>1, <2>2, FS_Interval DEF n
<1>6. SetToSeq(S) \in Surjection(1 .. n, S)
  BY <1>4, <1>5, FS_Injection
<1>7. ToSet(SetToSeq(S)) = S
  BY <1>3, <1>6 DEF Surjection, ToSet
<1>8. SetToSeq(S) \in Seq(S)
  BY <1>1, <1>3
<1> QED BY <1>3, <1>7, <1>8 DEF IsInjective

\* connectDestroyed() of further connections behind what is queued.
LEMMA AllInOrder ==
  ASSUME NEW q \in Seq(Functor), InOrder(q), NEW t \in Seq(Functor),
         \A i, j \in DOMAIN t : t[i] = t[j] => i = j,
         \A f \in ToSet(t) : f \notin ToSet(q),
         \A c \in Conns : <<"connectEstablished", c>> \notin ToSet(t)
  PROVE  /\ q \o t \in Seq(Functor)
         /\ ToSet(q \o t) = ToSet(q) \cup ToSet(t)
         /\ InOrder(q \o t)
<1> DEFINE s == q \o t
           k == Len(q)
<1>1. /\ s \in Seq(Functor) /\ k \in Nat
      /\ \A i \in DOMAIN q : i \in DOMAIN s /\ s[i] = q[i] /\ i \in 1 .. k
      /\ \A i \in DOMAIN t :
           i \in Nat /\ i >= 1 /\ i + k \in DOMAIN s /\ s[i + k] = t[i]
      /\ \A i \in DOMAIN s :
           \/ i \in DOMAIN q /\ s[i] = q[i]
           \/ /\ i \in Nat /\ i > k /\ i - k \in DOMAIN t
              /\ s[i] = t[i - k] /\ (i - k) + k = i
  <2>1. /\ Len(q) \in Nat /\ Len(t) \in Nat
        /\ DOMAIN q = 1 .. Len(q) /\ DOMAIN t = 1 .. Len(t)
        /\ DOMAIN s = 1 .. (Len(q) + Len(t)) /\ s \in Seq(Functor)
        /\ \A i \in 1 .. (Len(q) + Len(t)) :
             s[i] = IF i <= Len(q) THEN q[i] ELSE t[i - Len(q)]
    OBVIOUS
  <2> QED BY <2>1
<1>2. /\ \A i \in DOMAIN q : q[i] \in ToSet(q)
      /\ \A i \in DOMAIN t : t[i] \in ToSet(t)
  BY DEF ToSet
<1> HIDE DEF s, k
<1>3. ToSet(s) = ToSet(q) \cup ToSet(t)
  <2>1. ToSet(s) \subseteq ToSet(q) \cup ToSet(t)
    BY <1>1, <1>2 DEF ToSet
  <2>2. ToSet(q) \subseteq ToSet(s)
    BY <1>1 DEF ToSet
  <2>3. ToSet(t) \subseteq ToSet(s)
    <3>1. ASSUME NEW i \in DOMAIN t PROVE t[i] \in ToSet(s)
      <4>1. i + k \in DOMAIN s /\ s[i + k] = t[i]
        BY <1>1
      <4> QED BY <4>1, Zenon DEF ToSet
    <3> QED BY <3>1 DEF ToSet
  <2> QED BY <2>1, <2>2, <2>3
<1>4. ASSUME NEW i \in DOMAIN s, NEW j \in DOMAIN s, s[i] = s[j]
      PROVE  i = j
  <2>1. CASE i \in DOMAIN q /\ j \in DOMAIN q /\ s[i] = q[i] /\ s[j] = q[j]
    BY <1>4, <2>1 DEF InOrder
  <2>2. CASE /\ i - k \in DOMAIN t /\ j - k \in DOMAIN t
             /\ s[i] = t[i - k] /\ s[j] = t[j - k] /\ i \in Nat /\ j \in Nat
    <3>1. i - k = j - k
      BY <1>4, <2>2
    <3> QED BY <1>1, <2>2, <3>1
  <2>3. CASE /\ i \in DOMAIN q /\ j - k \in DOMAIN t
             /\ s[i] = q[i] /\ s[j] = t[j - k]
    BY <1>2, <1>4, <2>3
  <2>4. CASE /\ j \in DOMAIN q /\ i - k \in DOMAIN t
             /\ s[j] = q[j] /\ s[i] = t[i - k]
    BY <1>2, <1>4, <2>4
  <2> QED BY <1>1, <2>1, <2>2, <2>3, <2>4
<1>5. ASSUME NEW i \in DOMAIN s, NEW j \in DOMAIN s, NEW c \in Conns,
             s[i] = <<"connectEstablished", c>>,
             s[j] = <<"connectDestroyed", c>>
      PROVE  i < j
  <2>1. i \in DOMAIN q /\ s[i] = q[i] /\ i \in 1 .. k
    BY <1>1, <1>2, <1>5
  <2>2. CASE j \in DOMAIN q /\ s[j] = q[j]
    <3>1. /\ q[i] = <<"connectEstablished", c>>
          /\ q[j] = <<"connectDestroyed", c>>
      BY <1>5, <2>1, <2>2
    <3> QED BY <2>1, <2>2, <3>1, Zenon DEF InOrder
  <2>3. CASE j \in Nat /\ j > k
    BY <1>1, <2>1, <2>3
  <2> QED BY <1>1, <2>2, <2>3
<1>6. InOrder(s)
  BY <1>4, <1>5 DEF InOrder
<1> QED BY <1>1, <1>3, <1>6 DEF s

\* A push in loop l, and the queues after it.
LEMMA PushStep ==
  ASSUME ServerTypeOK, QueuesInv, NEW l \in Loops, NEW f \in Functor,
         f \notin ToSet(functors[l]),
         \A c \in Conns : f = <<"connectEstablished", c>> =>
                            <<"connectDestroyed", c>> \notin ToSet(functors[l]),
         functors' = [functors EXCEPT ![l] = Append(@, f)]
  PROVE  /\ functors' \in [Loops -> Seq(Functor)]
         /\ \A k \in Loops : InOrder(functors'[k])
         /\ ToSet(functors'[l]) = ToSet(functors[l]) \cup {f}
         /\ \A k \in Loops \ {l} : functors'[k] = functors[k]
<1>1. /\ functors \in [Loops -> Seq(Functor)]
      /\ \A k \in Loops : functors[k] \in Seq(Functor) /\ InOrder(functors[k])
  BY DEF ServerTypeOK, QueuesInv
<1>2. /\ Append(functors[l], f) \in Seq(Functor)
      /\ ToSet(Append(functors[l], f)) = ToSet(functors[l]) \cup {f}
      /\ InOrder(Append(functors[l], f))
  BY <1>1, PushInOrder
<1>3. /\ functors'[l] = Append(functors[l], f)
      /\ \A k \in Loops \ {l} : functors'[k] = functors[k]
      /\ functors' \in [Loops -> Seq(Functor)]
  BY <1>1, <1>2
<1> QED BY <1>1, <1>2, <1>3

\* The first functor of loop l is taken to be run.
LEMMA PopStep ==
  ASSUME ServerTypeOK, QueuesInv, NEW l \in Loops, functors[l] # <<>>,
         functors' = [functors EXCEPT ![l] = Tail(@)]
  PROVE  /\ functors' \in [Loops -> Seq(Functor)]
         /\ \A k \in Loops : InOrder(functors'[k])
         /\ Head(functors[l]) \in Functor
         /\ ToSet(functors[l]) = ToSet(functors'[l]) \cup {Head(functors[l])}
         /\ Head(functors[l]) \notin ToSet(functors'[l])
         /\ \A c \in Conns : Head(functors[l]) = <<"connectDestroyed", c>> =>
              <<"connectEstablished", c>> \notin ToSet(functors[l])
         /\ \A k \in Loops \ {l} : functors'[k] = functors[k]
<1>1. /\ functors \in [Loops -> Seq(Functor)]
      /\ \A k \in Loops : functors[k] \in Seq(Functor) /\ InOrder(functors[k])
  BY DEF ServerTypeOK, QueuesInv
<1>2. /\ Tail(functors[l]) \in Seq(Functor) /\ Head(functors[l]) \in Functor
      /\ ToSet(functors[l]) = ToSet(Tail(functors[l])) \cup {Head(functors[l])}
      /\ Head(functors[l]) \notin ToSet(Tail(functors[l]))
      /\ InOrder(Tail(functors[l]))
      /\ \A c \in Conns : Head(functors[l]) = <<"connectDestroyed", c>> =>
           <<"connectEstablished", c>> \notin ToSet(functors[l])
  BY <1>1, PopInOrder
<1>3. /\ functors'[l] = Tail(functors[l])
      /\ \A k \in Loops \ {l} : functors'[k] = functors[k]
      /\ functors' \in [Loops -> Seq(Functor)]
  BY <1>1, <1>2
<1> QED BY <1>1, <1>2, <1>3

-----------------------------------------------------------------------------
(* The connections, the loops and the descriptors.                         *)

\* Another connection: nothing of it changes.
LEMMA OtherConn ==
  ASSUME NEW c \in Conns, ConnInv(c), nextConnId' = nextConnId,
         server' = "alive" => server = "alive",
         ioLoop'[c] = ioLoop[c], state'[c] = state[c], added'[c] = added[c],
         c \in connections' <=> c \in connections,
         Est(c)' <=> Est(c), Rem(c)' <=> Rem(c), Des(c)' <=> Des(c)
  PROVE  ConnInv(c)'
BY DEF ConnInv

LEMMA Finite ==
  ASSUME ServerTypeOK
  PROVE  /\ IsFiniteSet(Conns)
         /\ \A S \in SUBSET Conns :
              /\ IsFiniteSet(S) /\ Cardinality(S) \in Nat
              /\ \A T \in SUBSET S : Cardinality(T) <= Cardinality(S)
<1>1. IsFiniteSet(Conns)
  BY ServerAssumption, FS_Interval DEF Conns
<1>2. \A S \in SUBSET Conns : IsFiniteSet(S)
  BY <1>1, FS_Subset
<1> QED BY <1>1, <1>2, FS_Subset, FS_CardinalityType

\* No connection gets a descriptor but by accept().
LEMMA LiveShrinks ==
  ASSUME ServerTypeOK, exited \subseteq exited',
         connections' \subseteq connections,
         \A l \in Loops \ exited' : \A f \in ToSet(functors'[l]) :
           f \in ToSet(functors[l]) \/ Referenced(f[2])
  PROVE  Live' \subseteq Live /\ Cardinality(Live') <= Cardinality(Live)
<1>1. ASSUME NEW c \in Conns, Referenced(c)'
      PROVE  Referenced(c)
  BY <1>1 DEF Referenced
<1>2. Live' \subseteq Live /\ Live \subseteq Conns
  BY <1>1 DEF Live, Conns
<1> QED BY <1>2, Finite

\* Where accept() is not concerned.
LEMMA AcceptSame ==
  ASSUME ServerInv, Cardinality(Live') \in Nat,
         Cardinality(Live') <= Cardinality(Live),
         UNCHANGED <<nextConnId, server, acceptVars>>
  PROVE  AcceptInv'
<1>1. UNCHANGED <<backlog, arrived, others, idleFd, acceptPc, stolen>>
  BY DEF acceptVars
<1>2. Cardinality(Live) \in Nat /\ others \in Nat /\ MaxFds \in Nat
  BY Finite, ServerAssumption DEF ServerInv, ServerTypeOK, Live
<1>3. UNCHANGED (IF idleFd THEN 1 ELSE 0)
  BY <1>1
<1> QED BY <1>1, <1>2, <1>3 DEF ServerInv, AcceptInv

\* Where no loop and no new connection is concerned.
LEMMA LoopsSame ==
  ASSUME LoopsInv, RoundInv, UNCHANGED <<poolVars, nextConnId, ioLoop>>,
         server' = "alive" => server = "alive"
  PROVE  LoopsInv' /\ RoundInv'
<1>1. UNCHANGED <<numThreads, started, next, quit, exited>>
  BY DEF poolVars
<1>2. LoopsInv'
  BY <1>1 DEF LoopsInv, GetAllLoops
<1>3. \A k : OnLoop(k)' = OnLoop(k)
  BY DEF OnLoop
<1>4. RoundInv'
  BY <1>1, <1>3 DEF RoundInv
<1> QED BY <1>2, <1>4

\* Where only accept() and descriptors are concerned.
LEMMA ConnsSame ==
  ASSUME ServerInv, UNCHANGED <<connVars, poolVars>>,
         server' = "alive" => server = "alive"
  PROVE  /\ QueuesInv' /\ (\A c \in Conns : ConnInv(c)') /\ LoopsInv'
         /\ RoundInv'
         /\ Live' = Live
<1>1. UNCHANGED <<nextConnId, connections, ioLoop, state, added, functors,
                  exited>>
  BY DEF connVars, poolVars
<1>2. QueuesInv'
  BY <1>1 DEF ServerInv, QueuesInv, InOrder
<1>3. \A c \in Conns : /\ Est(c)' <=> Est(c)
                       /\ Rem(c)' <=> Rem(c)
                       /\ Des(c)' <=> Des(c)
  BY <1>1 DEF Est, Rem, Des
<1>4. \A c \in Conns : ConnInv(c)'
  BY <1>1, <1>3, OtherConn DEF ServerInv
<1>5. LoopsInv' /\ RoundInv'
  BY <1>1, LoopsSame DEF ServerInv
<1>6. \A c \in Conns : Referenced(c)' <=> Referenced(c)
  BY <1>1 DEF Referenced
<1>7. Live' = Live
  BY <1>6 DEF Live, Conns
<1> QED BY <1>2, <1>4, <1>5, <1>7

\* Clients come and go, other code opens and closes files, and handleRead()
\* fails with EMFILE.
LEMMA AcceptKeeps ==
  ASSUME ServerInv,
         \/ Arrive \/ Leave \/ OthersOpen \/ OthersClose \/ NoDescriptor
         \/ CloseIdle \/ AcceptIdle \/ DropIdle \/ OpenIdle
  PROVE  ServerInv'
<1> DEFINE n == Cardinality(Live)
           u == MaxFds - others - n
           o == others'
           b == backlog'
           a == arrived'
<1>1. UNCHANGED <<connVars, poolVars, server>>
  BY DEF Arrive, Leave, OthersOpen, OthersClose, NoDescriptor, CloseIdle,
         AcceptIdle, DropIdle, OpenIdle
<1>2. /\ QueuesInv' /\ (\A c \in Conns : ConnInv(c)') /\ LoopsInv' /\ RoundInv'
      /\ Cardinality(Live') = n
  BY <1>1, ConnsSame
<1>3. /\ n \in Nat /\ others \in Nat /\ MaxFds \in Nat /\ MaxClients \in Nat
      /\ nextConnId \in Nat /\ nextConnId >= 1
      /\ backlog \in Nat /\ arrived \in Nat /\ backlog <= MaxClients
      /\ arrived <= MaxClients /\ others <= MaxFds
      /\ nextConnId' = nextConnId
      /\ idleFd \in BOOLEAN /\ stolen \in BOOLEAN
  <2>1. Live \in SUBSET Conns
    BY DEF Live
  <2> QED BY <1>1, <2>1, Finite, ServerAssumption
          DEF ServerInv, ServerTypeOK, connVars
<1>4. /\ FreeFds = u - (IF idleFd THEN 1 ELSE 0)
      /\ u \in Int
  <2>1. FreeFds = MaxFds - others - (IF idleFd THEN 1 ELSE 0) - n
    BY DEF FreeFds, Live
  <2>2. CASE idleFd
    BY <1>3, <2>1, <2>2
  <2>3. CASE ~idleFd
    BY <1>3, <2>1, <2>3
  <2> QED BY <1>3, <2>2, <2>3
<1> HIDE DEF n, u, o, b, a
<1>5. ASSUME idleFd' \in BOOLEAN, stolen' \in BOOLEAN,
             acceptPc' \in {"idle", "close", "accept", "drop", "open"},
             b \in 0 .. MaxClients, a \in 0 .. MaxClients, o \in 0 .. MaxFds,
             AcceptInv'
      PROVE  ServerInv'
  <2>1. ServerTypeOK'
    BY <1>1, <1>5 DEF ServerInv, ServerTypeOK, connVars, poolVars, o, b, a
  <2> QED BY <1>2, <1>5, <2>1 DEF ServerInv
<1>6. /\ nextConnId + backlog <= arrived + 1
      /\ idleFd => u >= 1
      /\ u >= 0
      /\ acceptPc # "idle" => server = "alive"
      /\ acceptPc \in {"accept", "open"} => ~idleFd
      /\ server # "gone" /\ ~stolen /\ acceptPc \in {"idle", "close"} => idleFd
      /\ ~stolen /\ acceptPc \in {"accept", "drop", "open"} => u >= 1
  <2>1. CASE idleFd
    BY <1>3, <2>1 DEF ServerInv, AcceptInv, n, u
  <2>2. CASE ~idleFd
    BY <1>3, <2>2 DEF ServerInv, AcceptInv, n, u
  <2> QED BY <1>3, <2>1, <2>2
<1>7. ASSUME o \in Nat, b \in Nat, a \in Nat, nextConnId + b <= a + 1,
             idleFd' => MaxFds - o - n >= 1,
             MaxFds - o - n >= 0,
             acceptPc' # "idle" => server = "alive",
             acceptPc' \in {"accept", "open"} => ~idleFd',
             server # "gone" /\ ~stolen' /\ acceptPc' \in {"idle", "close"} =>
               idleFd',
             ~stolen' /\ acceptPc' \in {"accept", "drop", "open"} =>
               MaxFds - o - n >= 1
      PROVE  AcceptInv'
  <2>1. o + (IF idleFd' THEN 1 ELSE 0) + n <= MaxFds
    <3>1. CASE idleFd'
      BY <1>3, <1>7, <3>1
    <3>2. CASE ~idleFd'
      BY <1>3, <1>7, <3>2
    <3> QED BY <3>1, <3>2
  <2>2. ~stolen' /\ acceptPc' \in {"accept", "drop", "open"} => o + n < MaxFds
    BY <1>3, <1>7
  <2> QED BY <1>1, <1>2, <1>3, <1>7, <2>1, <2>2 DEF AcceptInv, o, b, a
<1>8. CASE Arrive \/ Leave
  <2>1. /\ UNCHANGED <<idleFd, acceptPc, stolen>> /\ o = others
        /\ \/ arrived < MaxClients /\ a = arrived + 1 /\ b = backlog + 1
           \/ /\ a = arrived /\ backlog > 0 /\ b = backlog - 1
    BY <1>8 DEF Arrive, Leave, a, b, o
  <2>2. /\ a \in 0 .. MaxClients /\ b \in 0 .. MaxClients
        /\ nextConnId + b <= a + 1
    BY <1>3, <1>6, <2>1
  <2>3. AcceptInv'
    BY <1>3, <1>6, <1>7, <2>1, <2>2 DEF u
  <2> QED BY <1>3, <1>5, <2>1, <2>2, <2>3 DEF ServerInv, ServerTypeOK
<1>9. CASE OthersOpen
  <2>1. /\ UNCHANGED <<idleFd, acceptPc>> /\ b = backlog /\ a = arrived
        /\ FreeFds > 0 /\ o = others + 1
    BY <1>9 DEF OthersOpen, a, b, o
  <2>2. /\ stolen' \in BOOLEAN
        /\ ~stolen' => ~stolen /\ acceptPc = "idle"
    BY <1>9 DEF OthersOpen
  <2>3. u >= 1 /\ (idleFd => u >= 2)
    <3>1. CASE idleFd
      <4>1. FreeFds = u - 1
        BY <1>4, <3>1, Zenon
      <4> QED BY <1>4, <2>1, <4>1
    <3>2. CASE ~idleFd
      <4>1. FreeFds = u - 0
        BY <1>4, <3>2, Zenon
      <4> QED BY <1>4, <2>1, <3>2, <4>1
    <3> QED BY <3>1, <3>2
  <2>4. /\ MaxFds - o - n = u - 1
        /\ o \in 0 .. MaxFds
    BY <1>3, <2>1, <2>3 DEF u
  <2>5. AcceptInv'
    BY <1>3, <1>4, <1>6, <1>7, <2>1, <2>2, <2>3, <2>4
  <2> QED BY <1>3, <1>5, <2>1, <2>2, <2>4, <2>5 DEF ServerInv, ServerTypeOK
<1>10. CASE OthersClose
  <2>1. /\ UNCHANGED <<idleFd, acceptPc, stolen>> /\ b = backlog /\ a = arrived
        /\ others > 0 /\ o = others - 1
    BY <1>10 DEF OthersClose, a, b, o
  <2>2. /\ MaxFds - o - n = u + 1
        /\ o \in 0 .. MaxFds
    BY <1>3, <2>1 DEF u
  <2>3. AcceptInv'
    BY <1>3, <1>4, <1>6, <1>7, <2>1, <2>2
  <2> QED BY <1>3, <1>5, <2>1, <2>2, <2>3 DEF ServerInv, ServerTypeOK
<1>11. CASE NoDescriptor \/ CloseIdle \/ AcceptIdle \/ DropIdle \/ OpenIdle
  <2>1. /\ a = arrived /\ o = others
        /\ idleFd' \in BOOLEAN /\ stolen' \in BOOLEAN
        /\ acceptPc' \in {"idle", "close", "accept", "drop", "open"}
        /\ b = backlog \/ (backlog > 0 /\ b = backlog - 1)
    <3>1. CASE NoDescriptor \/ CloseIdle \/ DropIdle
      BY <1>3, <3>1 DEF NoDescriptor, CloseIdle, DropIdle, a, b, o
    <3>2. CASE AcceptIdle
      BY <1>3, <3>2 DEF AcceptIdle, a, b, o
    <3>3. CASE OpenIdle
      BY <1>3, <3>3 DEF OpenIdle, a, b, o
    <3> QED BY <1>11, <3>1, <3>2, <3>3
  <2>2. /\ b \in 0 .. MaxClients
        /\ nextConnId + b <= a + 1
    BY <1>3, <1>6, <2>1
  <2>3. /\ idleFd' => u >= 1
        /\ acceptPc' # "idle" => server = "alive"
        /\ acceptPc' \in {"accept", "open"} => ~idleFd'
        /\ server # "gone" /\ ~stolen' /\ acceptPc' \in {"idle", "close"} =>
             idleFd'
        /\ ~stolen' /\ acceptPc' \in {"accept", "drop", "open"} => u >= 1
    <3>1. CASE NoDescriptor
      <4>1. /\ acceptPc = "idle" /\ acceptPc' = "close" /\ server = "alive"
            /\ UNCHANGED <<idleFd, stolen>>
        BY <3>1 DEF NoDescriptor, BaseFree, Listening
      <4> QED BY <1>6, <4>1
    <3>2. CASE CloseIdle
      <4>1. /\ acceptPc = "close" /\ acceptPc' = "accept" /\ ~idleFd'
            /\ stolen' = stolen
        BY <3>2 DEF CloseIdle
      <4> QED BY <1>6, <4>1
    <3>3. CASE AcceptIdle
      <4>1. /\ acceptPc = "accept" /\ acceptPc' = "drop" /\ stolen' = stolen
            /\ idleFd' => FreeFds > 0
        BY <3>3 DEF AcceptIdle
      <4>2. FreeFds = u - 0
        BY <1>4, <1>6, <4>1, Zenon
      <4> QED BY <1>4, <1>6, <4>1, <4>2
    <3>4. CASE DropIdle
      <4>1. /\ acceptPc = "drop" /\ acceptPc' = "open" /\ ~idleFd'
            /\ stolen' = stolen
        BY <3>4 DEF DropIdle
      <4> QED BY <1>6, <4>1
    <3>5. CASE OpenIdle
      <4>1. /\ acceptPc = "open" /\ acceptPc' = "idle"
            /\ idleFd' <=> FreeFds > 0
            /\ stolen' <=> stolen /\ ~idleFd'
        BY <3>5 DEF OpenIdle
      <4>2. FreeFds = u - 0
        BY <1>4, <1>6, <4>1, Zenon
      <4> QED BY <1>4, <1>6, <4>1, <4>2
    <3> QED BY <1>11, <3>1, <3>2, <3>3, <3>4, <3>5
  <2>4. AcceptInv'
    BY <1>3, <1>6, <1>7, <2>1, <2>2, <2>3 DEF u
  <2> QED BY <1>3, <1>5, <2>1, <2>2, <2>4
<1> QED BY <1>8, <1>9, <1>10, <1>11

\* setThreadNum(), start(), and the end of the io loops and of the server.
LEMMA LoopsKeep ==
  ASSUME ServerInv,
         \/ \E n \in 0 .. MaxThreads : SetThreadNum(n)
         \/ Start \/ Dying
  PROVE  ServerInv'
<1>1. UNCHANGED connVars
  BY DEF SetThreadNum, Start, Dying, Gone, QuitLoop, LoopExit
<1>2. UNCHANGED <<nextConnId, connections, ioLoop, state, added, functors>>
  BY <1>1 DEF connVars
<1>3. server' = "alive" => server = "alive"
  BY DEF SetThreadNum, Start, Dying, Gone, QuitLoop, LoopExit
<1>4. QueuesInv'
  BY <1>2 DEF ServerInv, QueuesInv, InOrder
<1>5. \A c \in Conns : ConnInv(c)'
  <2>1. \A c \in Conns : /\ Est(c)' <=> Est(c)
                         /\ Rem(c)' <=> Rem(c)
                         /\ Des(c)' <=> Des(c)
    BY <1>2 DEF Est, Rem, Des
  <2> QED BY <1>2, <1>3, <2>1, OtherConn DEF ServerInv
<1>6. exited \subseteq exited'
  BY DEF SetThreadNum, Start, Dying, Gone, QuitLoop, LoopExit, poolVars
<1>7. /\ Cardinality(Live) \in Nat /\ Cardinality(Live') \in Nat
      /\ Cardinality(Live') <= Cardinality(Live)
  <2>1. ServerTypeOK
    BY DEF ServerInv
  <2>2. Live' \subseteq Live /\ Cardinality(Live') <= Cardinality(Live)
    BY <1>2, <1>6, <2>1, LiveShrinks
  <2>3. Live \in SUBSET Conns
    BY DEF Live
  <2> QED BY <2>1, <2>2, <2>3, Finite
<1>8. \A k : OnLoop(k)' = OnLoop(k)
  BY <1>2 DEF OnLoop
<1>9. ASSUME UNCHANGED <<server, acceptVars>>
      PROVE  AcceptInv'
  BY <1>2, <1>7, <1>9, AcceptSame
<1>10. /\ MaxThreads \in Nat /\ numThreads \in 0 .. MaxThreads
       /\ numThreads \in Nat /\ next \in Nat
       /\ quit \subseteq 1 .. numThreads /\ exited \subseteq quit
  BY ServerAssumption DEF ServerInv, ServerTypeOK, LoopsInv
<1>11. CASE \E n \in 0 .. MaxThreads : SetThreadNum(n)
  <2>1. PICK n \in 0 .. MaxThreads : SetThreadNum(n)
    BY <1>11
  <2>2. /\ ~started /\ server = "alive" /\ numThreads' = n
        /\ UNCHANGED <<started, next, quit, exited, server, acceptVars>>
    BY <2>1 DEF SetThreadNum
  <2>3. nextConnId = 1 /\ next = 0 /\ quit = {}
    BY <2>2 DEF ServerInv, LoopsInv
  <2>4. LoopsInv'
    BY <1>2, <2>2, <2>3, <1>10 DEF LoopsInv
  <2>5. \A k : Cardinality(OnLoop(k)) = 0
    <3>1. \A k : OnLoop(k) = {}
      BY <2>3 DEF OnLoop
    <3> QED BY <3>1, FS_EmptySet
  <2>6. RoundInv'
    <3>1. \A k \in 1 .. numThreads' : Cardinality(OnLoop(k)') =
            IF k <= next' THEN 0 + 1 ELSE 0
      BY <1>8, <2>2, <2>3, <2>5
    <3> QED BY <3>1 DEF RoundInv
  <2>7. ServerTypeOK'
    BY <1>2, <2>2 DEF ServerInv, ServerTypeOK, acceptVars
  <2> QED BY <1>4, <1>5, <1>9, <2>2, <2>4, <2>6, <2>7 DEF ServerInv
<1>12. CASE Start
  <2>1. /\ started' = TRUE
        /\ UNCHANGED <<numThreads, next, quit, exited, server, acceptVars>>
    BY <1>12 DEF Start
  <2>2. LoopsInv'
    BY <1>2, <2>1 DEF ServerInv, LoopsInv, GetAllLoops
  <2>3. RoundInv'
    BY <1>8, <2>1 DEF ServerInv, RoundInv
  <2>4. ServerTypeOK'
    BY <1>2, <2>1 DEF ServerInv, ServerTypeOK, acceptVars
  <2> QED BY <1>4, <1>5, <1>9, <2>1, <2>2, <2>3, <2>4 DEF ServerInv
<1>13. CASE \E l \in Loops : QuitLoop(l) \/ LoopExit(l)
  <2>1. /\ UNCHANGED <<numThreads, started, next, server, acceptVars>>
        /\ quit' \subseteq 1 .. numThreads /\ exited' \subseteq quit'
        /\ server = "alive" => quit' = {}
    BY <1>10, <1>13 DEF QuitLoop, LoopExit, ServerInv, LoopsInv
  <2>2. LoopsInv'
    BY <1>2, <2>1 DEF ServerInv, LoopsInv, GetAllLoops
  <2>3. RoundInv'
    BY <1>8, <2>1 DEF ServerInv, RoundInv
  <2>4. quit' \subseteq Loops
    BY <1>10, <2>1 DEF Loops
  <2>5. ServerTypeOK'
    BY <1>2, <2>1, <2>4 DEF ServerInv, ServerTypeOK, acceptVars
  <2> QED BY <1>4, <1>5, <1>9, <2>1, <2>2, <2>3, <2>5 DEF ServerInv
<1>14. CASE Gone
  <2>1. /\ UNCHANGED <<numThreads, started, next, quit, exited, arrived, others,
                       acceptPc, stolen>>
        /\ server = "joining" /\ server' = "gone" /\ backlog' = 0
        /\ idleFd' = FALSE
    BY <1>14 DEF Gone, poolVars
  <2>2. LoopsInv'
    BY <1>2, <2>1 DEF ServerInv, LoopsInv, GetAllLoops
  <2>3. RoundInv'
    BY <1>8, <2>1 DEF ServerInv, RoundInv
  <2>4. ServerTypeOK'
    <3>1. idleFd' \in BOOLEAN
      BY <2>1, Zenon
    <3>2. backlog' \in 0 .. MaxClients
      BY <2>1, ServerAssumption
    <3> QED BY <1>2, <2>1, <3>1, <3>2 DEF ServerInv, ServerTypeOK
  <2>5. acceptPc = "idle"
    BY <2>1 DEF ServerInv, AcceptInv
  <2>6. nextConnId + 0 <= arrived + 1
    BY DEF ServerInv, AcceptInv, ServerTypeOK
  <2>7. others + Cardinality(Live) <= MaxFds
    <3>1. CASE idleFd
      BY <1>7, <3>1, ServerAssumption DEF ServerInv, AcceptInv, ServerTypeOK
    <3>2. CASE ~idleFd
      BY <1>7, <3>2, ServerAssumption DEF ServerInv, AcceptInv, ServerTypeOK
    <3> QED BY <3>1, <3>2
  <2>8. others + 0 + Cardinality(Live') <= MaxFds
    <3> DEFINE m == Cardinality(Live')
    <3>1. m \in Nat /\ m <= Cardinality(Live)
      BY <1>7
    <3> HIDE DEF m
    <3>2. others + 0 + m <= MaxFds
      BY <1>7, <2>7, <3>1, ServerAssumption DEF ServerInv, ServerTypeOK
    <3> QED BY <3>2 DEF m
  <2>9. nextConnId' + backlog' <= arrived' + 1
    BY <1>2, <2>1, <2>6
  <2>10. others' + (IF idleFd' THEN 1 ELSE 0) + Cardinality(Live') <= MaxFds
    BY <2>1, <2>8
  <2>11. AcceptInv'
    BY <2>1, <2>5, <2>9, <2>10 DEF AcceptInv
  <2> QED BY <1>4, <1>5, <2>2, <2>3, <2>4, <2>11 DEF ServerInv
<1> QED BY <1>11, <1>12, <1>13, <1>14 DEF Dying

\* What a push and a pop leave in the queues.
LEMMA Pushed ==
  ASSUME ServerTypeOK, QueuesInv, NEW l \in Loops, NEW f \in Functor,
         f \notin ToSet(functors[l]),
         \A c \in Conns : f = <<"connectEstablished", c>> =>
                            <<"connectDestroyed", c>> \notin ToSet(functors[l]),
         functors' = [functors EXCEPT ![l] = Append(@, f)]
  PROVE  /\ functors' \in [Loops -> Seq(Functor)]
         /\ \A k \in Loops : InOrder(functors'[k])
         /\ \A k \in Loops : \A g :
              g \in ToSet(functors'[k]) <=>
                g \in ToSet(functors[k]) \/ (k = l /\ g = f)
<1>1. /\ functors' \in [Loops -> Seq(Functor)]
      /\ \A k \in Loops : InOrder(functors'[k])
      /\ ToSet(functors'[l]) = ToSet(functors[l]) \cup {f}
      /\ \A k \in Loops \ {l} : functors'[k] = functors[k]
  BY PushStep
<1> QED BY <1>1

LEMMA Popped ==
  ASSUME ServerTypeOK, QueuesInv, NEW l \in Loops, functors[l] # <<>>,
         functors' = [functors EXCEPT ![l] = Tail(@)]
  PROVE  /\ functors' \in [Loops -> Seq(Functor)]
         /\ \A k \in Loops : InOrder(functors'[k])
         /\ Head(functors[l]) \in Functor
         /\ Head(functors[l]) \in ToSet(functors[l])
         /\ \A c \in Conns : Head(functors[l]) = <<"connectDestroyed", c>> =>
              <<"connectEstablished", c>> \notin ToSet(functors[l])
         /\ \A k \in Loops : \A g :
              g \in ToSet(functors'[k]) <=>
                g \in ToSet(functors[k]) /\ ~(k = l /\ g = Head(functors[l]))
<1>1. /\ functors' \in [Loops -> Seq(Functor)]
      /\ \A k \in Loops : InOrder(functors'[k])
      /\ Head(functors[l]) \in Functor
      /\ ToSet(functors[l]) = ToSet(functors'[l]) \cup {Head(functors[l])}
      /\ Head(functors[l]) \notin ToSet(functors'[l])
      /\ \A c \in Conns : Head(functors[l]) = <<"connectDestroyed", c>> =>
           <<"connectEstablished", c>> \notin ToSet(functors[l])
      /\ \A k \in Loops \ {l} : functors'[k] = functors[k]
  BY PopStep
<1> QED BY <1>1

\* The steps of a connection, once its invariant and the queues' are shown.
LEMMA ConnStep ==
  ASSUME ServerInv,
         UNCHANGED <<poolVars, nextConnId, ioLoop, server, acceptVars>>,
         connections' \subseteq connections,
         functors' \in [Loops -> Seq(Functor)],
         state' \in [Conns -> {"none", "kConnecting", "kConnected",
                               "kDisconnecting", "kDisconnected"}],
         added' \in [Conns -> BOOLEAN],
         \A l \in Loops : \A f \in ToSet(functors'[l]) :
           f \in ToSet(functors[l]) \/ Referenced(f[2]),
         QueuesInv', \A c \in Conns : ConnInv(c)'
  PROVE  ServerInv'
<1>1. /\ ServerTypeOK /\ LoopsInv /\ RoundInv
      /\ UNCHANGED <<numThreads, started, next, quit, exited>>
  BY DEF ServerInv, poolVars
<1>2. LoopsInv' /\ RoundInv'
  BY <1>1, LoopsSame
<1>3. Live' \subseteq Live /\ Cardinality(Live') <= Cardinality(Live)
  BY <1>1, LiveShrinks
<1>4. Cardinality(Live') \in Nat
  <2>1. Live \in SUBSET Conns
    BY DEF Live
  <2>2. Live' \in SUBSET Conns
    BY <1>3, <2>1
  <2> QED BY <1>1, <2>2, Finite
<1>5. AcceptInv'
  BY <1>3, <1>4, AcceptSame
<1>6. ServerTypeOK'
  BY <1>1 DEF ServerTypeOK, acceptVars
<1> QED BY <1>2, <1>5, <1>6 DEF ServerInv

\* Our end of a connection is shut down.
LEMMA ShutdownKeeps ==
  ASSUME ServerInv, NEW c \in Conns, Shutdown(c)
  PROVE  ServerInv'
<1>1. /\ ServerTypeOK /\ QueuesInv
      /\ \A d \in Conns : ConnInv(d)
      /\ functors \in [Loops -> Seq(Functor)]
      /\ state \in [Conns -> {"none", "kConnecting", "kConnected",
                              "kDisconnecting", "kDisconnected"}]
      /\ added \in [Conns -> BOOLEAN]
  BY DEF ServerInv, ServerTypeOK
<1>2. /\ state[c] = "kConnected"
      /\ state' = [state EXCEPT ![c] = "kDisconnecting"]
      /\ UNCHANGED <<poolVars, nextConnId, connections, ioLoop, added, functors,
                     server, acceptVars>>
  BY DEF Shutdown
<1>3. \A d \in Conns : /\ Est(d)' <=> Est(d)
                       /\ Rem(d)' <=> Rem(d)
                       /\ Des(d)' <=> Des(d)
  BY <1>2 DEF Est, Rem, Des
<1>4. QueuesInv'
  BY <1>1, <1>2 DEF QueuesInv
<1>5. ASSUME NEW d \in Conns
      PROVE  ConnInv(d)'
  <2>1. CASE d # c
    <3>1. state'[d] = state[d]
      BY <1>1, <1>2, <2>1
    <3> QED BY <1>1, <1>2, <1>3, <3>1, OtherConn
  <2>2. CASE d = c
    <3>1. state'[c] = "kDisconnecting" /\ ConnInv(c)
      BY <1>1, <1>2
    <3> QED BY <1>2, <1>3, <2>2, <3>1 DEF ConnInv
  <2> QED BY <2>1, <2>2
<1>6. state' \in [Conns -> {"none", "kConnecting", "kConnected",
                            "kDisconnecting", "kDisconnected"}]
  BY <1>1, <1>2
<1> QED BY <1>1, <1>2, <1>4, <1>5, <1>6, ConnStep

\* The peer ends an established connection.
LEMMA HandleCloseKeeps ==
  ASSUME ServerInv, NEW c \in Conns, HandleClose(c)
  PROVE  ServerInv'
<1> DEFINE f == IF ioLoop[c] = Base THEN <<"connectDestroyed", c>>
                ELSE <<"removeConnectionInLoop", c>>
<1>1. /\ ServerTypeOK /\ QueuesInv /\ ConnInv(c)
      /\ \A d \in Conns : ConnInv(d)
      /\ ioLoop[c] \in Loops /\ Base \in Loops
      /\ functors \in [Loops -> Seq(Functor)]
      /\ state \in [Conns -> {"none", "kConnecting", "kConnected",
                              "kDisconnecting", "kDisconnected"}]
      /\ added \in [Conns -> BOOLEAN]
      /\ c \in Nat /\ nextConnId \in Nat
  BY ServerAssumption DEF ServerInv, ServerTypeOK, Loops, Base, Conns
<1>2. /\ state[c] \in {"kConnected", "kDisconnecting"}
      /\ added[c] /\ Referenced(c)
      /\ state' = [state EXCEPT ![c] = "kDisconnected"]
      /\ UNCHANGED <<poolVars, nextConnId, ioLoop, added, server, acceptVars>>
      /\ functors' = [functors EXCEPT ![Base] = Append(@, f)]
      /\ ioLoop[c] = Base => connections' = connections \ {c}
      /\ ioLoop[c] # Base => connections' = connections
  BY DEF HandleClose, RemoveConnection, Forget
<1>3. /\ ~Rem(c) /\ ~Est(c)
      /\ ioLoop[c] = Base => ~Des(c)
      /\ Des(c) => server # "alive"
      /\ server = "alive" => c \in connections
  BY <1>1, <1>2 DEF ConnInv
<1>4. f \in Functor /\ f \notin ToSet(functors[Base])
  BY <1>3 DEF Functor, Rem, Des
<1>5. f[2] = c
  OBVIOUS
<1>6. /\ \A d \in Conns : f # <<"connectEstablished", d>>
      /\ ioLoop[c] = Base => f = <<"connectDestroyed", c>>
      /\ ioLoop[c] # Base => f = <<"removeConnectionInLoop", c>>
  OBVIOUS
<1> HIDE DEF f
<1>7. /\ functors' \in [Loops -> Seq(Functor)]
      /\ \A k \in Loops : InOrder(functors'[k])
      /\ \A k \in Loops : \A g :
           g \in ToSet(functors'[k]) <=>
             g \in ToSet(functors[k]) \/ (k = Base /\ g = f)
  BY <1>1, <1>2, <1>4, <1>6, Pushed
<1>8. QueuesInv'
  BY <1>1, <1>2, <1>6, <1>7 DEF QueuesInv
<1>9. ASSUME NEW d \in Conns, d # c
      PROVE  ConnInv(d)'
  <2>1. Est(d)' <=> Est(d)
    BY <1>1, <1>2, <1>6, <1>7 DEF Est
  <2>2. Rem(d)' <=> Rem(d)
    BY <1>1, <1>2, <1>6, <1>7, <1>9 DEF Rem
  <2>3. Des(d)' <=> Des(d)
    BY <1>1, <1>2, <1>6, <1>7, <1>9 DEF Des
  <2> QED BY <1>1, <1>2, <1>9, <2>1, <2>2, <2>3, OtherConn
<1>10. ConnInv(c)'
  <2>1. ~Est(c)'
    BY <1>1, <1>2, <1>3, <1>6, <1>7 DEF Est
  <2>2. CASE ioLoop[c] = Base
    <3>1. Des(c)'
      BY <1>1, <1>2, <1>6, <1>7, <2>2 DEF Des
    <3>2. ~Rem(c)'
      BY <1>1, <1>3, <1>6, <1>7, <2>2 DEF Rem
    <3> QED BY <1>1, <1>2, <2>1, <2>2, <3>1, <3>2 DEF ConnInv
  <2>3. CASE ioLoop[c] # Base
    <3>1. Rem(c)' /\ (Des(c)' <=> Des(c))
      BY <1>1, <1>2, <1>3, <1>6, <1>7, <2>3 DEF Des, Rem
    <3> QED BY <1>1, <1>2, <1>3, <2>1, <2>3, <3>1 DEF ConnInv
  <2> QED BY <2>2, <2>3
<1>11. \A k \in Loops : \A g \in ToSet(functors'[k]) :
         g \in ToSet(functors[k]) \/ Referenced(g[2])
  BY <1>2, <1>5, <1>7
<1> QED BY <1>1, <1>2, <1>7, <1>8, <1>9, <1>10, <1>11, ConnStep

\* connectEstablished() runs in the io loop.
LEMMA RunEstablishedKeeps ==
  ASSUME ServerInv, NEW l \in Loops, RunEstablished(l)
  PROVE  ServerInv'
<1> DEFINE f == Head(functors[l])
<1>1. /\ ServerTypeOK /\ QueuesInv
      /\ \A d \in Conns : ConnInv(d)
      /\ Base \in Loops /\ ioLoop \in [Conns -> Loops]
      /\ functors \in [Loops -> Seq(Functor)]
      /\ state \in [Conns -> {"none", "kConnecting", "kConnected",
                              "kDisconnecting", "kDisconnected"}]
      /\ added \in [Conns -> BOOLEAN]
  BY ServerAssumption DEF ServerInv, ServerTypeOK, Loops, Base
<1>2. /\ functors[l] # <<>> /\ f[1] = "connectEstablished"
      /\ state' = [state EXCEPT ![f[2]] = "kConnected"]
      /\ added' = [added EXCEPT ![f[2]] = TRUE]
      /\ functors' = [functors EXCEPT ![l] = Tail(@)]
      /\ UNCHANGED <<poolVars, nextConnId, connections, ioLoop, server,
                     acceptVars>>
  BY DEF RunEstablished
<1>3. /\ functors' \in [Loops -> Seq(Functor)]
      /\ \A k \in Loops : InOrder(functors'[k])
      /\ f \in Functor /\ f \in ToSet(functors[l])
      /\ \A k \in Loops : \A g :
           g \in ToSet(functors'[k]) <=>
             g \in ToSet(functors[k]) /\ ~(k = l /\ g = f)
  BY <1>1, <1>2, Popped
<1>4. PICK c \in Conns : f = <<"connectEstablished", c>>
  BY <1>2, <1>3 DEF Functor
<1>5. f[2] = c
  BY <1>4
<1> HIDE DEF f
<1>6. l = ioLoop[c] /\ l # Base
  BY <1>1, <1>3, <1>4 DEF QueuesInv
<1>7. /\ Est(c) /\ state[c] = "kConnecting" /\ ~Rem(c)
      /\ Des(c) => server # "alive"
  <2>1. Est(c)
    BY <1>3, <1>4, <1>6 DEF Est
  <2> QED BY <1>1, <1>4, <1>6, <2>1 DEF ConnInv
<1>8. QueuesInv'
  BY <1>1, <1>2, <1>3 DEF QueuesInv
<1>9. ASSUME NEW d \in Conns, d # c
      PROVE  ConnInv(d)'
  <2>1. Est(d)' <=> Est(d)
    BY <1>1, <1>2, <1>3, <1>4, <1>9 DEF Est
  <2>2. Rem(d)' <=> Rem(d)
    BY <1>1, <1>2, <1>3, <1>4 DEF Rem
  <2>3. Des(d)' <=> Des(d)
    BY <1>1, <1>2, <1>3, <1>4 DEF Des
  <2>4. state'[d] = state[d] /\ added'[d] = added[d]
    BY <1>1, <1>2, <1>5, <1>9
  <2> QED BY <1>1, <1>2, <2>1, <2>2, <2>3, <2>4, OtherConn
<1>10. ConnInv(c)'
  <2>1. ~Est(c)'
    BY <1>1, <1>2, <1>3, <1>4, <1>6 DEF Est
  <2>2. ~Rem(c)'
    BY <1>1, <1>2, <1>3, <1>4, <1>7 DEF Rem
  <2>3. Des(c)' <=> Des(c)
    BY <1>1, <1>2, <1>3, <1>4 DEF Des
  <2>4. state'[c] = "kConnected" /\ added'[c] = TRUE
    BY <1>1, <1>2, <1>5
  <2>5. ConnInv(c)
    BY <1>1, <1>4
  <2>6. UNCHANGED <<nextConnId, connections, ioLoop, server>>
    BY <1>2
  <2> QED BY <1>6, <1>7, <2>1, <2>2, <2>3, <2>4, <2>5, <2>6 DEF ConnInv
<1>11. \A k \in Loops : \A g \in ToSet(functors'[k]) :
         g \in ToSet(functors[k]) \/ Referenced(g[2])
  BY <1>3
<1>12. /\ state' \in [Conns -> {"none", "kConnecting", "kConnected",
                                "kDisconnecting", "kDisconnected"}]
       /\ added' \in [Conns -> BOOLEAN]
  BY <1>1, <1>2, <1>5
<1> QED BY <1>2, <1>3, <1>8, <1>9, <1>10, <1>11, <1>12, ConnStep

\* connectDestroyed() runs in the loop of the connection.
LEMMA RunDestroyedKeeps ==
  ASSUME ServerInv, NEW l \in Loops, RunDestroyed(l)
  PROVE  ServerInv'
<1> DEFINE f == Head(functors[l])
<1>1. /\ ServerTypeOK /\ QueuesInv
      /\ \A d \in Conns : ConnInv(d)
      /\ Base \in Loops /\ ioLoop \in [Conns -> Loops]
      /\ functors \in [Loops -> Seq(Functor)]
      /\ state \in [Conns -> {"none", "kConnecting", "kConnected",
                              "kDisconnecting", "kDisconnected"}]
      /\ added \in [Conns -> BOOLEAN]
  BY ServerAssumption DEF ServerInv, ServerTypeOK, Loops, Base
<1>2. /\ functors[l] # <<>> /\ f[1] = "connectDestroyed"
      /\ state' = [state EXCEPT ![f[2]] = Destroyed(@)]
      /\ added' = [added EXCEPT ![f[2]] = FALSE]
      /\ functors' = [functors EXCEPT ![l] = Tail(@)]
      /\ UNCHANGED <<poolVars, nextConnId, connections, ioLoop, server,
                     acceptVars>>
  BY DEF RunDestroyed
<1>3. /\ functors' \in [Loops -> Seq(Functor)]
      /\ \A k \in Loops : InOrder(functors'[k])
      /\ f \in Functor /\ f \in ToSet(functors[l])
      /\ \A d \in Conns : f = <<"connectDestroyed", d>> =>
           <<"connectEstablished", d>> \notin ToSet(functors[l])
      /\ \A k \in Loops : \A g :
           g \in ToSet(functors'[k]) <=>
             g \in ToSet(functors[k]) /\ ~(k = l /\ g = f)
  BY <1>1, <1>2, Popped
<1>4. PICK c \in Conns : f = <<"connectDestroyed", c>>
  BY <1>2, <1>3 DEF Functor
<1>5. f[2] = c
  BY <1>4
<1> HIDE DEF f
<1>6. l = ioLoop[c]
  BY <1>1, <1>3, <1>4 DEF QueuesInv
<1>7. /\ Des(c) /\ ~Est(c) /\ c \notin connections /\ c < nextConnId
      /\ Rem(c) => server # "alive"
  <2>1. Des(c) /\ ~Est(c)
    BY <1>3, <1>4, <1>6 DEF Des, Est
  <2>2. ConnInv(c) /\ c \in Nat /\ nextConnId \in Nat
    BY <1>1, <1>4 DEF ServerTypeOK, Conns
  <2>3. added[c]
    BY <2>1, <2>2 DEF ConnInv
  <2>4. state[c] # "none"
    BY <2>2, <2>3 DEF ConnInv
  <2>5. c < nextConnId
    BY <2>2, <2>4 DEF ConnInv
  <2> QED BY <2>1, <2>2, <2>5 DEF ConnInv
<1>8. QueuesInv'
  BY <1>1, <1>2, <1>3 DEF QueuesInv
<1>9. ASSUME NEW d \in Conns, d # c
      PROVE  ConnInv(d)'
  <2>1. Est(d)' <=> Est(d)
    BY <1>1, <1>2, <1>3, <1>4 DEF Est
  <2>2. Rem(d)' <=> Rem(d)
    BY <1>1, <1>2, <1>3, <1>4 DEF Rem
  <2>3. Des(d)' <=> Des(d)
    BY <1>1, <1>2, <1>3, <1>4, <1>9 DEF Des
  <2>4. state'[d] = state[d] /\ added'[d] = added[d]
    BY <1>1, <1>2, <1>5, <1>9
  <2> QED BY <1>1, <1>2, <2>1, <2>2, <2>3, <2>4, OtherConn
<1>10. ConnInv(c)'
  <2>1. ~Est(c)'
    BY <1>1, <1>2, <1>3, <1>4, <1>7 DEF Est
  <2>2. Rem(c)' <=> Rem(c)
    BY <1>1, <1>2, <1>3, <1>4, <1>7 DEF Rem
  <2>3. ~Des(c)'
    BY <1>1, <1>2, <1>3, <1>4, <1>6 DEF Des
  <2>4. state'[c] = Destroyed(state[c]) /\ added'[c] = FALSE
    BY <1>1, <1>2, <1>5
  <2>5. UNCHANGED <<nextConnId, connections, ioLoop, server>>
    BY <1>2
  <2>6. c \in Nat /\ nextConnId \in Nat
    BY <1>1, <1>4 DEF ServerTypeOK, Conns
  <2>7. /\ state'[c] \in {"kDisconnecting", "kDisconnected"}
        /\ Rem(c) \/ server = "alive" => state'[c] = "kDisconnected"
    BY <1>1, <1>4, <1>7, <2>4 DEF ConnInv, Destroyed
  <2> QED BY <1>7, <2>1, <2>2, <2>3, <2>4, <2>5, <2>6, <2>7 DEF ConnInv
<1>11. \A k \in Loops : \A g \in ToSet(functors'[k]) :
         g \in ToSet(functors[k]) \/ Referenced(g[2])
  BY <1>3
<1>12. /\ state' \in [Conns -> {"none", "kConnecting", "kConnected",
                                "kDisconnecting", "kDisconnected"}]
       /\ added' \in [Conns -> BOOLEAN]
  BY <1>1, <1>2, <1>5 DEF Destroyed
<1> QED BY <1>2, <1>3, <1>8, <1>9, <1>10, <1>11, <1>12, ConnStep

\* removeConnectionInLoop() of another loop's connection, in the base loop.
LEMMA RunRemoveKeeps ==
  ASSUME ServerInv, RunRemove
  PROVE  ServerInv'
<1> DEFINE q == functors[Base]
<1>1. /\ ServerTypeOK /\ QueuesInv
      /\ \A d \in Conns : ConnInv(d)
      /\ Base \in Loops /\ ioLoop \in [Conns -> Loops]
      /\ functors \in [Loops -> Seq(Functor)]
      /\ \A k \in Loops : functors[k] \in Seq(Functor) /\ InOrder(functors[k])
  BY ServerAssumption DEF ServerInv, ServerTypeOK, Loops, Base, QueuesInv
<1>2. /\ q # <<>> /\ server = "alive" /\ Head(q)[1] = "removeConnectionInLoop"
      /\ connections' = connections \ {Head(q)[2]}
      /\ functors' = [functors EXCEPT ![Base] = Tail(@), ![ioLoop[Head(q)[2]]] =
                        Append(@, <<"connectDestroyed", Head(q)[2]>>)]
      /\ UNCHANGED <<poolVars, nextConnId, ioLoop, state, added, server,
                     acceptVars>>
  BY DEF RunRemove
<1>3. /\ Tail(q) \in Seq(Functor) /\ Head(q) \in Functor
      /\ ToSet(q) = ToSet(Tail(q)) \cup {Head(q)}
      /\ Head(q) \notin ToSet(Tail(q))
      /\ InOrder(Tail(q))
  <2> HIDE DEF q
  <2>1. q \in Seq(Functor) /\ InOrder(q)
    BY <1>1 DEF q
  <2> QED BY <1>2, <2>1, PopInOrder
<1>4. PICK c \in Conns : Head(q) = <<"removeConnectionInLoop", c>>
  BY <1>2, <1>3 DEF Functor
<1> DEFINE m == ioLoop[c]
           f == <<"connectDestroyed", c>>
<1>5. /\ connections' = connections \ {c}
      /\ functors' = [functors EXCEPT ![Base] = Tail(@), ![m] = Append(@, f)]
  <2>1. Head(q)[2] = c
    BY <1>4
  <2> QED BY <1>2, <2>1
<1>6. m # Base /\ m \in Loops
  BY <1>1, <1>3, <1>4 DEF QueuesInv
<1>7. /\ Rem(c) /\ state[c] = "kDisconnected" /\ c \in connections
      /\ ~Des(c) /\ ~Est(c) /\ added[c]
  <2>1. Rem(c)
    BY <1>3, <1>4 DEF Rem
  <2> QED BY <1>1, <1>2, <1>4, <2>1 DEF ConnInv
<1>8. f \in Functor /\ f \notin ToSet(functors[m]) /\ f[2] = c
  BY <1>4, <1>7 DEF Functor, Des
<1>9. /\ Append(functors[m], f) \in Seq(Functor)
      /\ ToSet(Append(functors[m], f)) = ToSet(functors[m]) \cup {f}
      /\ InOrder(Append(functors[m], f))
  <2> DEFINE p == functors[m]
  <2>1. p \in Seq(Functor) /\ InOrder(p)
    BY <1>1, <1>6
  <2>2. \A d \in Conns : f # <<"connectEstablished", d>>
    OBVIOUS
  <2>3. f \in Functor /\ f \notin ToSet(p)
    BY <1>8
  <2> HIDE DEF p, f
  <2>4. /\ Append(p, f) \in Seq(Functor)
        /\ ToSet(Append(p, f)) = ToSet(p) \cup {f}
        /\ InOrder(Append(p, f))
    BY <2>1, <2>2, <2>3, PushInOrder
  <2> QED BY <2>4 DEF p
<1>10. /\ functors'[Base] = Tail(q) /\ functors'[m] = Append(functors[m], f)
       /\ \A k \in Loops : k # Base /\ k # m => functors'[k] = functors[k]
       /\ functors' \in [Loops -> Seq(Functor)]
  BY <1>1, <1>3, <1>5, <1>6, <1>9
<1> HIDE DEF m, f, q
<1>11. \A k \in Loops : \A g :
         g \in ToSet(functors'[k]) <=>
           \/ g \in ToSet(functors[k]) /\ ~(k = Base /\ g = Head(q))
           \/ k = m /\ g = f
  <2> SUFFICES ASSUME NEW k \in Loops, NEW g
               PROVE  g \in ToSet(functors'[k]) <=>
                        \/ /\ g \in ToSet(functors[k])
                           /\ ~(k = Base /\ g = Head(q))
                        \/ k = m /\ g = f
    OBVIOUS
  <2>1. CASE k = Base
    BY <1>3, <1>6, <1>10, <2>1 DEF q
  <2>2. CASE k = m
    BY <1>6, <1>9, <1>10, <2>2
  <2>3. CASE k # Base /\ k # m
    BY <1>10, <2>3
  <2> QED BY <2>1, <2>2, <2>3
<1>12. \A k \in Loops : InOrder(functors'[k])
  BY <1>1, <1>3, <1>6, <1>9, <1>10
<1>13. ASSUME NEW k \in Loops, NEW d \in Conns
       PROVE  /\ <<"connectEstablished", d>> \in ToSet(functors'[k]) <=>
                    <<"connectEstablished", d>> \in ToSet(functors[k])
              /\ <<"removeConnectionInLoop", d>> \in ToSet(functors'[k]) <=>
                    /\ <<"removeConnectionInLoop", d>> \in ToSet(functors[k])
                    /\ ~(k = Base /\ d = c)
              /\ <<"connectDestroyed", d>> \in ToSet(functors'[k]) <=>
                    \/ <<"connectDestroyed", d>> \in ToSet(functors[k])
                    \/ k = ioLoop[c] /\ d = c
  <2>1. /\ <<"connectEstablished", d>> # Head(q)
        /\ <<"connectEstablished", d>> # f
        /\ <<"removeConnectionInLoop", d>> # f
        /\ <<"removeConnectionInLoop", d>> = Head(q) <=> d = c
        /\ <<"connectDestroyed", d>> # Head(q)
        /\ <<"connectDestroyed", d>> = f <=> d = c
    BY <1>4 DEF f
  <2> QED BY <1>11, <2>1 DEF m
<1>14. QueuesInv'
  <2>1. UNCHANGED ioLoop
    BY <1>2
  <2>2. ASSUME NEW k \in Loops, NEW d \in Conns
        PROVE  /\ <<"connectEstablished", d>> \in ToSet(functors'[k]) =>
                    k = ioLoop[d] /\ k # Base
               /\ <<"removeConnectionInLoop", d>> \in ToSet(functors'[k]) =>
                    k = Base /\ ioLoop[d] # Base
               /\ <<"connectDestroyed", d>> \in ToSet(functors'[k]) =>
                    k = ioLoop[d]
    BY <1>1, <1>13, <2>2 DEF QueuesInv, m
  <2> QED BY <1>12, <2>1, <2>2 DEF QueuesInv
<1>15. ASSUME NEW d \in Conns, d # c
       PROVE  ConnInv(d)'
  <2>1. Est(d)' <=> Est(d)
    BY <1>1, <1>2, <1>13 DEF Est
  <2>2. Rem(d)' <=> Rem(d)
    BY <1>1, <1>2, <1>13, <1>15 DEF Rem
  <2>3. Des(d)' <=> Des(d)
    BY <1>1, <1>2, <1>13, <1>15 DEF Des
  <2> QED BY <1>1, <1>2, <1>5, <1>15, <2>1, <2>2, <2>3, OtherConn
<1>16. ConnInv(c)'
  <2>1. ~Est(c)'
    BY <1>1, <1>2, <1>7, <1>13 DEF Est
  <2>2. ~Rem(c)'
    BY <1>1, <1>13 DEF Rem
  <2>3. Des(c)'
    BY <1>1, <1>2, <1>13 DEF Des
  <2>4. ConnInv(c)
    BY <1>1, <1>4
  <2> QED BY <1>2, <1>5, <1>7, <2>1, <2>2, <2>3, <2>4 DEF ConnInv
<1>17. \A k \in Loops : \A g \in ToSet(functors'[k]) :
         g \in ToSet(functors[k]) \/ Referenced(g[2])
  <2>1. Referenced(c)
    BY <1>7 DEF Referenced
  <2> QED BY <1>8, <1>11, <2>1
<1>18. /\ state' \in [Conns -> {"none", "kConnecting", "kConnected",
                                "kDisconnecting", "kDisconnected"}]
       /\ added' \in [Conns -> BOOLEAN]
  BY <1>1, <1>2 DEF ServerTypeOK
<1>19. UNCHANGED <<poolVars, nextConnId, ioLoop, server, acceptVars>>
  BY <1>2
<1>20. connections' \subseteq connections
  BY <1>5
<1>21. functors' \in [Loops -> Seq(Functor)]
  BY <1>10
<1>22. \A d \in Conns : ConnInv(d)'
  BY <1>15, <1>16
<1> QED BY <1>14, <1>17, <1>18, <1>19, <1>20, <1>21, <1>22, ConnStep

\* Round robin: the loop that next_ names gets one connection more.
LEMMA RoundKeeps ==
  ASSUME ServerTypeOK, LoopsInv, RoundInv, nextConnId \in Conns,
         UNCHANGED numThreads, nextConnId' = nextConnId + 1,
         next' = IF numThreads = 0 THEN next ELSE Advance(next),
         ioLoop' = [ioLoop EXCEPT ![nextConnId] = NextLoop]
  PROVE  /\ RoundInv'
         /\ next' \in 0 .. MaxThreads
         /\ numThreads > 0 => next' < numThreads
         /\ numThreads = 0 => next' = 0
         /\ \A c \in 1 .. nextConnId : ioLoop'[c] \in GetAllLoops
<1>1. /\ numThreads \in Nat /\ next \in Nat /\ nextConnId \in Nat
      /\ nextConnId >= 1
      /\ MaxThreads \in Nat /\ numThreads <= MaxThreads
      /\ numThreads > 0 => next < numThreads
      /\ numThreads = 0 => next = 0
      /\ ioLoop \in [Conns -> Loops] /\ 1 .. nextConnId \subseteq Conns
      /\ \A c \in 1 .. nextConnId - 1 : ioLoop[c] \in GetAllLoops
  BY ServerAssumption DEF ServerTypeOK, LoopsInv, Conns
<1>2. /\ ioLoop'[nextConnId] = NextLoop
      /\ \A c \in 1 .. nextConnId - 1 : ioLoop'[c] = ioLoop[c]
      /\ 1 .. nextConnId = (1 .. nextConnId - 1) \cup {nextConnId}
  BY <1>1
<1>3. NextLoop \in GetAllLoops
  BY <1>1 DEF NextLoop, GetAllLoops
<1>4. \A c \in 1 .. nextConnId : ioLoop'[c] \in GetAllLoops
  BY <1>1, <1>2, <1>3
<1>5. 1 .. nextConnId' - 1 = 1 .. nextConnId
  BY <1>1
<1>6. ASSUME NEW k \in Loops
      PROVE  /\ k = NextLoop => OnLoop(k)' = OnLoop(k) \cup {nextConnId}
             /\ k # NextLoop => OnLoop(k)' = OnLoop(k)
             /\ nextConnId \notin OnLoop(k) /\ IsFiniteSet(OnLoop(k))
  <2>1. OnLoop(k)' = {c \in 1 .. nextConnId : ioLoop'[c] = k}
    BY <1>5 DEF OnLoop
  <2>2. OnLoop(k) \in SUBSET Conns /\ nextConnId \notin OnLoop(k)
    BY <1>1 DEF OnLoop, Conns
  <2>3. IsFiniteSet(OnLoop(k))
    BY <2>2, Finite
  <2> QED BY <1>1, <1>2, <2>1, <2>2, <2>3 DEF OnLoop
<1>7. ASSUME NEW k \in Loops
      PROVE  /\ Cardinality(OnLoop(k)) \in Nat
             /\ Cardinality(OnLoop(k)') =
                  IF k = NextLoop THEN Cardinality(OnLoop(k)) + 1
                  ELSE Cardinality(OnLoop(k))
  BY <1>6, FS_AddElement, FS_CardinalityType
<1>8. CASE numThreads = 0
  <2>1. next' = 0
    BY <1>1, <1>8
  <2>2. \A k \in 1 .. numThreads' :
          Cardinality(OnLoop(k)') = IF k <= next' THEN 0 + 1 ELSE 0
    BY <1>8
  <2>3. RoundInv'
    BY <2>2 DEF RoundInv
  <2> QED BY <1>1, <1>4, <1>8, <2>1, <2>3
<1>9. CASE numThreads > 0
  <2>1. /\ next' = (IF next + 1 >= numThreads THEN 0 ELSE next + 1)
        /\ NextLoop = next + 1
    BY <1>1, <1>9 DEF Advance, NextLoop
  <2>2. PICK n \in Nat : \A k \in 1 .. numThreads :
          Cardinality(OnLoop(k)) = IF k <= next THEN n + 1 ELSE n
    BY DEF RoundInv
  <2>3. \A k \in 1 .. numThreads : k \in Loops /\ k \in Nat
    BY <1>1 DEF Loops
  <2>4. \A k \in 1 .. numThreads :
          Cardinality(OnLoop(k)') = IF k <= next + 1 THEN n + 1 ELSE n
    BY <1>1, <1>7, <2>1, <2>2, <2>3
  <2>5. CASE next + 1 >= numThreads
    <3>1. \A k \in 1 .. numThreads' :
            Cardinality(OnLoop(k)') = IF k <= next' THEN n + 1 + 1 ELSE n + 1
      BY <1>1, <1>9, <2>1, <2>4, <2>5
    <3>2. RoundInv'
      BY <3>1 DEF RoundInv
    <3> QED BY <1>1, <1>4, <1>9, <2>1, <2>5, <3>2
  <2>6. CASE next + 1 < numThreads
    <3>1. \A k \in 1 .. numThreads' :
            Cardinality(OnLoop(k)') = IF k <= next' THEN n + 1 ELSE n
      BY <1>1, <1>9, <2>1, <2>4, <2>6
    <3>2. RoundInv'
      BY <3>1 DEF RoundInv
    <3> QED BY <1>1, <1>4, <1>9, <2>1, <2>6, <3>2
  <2> QED BY <1>1, <2>5, <2>6
<1> QED BY <1>1, <1>8, <1>9

\* newConnection(): the connection is set up in its loop, or on the way to it.
LEMMA NewConnectionKeeps ==
  ASSUME ServerInv, NewConnection
  PROVE  ServerInv'
<1>1. /\ ServerTypeOK /\ QueuesInv /\ LoopsInv /\ RoundInv /\ AcceptInv
      /\ \A d \in Conns : ConnInv(d)
      /\ Base \in Loops /\ ioLoop \in [Conns -> Loops]
      /\ functors \in [Loops -> Seq(Functor)]
      /\ \A k \in Loops : functors[k] \in Seq(Functor) /\ InOrder(functors[k])
      /\ state \in [Conns -> {"none", "kConnecting", "kConnected",
                              "kDisconnecting", "kDisconnected"}]
      /\ added \in [Conns -> BOOLEAN]
      /\ nextConnId \in Nat
  BY ServerAssumption DEF ServerInv, ServerTypeOK, Loops, Base, QueuesInv
<1>2. /\ acceptPc = "idle" /\ server = "alive" /\ started /\ backlog > 0
      /\ FreeFds > 0
      /\ backlog' = backlog - 1
      /\ nextConnId' = nextConnId + 1
      /\ connections' = connections \cup {nextConnId}
      /\ ioLoop' = [ioLoop EXCEPT ![nextConnId] = NextLoop]
      /\ next' = IF numThreads = 0 THEN next ELSE Advance(next)
      /\ Enter(nextConnId, NextLoop)
      /\ UNCHANGED <<numThreads, started, quit, exited, server, arrived,
                     others, idleFd, acceptPc, stolen>>
  BY DEF NewConnection, BaseFree, Listening
<1>3. nextConnId \in Conns /\ nextConnId + 1 \in 1 .. MaxClients + 1
  BY <1>1, <1>2, ServerAssumption DEF AcceptInv, ServerTypeOK, Conns
<1>4. PICK c \in Conns : c = nextConnId
  BY <1>3
<1>5. NextLoop \in Loops
  BY <1>1, ServerAssumption DEF NextLoop, ServerTypeOK, LoopsInv, Loops, Base
<1>6. PICK l \in Loops : l = NextLoop
  BY <1>5
<1>7. /\ connections' = connections \cup {c} /\ Enter(c, l)
      /\ ioLoop' = [ioLoop EXCEPT ![c] = l]
      /\ nextConnId' = c + 1 /\ nextConnId = c /\ c \in Nat
  BY <1>1, <1>2, <1>4, <1>6
<1>8. /\ c \notin connections /\ state[c] = "none" /\ ioLoop[c] = Base
      /\ ~Est(c) /\ ~added[c] /\ ~Des(c)
  <2>1. ConnInv(c)
    BY <1>1
  <2>2. /\ c >= nextConnId <=> state[c] = "none"
        /\ c >= nextConnId => c \notin connections /\ ioLoop[c] = Base
        /\ Est(c) <=> state[c] = "kConnecting"
        /\ added[c] =>
             state[c] \in {"kConnected", "kDisconnecting", "kDisconnected"}
        /\ Des(c) => Est(c) \/ added[c]
    BY <2>1 DEF ConnInv
  <2>3. c >= nextConnId
    BY <1>7
  <2> QED BY <2>2, <2>3
<1>9. \A k \in Loops :
        /\ <<"connectEstablished", c>> \notin ToSet(functors[k])
        /\ <<"removeConnectionInLoop", c>> \notin ToSet(functors[k])
        /\ <<"connectDestroyed", c>> \notin ToSet(functors[k])
  BY <1>1, <1>8 DEF QueuesInv, Des
<1>10. /\ functors' \in [Loops -> Seq(Functor)]
       /\ \A k \in Loops : InOrder(functors'[k])
       /\ \A k \in Loops : \A g : g \in ToSet(functors'[k]) <=>
            \/ g \in ToSet(functors[k])
            \/ k = l /\ l # Base /\ g = <<"connectEstablished", c>>
       /\ state' = [state EXCEPT ![c] = IF l = Base THEN "kConnected"
                                        ELSE "kConnecting"]
       /\ added' = [added EXCEPT ![c] = (l = Base)]
  <2>1. CASE l = Base
    <3>1. /\ functors' = functors
          /\ state' = [state EXCEPT ![c] = "kConnected"]
          /\ added' = [added EXCEPT ![c] = TRUE]
      BY <1>7, <2>1 DEF Enter
    <3> QED BY <1>1, <2>1, <3>1
  <2>2. CASE l # Base
    <3> DEFINE f == <<"connectEstablished", c>>
    <3>1. /\ functors' = [functors EXCEPT ![l] = Append(@, f)]
          /\ state' = [state EXCEPT ![c] = "kConnecting"]
          /\ added' = added
      BY <1>7, <2>2 DEF Enter, EnterQueued
    <3>2. f \in Functor /\ f \notin ToSet(functors[l])
      BY <1>9 DEF Functor
    <3>3. \A d \in Conns : f = <<"connectEstablished", d>> =>
            <<"connectDestroyed", d>> \notin ToSet(functors[l])
      BY <1>9
    <3>4. added' = [added EXCEPT ![c] = (l = Base)]
      BY <1>1, <1>8, <2>2, <3>1
    <3> HIDE DEF f
    <3>5. /\ functors' \in [Loops -> Seq(Functor)]
          /\ \A k \in Loops : InOrder(functors'[k])
          /\ \A k \in Loops : \A g :
               g \in ToSet(functors'[k]) <=>
                 g \in ToSet(functors[k]) \/ (k = l /\ g = f)
      BY <1>1, <3>1, <3>2, <3>3, Pushed
    <3> QED BY <2>2, <3>1, <3>4, <3>5 DEF f
  <2> QED BY <2>1, <2>2
<1>11. /\ ioLoop'[c] = l /\ ioLoop' \in [Conns -> Loops]
       /\ \A d \in Conns : d # c =>
            /\ ioLoop'[d] = ioLoop[d] /\ state'[d] = state[d]
            /\ added'[d] = added[d]
       /\ state'[c] = (IF l = Base THEN "kConnected" ELSE "kConnecting")
       /\ added'[c] = (l = Base)
  BY <1>1, <1>7, <1>10
<1>12. ASSUME NEW k \in Loops
       PROVE  /\ <<"connectEstablished", c>> \in ToSet(functors'[k]) <=>
                    k = l /\ l # Base
              /\ <<"removeConnectionInLoop", c>> \notin ToSet(functors'[k])
              /\ <<"connectDestroyed", c>> \notin ToSet(functors'[k])
  <2>1. /\ <<"removeConnectionInLoop", c>> # <<"connectEstablished", c>>
        /\ <<"connectDestroyed", c>> # <<"connectEstablished", c>>
    OBVIOUS
  <2> QED BY <1>9, <1>10, <2>1, Zenon
<1>13. QueuesInv'
  <2> SUFFICES ASSUME NEW k \in Loops, NEW d \in Conns
               PROVE  /\ <<"connectEstablished", d>> \in ToSet(functors'[k]) =>
                           k = ioLoop'[d] /\ k # Base
                      /\ <<"removeConnectionInLoop", d>>
                           \in ToSet(functors'[k]) =>
                             k = Base /\ ioLoop'[d] # Base
                      /\ <<"connectDestroyed", d>> \in ToSet(functors'[k]) =>
                           k = ioLoop'[d]
    BY <1>10 DEF QueuesInv
  <2>1. CASE d = c
    BY <1>11, <1>12, <2>1
  <2>2. CASE d # c
    <3>1. \A n : <<n, d>> \in ToSet(functors'[k]) =>
                  <<n, d>> \in ToSet(functors[k])
      BY <1>10, <2>2
    <3>2. ioLoop'[d] = ioLoop[d]
      BY <1>11, <2>2
    <3> QED BY <1>1, <3>1, <3>2 DEF QueuesInv
  <2> QED BY <2>1, <2>2
<1>14. ASSUME NEW d \in Conns, d # c
       PROVE  ConnInv(d)'
  <2>1. /\ Est(d)' <=> Est(d)
        /\ Rem(d)' <=> Rem(d)
        /\ Des(d)' <=> Des(d)
    BY <1>1, <1>10, <1>11, <1>14 DEF Est, Rem, Des
  <2>2. d \in connections' <=> d \in connections
    BY <1>7, <1>14
  <2>3. /\ d >= nextConnId' <=> d >= nextConnId
        /\ d < nextConnId' <=> d < nextConnId
    BY <1>7, <1>14 DEF Conns
  <2>4. /\ ConnInv(d) /\ server' = server
        /\ ioLoop'[d] = ioLoop[d] /\ state'[d] = state[d]
        /\ added'[d] = added[d]
    BY <1>1, <1>2, <1>11, <1>14
  <2> QED BY <2>1, <2>2, <2>3, <2>4 DEF ConnInv
<1>15. ConnInv(c)'
  <2>1. /\ ~Rem(c)' /\ ~Des(c)'
        /\ Est(c)' <=> l # Base
    BY <1>1, <1>11, <1>12 DEF Est, Rem, Des
  <2>2. ~(c >= nextConnId')
    BY <1>7
  <2>3. c \in connections'
    BY <1>7
  <2> QED BY <1>11, <2>1, <2>2, <2>3 DEF ConnInv
<1>16. /\ RoundInv' /\ next' \in 0 .. MaxThreads
       /\ numThreads > 0 => next' < numThreads
       /\ numThreads = 0 => next' = 0
       /\ \A d \in 1 .. nextConnId : ioLoop'[d] \in GetAllLoops
  BY <1>1, <1>2, <1>3, RoundKeeps
<1>17. LoopsInv'
  <2>1. nextConnId' - 1 = nextConnId
    BY <1>1, <1>2
  <2> QED BY <1>1, <1>2, <1>16, <2>1 DEF LoopsInv, GetAllLoops
<1>18. Cardinality(Live') \in Nat /\ Cardinality(Live') <= Cardinality(Live) + 1
  <2>1. ASSUME NEW d \in Conns, Referenced(d)', d # c
        PROVE  Referenced(d)
    <3>1. CASE d \in connections'
      BY <1>7, <2>1, <3>1 DEF Referenced
    <3>2. CASE \E k \in Loops \ exited' :
                 \E f \in ToSet(functors'[k]) : f[2] = d
      <4>1. PICK k \in Loops \ exited' : \E f \in ToSet(functors'[k]) : f[2] = d
        BY <3>2
      <4>2. PICK f \in ToSet(functors'[k]) : f[2] = d
        BY <4>1
      <4>3. f # <<"connectEstablished", c>>
        BY <2>1, <4>2
      <4>4. f \in ToSet(functors[k]) /\ k \in Loops \ exited
        BY <1>2, <1>10, <4>1, <4>2, <4>3
      <4> QED BY <4>2, <4>4 DEF Referenced
    <3> QED BY <2>1, <3>1, <3>2 DEF Referenced
  <2>2. Live' \subseteq Live \cup {c} /\ Live \cup {c} \subseteq Conns
    BY <2>1 DEF Live, Conns
  <2>3. Cardinality(Live \cup {c}) <= Cardinality(Live) + 1
    <3>1. IsFiniteSet(Live) /\ Cardinality(Live) \in Nat
      BY <1>1, <2>2, Finite
    <3>2. Cardinality(Live \cup {c}) = IF c \in Live THEN Cardinality(Live)
                                       ELSE Cardinality(Live) + 1
      BY <3>1, FS_AddElement
    <3> QED BY <3>1, <3>2
  <2>4. /\ Cardinality(Live \cup {c}) \in Nat /\ Cardinality(Live) \in Nat
        /\ Cardinality(Live') \in Nat
        /\ Cardinality(Live') <= Cardinality(Live \cup {c})
    <3>1. Live' \in SUBSET (Live \cup {c}) /\ Live \cup {c} \in SUBSET Conns
      BY <2>2
    <3>2. Live' \in SUBSET Conns /\ Live \in SUBSET Conns
      BY <3>1
    <3> QED BY <1>1, <3>1, <3>2, Finite
  <2> DEFINE a == Cardinality(Live')
             b == Cardinality(Live \cup {c})
             e == Cardinality(Live)
  <2> HIDE DEF a, b, e
  <2>5. a \in Nat /\ b \in Nat /\ e \in Nat /\ a <= b /\ b <= e + 1
    BY <2>3, <2>4 DEF a, b, e
  <2>6. a \in Nat /\ a <= e + 1
    BY <2>5
  <2> QED BY <2>6 DEF a, e
<1>19. AcceptInv'
  <2> DEFINE n == Cardinality(Live)
             m == Cardinality(Live')
             r == IF idleFd THEN 1 ELSE 0
  <2>1. n \in Nat /\ others \in Nat /\ MaxFds \in Nat /\ r \in Nat
    BY <1>1, Finite, ServerAssumption DEF ServerTypeOK, Live
  <2>2. MaxFds - others - r - n > 0
    BY <1>2 DEF FreeFds, Live
  <2>3. m \in Nat /\ m <= n + 1
    BY <1>18
  <2>4. UNCHANGED r
    BY <1>2
  <2> HIDE DEF n, m, r
  <2>5. others + r + m <= MaxFds
    BY <2>1, <2>2, <2>3
  <2>6. others' + (IF idleFd' THEN 1 ELSE 0) + Cardinality(Live') <= MaxFds
    BY <1>2, <2>4, <2>5 DEF r, m
  <2>7. nextConnId' + backlog' <= arrived' + 1
    BY <1>1, <1>2 DEF AcceptInv, ServerTypeOK
  <2> QED BY <1>1, <1>2, <2>6, <2>7 DEF AcceptInv
<1>20. ServerTypeOK'
  <2>1. backlog' \in 0 .. MaxClients
    BY <1>1, <1>2, ServerAssumption DEF ServerTypeOK
  <2>2. connections' \subseteq Conns /\ nextConnId' \in 1 .. MaxClients + 1
    BY <1>1, <1>2, <1>3 DEF ServerTypeOK
  <2>3. /\ state' \in [Conns -> {"none", "kConnecting", "kConnected",
                                 "kDisconnecting", "kDisconnected"}]
        /\ added' \in [Conns -> BOOLEAN]
    BY <1>1, <1>10
  <2> QED BY <1>1, <1>2, <1>10, <1>11, <1>16, <2>1, <2>2, <2>3 DEF ServerTypeOK
<1> QED BY <1>13, <1>14, <1>15, <1>16, <1>17, <1>19, <1>20 DEF ServerInv

\* ~TcpServer: the connections of the base loop are destroyed at once, the
\* others by a functor of their loop.
LEMMA DestroyKeeps ==
  ASSUME ServerInv, Destroy
  PROVE  ServerInv'
<1> DEFINE here == {c \in connections : ioLoop[c] = Base}
           D(l) == {<<"connectDestroyed", c>> :
                      c \in {d \in connections \ here : ioLoop[d] = l}}
<1>1. /\ ServerTypeOK /\ QueuesInv /\ LoopsInv /\ RoundInv /\ AcceptInv
      /\ \A d \in Conns : ConnInv(d)
      /\ Base \in Loops /\ ioLoop \in [Conns -> Loops]
      /\ connections \subseteq Conns
      /\ functors \in [Loops -> Seq(Functor)]
      /\ \A k \in Loops : functors[k] \in Seq(Functor) /\ InOrder(functors[k])
      /\ state \in [Conns -> {"none", "kConnecting", "kConnected",
                              "kDisconnecting", "kDisconnected"}]
      /\ added \in [Conns -> BOOLEAN]
  BY ServerAssumption DEF ServerInv, ServerTypeOK, Loops, Base, QueuesInv
<1>2. /\ server = "alive" /\ acceptPc = "idle"
      /\ state' = [c \in Conns |->
                     IF c \in here THEN Destroyed(state[c]) ELSE state[c]]
      /\ added' = [c \in Conns |-> added[c] /\ c \notin here]
      /\ functors' = [l \in Loops |-> functors[l] \o SetToSeq(D(l))]
      /\ connections' = {} /\ server' = "joining"
      /\ UNCHANGED <<poolVars, nextConnId, ioLoop, acceptVars>>
  BY DEF Destroy, BaseFree
<1>3. ASSUME NEW k \in Loops
      PROVE  /\ functors'[k] \in Seq(Functor)
             /\ ToSet(functors'[k]) = ToSet(functors[k]) \cup D(k)
             /\ InOrder(functors'[k])
  <2>1. D(k) \subseteq Functor /\ IsFiniteSet(D(k))
    <3>1. {d \in connections \ here : ioLoop[d] = k} \in SUBSET Conns
      BY <1>1
    <3>2. IsFiniteSet({d \in connections \ here : ioLoop[d] = k})
      BY <1>1, <3>1, Finite
    <3>3. IsFiniteSet(D(k))
      <4> DEFINE S == {d \in connections \ here : ioLoop[d] = k}
      <4> HIDE DEF S
      <4>1. IsFiniteSet(S)
        BY <3>2 DEF S
      <4> DEFINE T == {<<"connectDestroyed", c>> : c \in S}
                 g == [c \in S |-> <<"connectDestroyed", c>>]
      <4>2. g \in Surjection(S, T)
        BY DEF Surjection
      <4> HIDE DEF g, T
      <4>3. IsFiniteSet(T)
        BY <4>1, <4>2, FS_Surjection
      <4> QED BY <4>3 DEF S, T
    <3> QED BY <3>1, <3>3 DEF Functor
  <2> DEFINE t == SetToSeq(D(k))
             q == functors[k]
  <2>2. /\ t \in Seq(D(k)) /\ ToSet(t) = D(k)
        /\ \A i, j \in DOMAIN t : t[i] = t[j] => i = j
    <3> HIDE DEF D
    <3> QED BY <2>1, SetToSeqFacts
  <2>3. t \in Seq(Functor)
    <3> HIDE DEF D, t
    <3> QED BY <2>1, <2>2
  <2>4. \A f \in D(k) : f \notin ToSet(functors[k])
    <3> SUFFICES ASSUME NEW c \in connections \ here, ioLoop[c] = k
                 PROVE  <<"connectDestroyed", c>> \notin ToSet(functors[k])
      OBVIOUS
    <3>1. ConnInv(c)
      BY <1>1
    <3> QED BY <3>1 DEF ConnInv, Des
  <2>5. \A c \in Conns : <<"connectEstablished", c>> \notin D(k)
    OBVIOUS
  <2>6. functors'[k] = q \o t
    BY <1>2
  <2> HIDE DEF D
  <2>7. q \in Seq(Functor) /\ InOrder(q)
    BY <1>1
  <2>8. \A f \in ToSet(t) : f \notin ToSet(q)
    BY <2>2, <2>4
  <2>9. \A c \in Conns : <<"connectEstablished", c>> \notin ToSet(t)
    BY <2>2, <2>5
  <2> HIDE DEF t, q
  <2>10. /\ q \o t \in Seq(Functor)
         /\ ToSet(q \o t) = ToSet(q) \cup ToSet(t)
         /\ InOrder(q \o t)
    BY <2>2, <2>3, <2>7, <2>8, <2>9, AllInOrder
  <2> QED BY <2>2, <2>6, <2>10 DEF q
<1>4. functors' \in [Loops -> Seq(Functor)]
  BY <1>2, <1>3
<1>5. ASSUME NEW k \in Loops, NEW d \in Conns
      PROVE  /\ <<"connectEstablished", d>> \in ToSet(functors'[k]) <=>
                  <<"connectEstablished", d>> \in ToSet(functors[k])
             /\ <<"removeConnectionInLoop", d>> \in ToSet(functors'[k]) <=>
                  <<"removeConnectionInLoop", d>> \in ToSet(functors[k])
             /\ <<"connectDestroyed", d>> \in ToSet(functors'[k]) <=>
                  \/ <<"connectDestroyed", d>> \in ToSet(functors[k])
                  \/ d \in connections \ here /\ k = ioLoop[d]
  <2>1. /\ <<"connectEstablished", d>> \notin D(k)
        /\ <<"removeConnectionInLoop", d>> \notin D(k)
        /\ <<"connectDestroyed", d>> \in D(k) <=>
             d \in connections \ here /\ k = ioLoop[d]
    OBVIOUS
  <2> HIDE DEF D
  <2> QED BY <1>3, <2>1
<1>6. QueuesInv'
  BY <1>1, <1>2, <1>3, <1>5 DEF QueuesInv
<1>7. ASSUME NEW c \in Conns
      PROVE  ConnInv(c)'
  <2>1. /\ Est(c)' <=> Est(c)
        /\ Rem(c)' <=> Rem(c)
        /\ Des(c)' <=> Des(c) \/ c \in connections \ here
    BY <1>1, <1>2, <1>5 DEF Est, Rem, Des
  <2>2. /\ state'[c] = IF c \in here THEN Destroyed(state[c]) ELSE state[c]
        /\ added'[c] <=> added[c] /\ c \notin here
    BY <1>2
  <2>3. /\ ConnInv(c) /\ nextConnId' = nextConnId /\ ioLoop' = ioLoop
        /\ c \notin connections' /\ server = "alive" /\ server' # "alive"
    BY <1>1, <1>2
  <2>4. CASE c \in here
    <3>1. ioLoop[c] = Base /\ c \in connections
      BY <2>4
    <3>2. ~Est(c) /\ ~Des(c) /\ ~Rem(c)
      BY <1>1, <2>3, <3>1 DEF QueuesInv, Est, Rem, ConnInv
    <3>3. c \in Nat /\ nextConnId \in Nat /\ c < nextConnId
      BY <1>1, <2>3, <3>1 DEF ServerTypeOK, Conns, ConnInv
    <3>4. state[c] \in {"kConnected", "kDisconnecting", "kDisconnected"}
      BY <2>3, <3>1, <3>2 DEF ConnInv
    <3>5. state'[c] \in {"kDisconnecting", "kDisconnected"} /\ ~added'[c]
      BY <2>2, <2>4, <3>4 DEF Destroyed
    <3> QED BY <2>1, <2>3, <2>4, <3>1, <3>2, <3>3, <3>5 DEF ConnInv
  <2>5. CASE c \in connections \ here
    <3>1. ioLoop[c] # Base /\ c \notin here
      BY <2>5
    <3> HIDE DEF here
    <3> QED BY <2>1, <2>2, <2>3, <2>5, <3>1 DEF ConnInv
  <2>6. CASE c \notin connections
    <3>1. c \notin here
      BY <2>6
    <3> HIDE DEF here
    <3> QED BY <2>1, <2>2, <2>3, <2>6, <3>1 DEF ConnInv
  <2> QED BY <2>4, <2>5, <2>6
<1>8. /\ UNCHANGED <<numThreads, started, next, quit, exited, backlog, arrived,
                     others, idleFd, acceptPc, stolen>>
      /\ server' # "alive"
  BY <1>2 DEF poolVars, acceptVars
<1>9. LoopsInv' /\ RoundInv'
  BY <1>1, <1>2, LoopsSame
<1>10. /\ Cardinality(Live) \in Nat /\ Cardinality(Live') \in Nat
       /\ Cardinality(Live') <= Cardinality(Live)
  <2>1. \A l \in Loops \ exited' : \A f \in ToSet(functors'[l]) :
          f \in ToSet(functors[l]) \/ Referenced(f[2])
    <3> SUFFICES ASSUME NEW l \in Loops, NEW f \in D(l)
                 PROVE  Referenced(f[2])
      <4> HIDE DEF D
      <4> QED BY <1>3
    <3>1. PICK c \in connections : f = <<"connectDestroyed", c>>
      OBVIOUS
    <3>2. f[2] = c
      BY <3>1
    <3> QED BY <3>2 DEF Referenced
  <2>2. Live' \subseteq Live /\ Cardinality(Live') <= Cardinality(Live)
    BY <1>1, <1>2, <1>8, <2>1, LiveShrinks
  <2>3. Live \in SUBSET Conns
    BY DEF Live
  <2> QED BY <1>1, <2>2, <2>3, Finite
<1>11. AcceptInv'
  <2> DEFINE n == Cardinality(Live)
             m == Cardinality(Live')
             r == IF idleFd THEN 1 ELSE 0
  <2>1. /\ n \in Nat /\ others \in Nat /\ MaxFds \in Nat /\ r \in Nat
        /\ m \in Nat /\ m <= n /\ others + r + n <= MaxFds
    BY <1>1, <1>10, ServerAssumption DEF ServerTypeOK, AcceptInv
  <2>2. UNCHANGED r
    BY <1>8
  <2> HIDE DEF n, m, r
  <2>3. others + r + m <= MaxFds
    BY <2>1
  <2>4. others' + (IF idleFd' THEN 1 ELSE 0) + Cardinality(Live') <= MaxFds
    BY <1>8, <2>2, <2>3 DEF r, m
  <2>5. nextConnId' + backlog' <= arrived' + 1
    BY <1>1, <1>2, <1>8 DEF AcceptInv
  <2>6. server' # "gone" /\ ~stolen' => idleFd'
    BY <1>1, <1>2, <1>8 DEF AcceptInv
  <2> QED BY <1>2, <1>8, <2>4, <2>5, <2>6 DEF AcceptInv
<1>12. ServerTypeOK'
  <2>1. /\ state' \in [Conns -> {"none", "kConnecting", "kConnected",
                                 "kDisconnecting", "kDisconnected"}]
        /\ added' \in [Conns -> BOOLEAN]
    BY <1>1, <1>2 DEF Destroyed
  <2> QED BY <1>1, <1>2, <1>4, <1>8, <2>1 DEF ServerTypeOK
<1> QED BY <1>6, <1>7, <1>9, <1>11, <1>12 DEF ServerInv

LEMMA ServerInitInv == ServerInit => ServerInv
<1> SUFFICES ASSUME ServerInit PROVE ServerInv
  OBVIOUS
<1>1. /\ Base \in Loops /\ 0 \in 0 .. MaxThreads /\ 1 \in 1 .. MaxClients + 1
      /\ 0 \in 0 .. MaxClients /\ 0 \in 0 .. MaxFds /\ MaxFds >= 1
      /\ <<>> \in Seq(Functor)
  BY ServerAssumption DEF Base, Loops
<1>2. ServerTypeOK
  <2>1. /\ ioLoop \in [Conns -> Loops] /\ functors \in [Loops -> Seq(Functor)]
        /\ state \in [Conns -> {"none", "kConnecting", "kConnected",
                                "kDisconnecting", "kDisconnected"}]
        /\ added \in [Conns -> BOOLEAN]
    BY <1>1 DEF ServerInit
  <2>2. started \in BOOLEAN /\ idleFd \in BOOLEAN /\ stolen \in BOOLEAN
    BY Zenon DEF ServerInit
  <2> QED BY <1>1, <2>1, <2>2 DEF ServerInit, ServerTypeOK
<1>3. \A l \in Loops : functors[l] = <<>>
  BY DEF ServerInit
<1>4. \A l \in Loops : ToSet(functors[l]) = {} /\ InOrder(functors[l])
  <2>1. DOMAIN <<>> = {}
    OBVIOUS
  <2>2. ToSet(<<>>) = {} /\ InOrder(<<>>)
    BY <2>1 DEF ToSet, InOrder
  <2> QED BY <1>3, <2>2
<1>5. QueuesInv
  BY <1>4 DEF QueuesInv
<1>6. ASSUME NEW c \in Conns
      PROVE  ConnInv(c)
  <2>1. /\ ioLoop[c] = Base /\ state[c] = "none" /\ ~added[c]
        /\ c \notin connections
    BY DEF ServerInit
  <2>2. ~Est(c) /\ ~Rem(c) /\ ~Des(c)
    BY <1>1, <1>4, <2>1 DEF Est, Rem, Des
  <2>3. c >= nextConnId /\ ~(c < nextConnId)
    BY DEF ServerInit, Conns
  <2> QED BY <2>1, <2>2, <2>3 DEF ConnInv
<1>7. nextConnId - 1 = 0 /\ 1 .. nextConnId - 1 = {}
  BY DEF ServerInit
<1>8. LoopsInv
  BY <1>7 DEF ServerInit, LoopsInv
<1>9. RoundInv
  BY DEF ServerInit, RoundInv
<1>10. Cardinality(Live) = 0
  <2>1. \A c \in Conns : ~Referenced(c)
    BY <1>4 DEF ServerInit, Referenced
  <2>2. Live = {}
    BY <2>1 DEF Live
  <2> QED BY <2>2, FS_EmptySet
<1>11. AcceptInv
  <2>1. others + (IF idleFd THEN 1 ELSE 0) + Cardinality(Live) = 1
    BY <1>10 DEF ServerInit
  <2> QED BY <1>1, <1>10, <2>1 DEF ServerInit, AcceptInv
<1> QED BY <1>2, <1>5, <1>6, <1>8, <1>9, <1>11 DEF ServerInv

LEMMA ServerStep == ServerInv /\ [ServerNext]_serverVars => ServerInv'
<1> SUFFICES ASSUME ServerInv, [ServerNext]_serverVars PROVE ServerInv'
  OBVIOUS
<1>1. CASE \/ \E n \in 0 .. MaxThreads : SetThreadNum(n)
           \/ Start \/ Dying
  BY <1>1, LoopsKeep
<1>2. CASE \/ Arrive \/ Leave \/ OthersOpen \/ OthersClose \/ NoDescriptor
           \/ CloseIdle \/ AcceptIdle \/ DropIdle \/ OpenIdle
  BY <1>2, AcceptKeeps
<1>3. CASE NewConnection
  BY <1>3, NewConnectionKeeps
<1>4. CASE \E c \in Conns : Shutdown(c) \/ HandleClose(c)
  BY <1>4, ShutdownKeeps, HandleCloseKeeps
<1>5. CASE \E l \in Loops : RunFunctor(l)
  BY <1>5, RunEstablishedKeeps, RunRemoveKeeps, RunDestroyedKeeps DEF RunFunctor
<1>6. CASE Destroy
  BY <1>6, DestroyKeeps
<1>7. CASE UNCHANGED serverVars
  <2>1. /\ UNCHANGED <<connVars, poolVars>> /\ UNCHANGED acceptVars
        /\ UNCHANGED <<server, nextConnId>>
    BY <1>7 DEF serverVars, connVars, poolVars, acceptVars
  <2>2. /\ QueuesInv' /\ (\A c \in Conns : ConnInv(c)') /\ LoopsInv'
        /\ RoundInv'
        /\ Live' = Live
    BY <2>1, ConnsSame
  <2>3. Cardinality(Live) \in Nat
    <3>1. Live \in SUBSET Conns /\ ServerTypeOK
      BY DEF Live, ServerInv
    <3> QED BY <3>1, Finite
  <2>4. Cardinality(Live') \in Nat /\ Cardinality(Live') <= Cardinality(Live)
    BY <2>2, <2>3
  <2>5. AcceptInv'
    BY <2>1, <2>4, AcceptSame
  <2>6. ServerTypeOK'
    BY <1>7 DEF ServerInv, ServerTypeOK, serverVars
  <2> QED BY <2>2, <2>5, <2>6 DEF ServerInv
<1> QED BY <1>1, <1>2, <1>3, <1>4, <1>5, <1>6, <1>7 DEF ServerNext, HandleRead

LEMMA ServerInvSound == ServerInv => ConnectionsSound
<1> SUFFICES ASSUME ServerInv PROVE ConnectionsSound
  OBVIOUS
<1>1. /\ ServerTypeOK /\ QueuesInv /\ LoopsInv /\ RoundInv /\ AcceptInv
      /\ \A d \in Conns : ConnInv(d)
      /\ Base \in Loops /\ ioLoop \in [Conns -> Loops]
      /\ functors \in [Loops -> Seq(Functor)]
      /\ numThreads \in Nat /\ nextConnId \in Nat
      /\ 1 .. nextConnId - 1 \subseteq Conns
      /\ \A c \in 1 .. nextConnId - 1 : c < nextConnId
  BY ServerAssumption DEF ServerInv, ServerTypeOK, Loops, Base, Conns
<1>2. LoopsBalanced
  <2>1. ASSUME NEW k \in GetAllLoops, NEW l \in GetAllLoops
        PROVE  Cardinality(OnLoop(k)) - Cardinality(OnLoop(l)) \in -1 .. 1
    <3>1. CASE numThreads = 0
      <4>1. k = l
        BY <2>1, <3>1 DEF GetAllLoops
      <4>2. OnLoop(k) \in SUBSET Conns
        BY <1>1 DEF OnLoop
      <4>3. Cardinality(OnLoop(k)) \in Nat
        BY <1>1, <4>2, Finite
      <4> QED BY <4>1, <4>3
    <3>2. CASE numThreads # 0
      <4>1. PICK n \in Nat : \A j \in 1 .. numThreads :
              Cardinality(OnLoop(j)) = IF j <= next THEN n + 1 ELSE n
        BY <1>1 DEF RoundInv
      <4>2. k \in 1 .. numThreads /\ l \in 1 .. numThreads
        BY <2>1, <3>2 DEF GetAllLoops
      <4> QED BY <4>1, <4>2
    <3> QED BY <3>1, <3>2
  <2>2. ASSUME NEW h \in 0 .. 2 * MaxThreads
        PROVE  GetLoopForHash(h) \in GetAllLoops
    <3>1. CASE numThreads = 0
      BY <3>1 DEF GetLoopForHash, GetAllLoops
    <3>2. CASE numThreads # 0
      <4>1. h \in Int
        BY ServerAssumption
      <4>2. h % numThreads \in 0 .. numThreads - 1
        BY <1>1, <3>2, <4>1
      <4>3. (h % numThreads) + 1 \in 1 .. numThreads
        BY <1>1, <4>2
      <4> QED BY <3>2, <4>3 DEF GetLoopForHash, GetAllLoops
    <3> QED BY <3>1, <3>2
  <2>3. \A c \in 1 .. nextConnId - 1 : ioLoop[c] \in GetAllLoops
    BY <1>1 DEF LoopsInv
  <2> QED BY <2>1, <2>2, <2>3 DEF LoopsBalanced, OnLoop
<1>3. FunctorsFit
  <2> SUFFICES ASSUME NEW l \in Loops \ exited, functors[l] # <<>>
               PROVE  LET f == Head(functors[l])
                          c == f[2]
                      IN  CASE f[1] = "connectEstablished" ->
                                 state[c] = "kConnecting"
                            [] f[1] = "removeConnectionInLoop" ->
                                 server = "alive" => c \in connections
                            [] OTHER ->
                                 /\ added[c]
                                 /\ state[c] \in {"kConnected",
                                      "kDisconnecting", "kDisconnected"}
                                 /\ server = "alive" =>
                                      state[c] = "kDisconnected"
    BY DEF FunctorsFit
  <2> DEFINE q == functors[l]
  <2>1. q \in Seq(Functor) /\ q # <<>> /\ InOrder(q)
    BY <1>1 DEF QueuesInv
  <2> HIDE DEF q
  <2>2. /\ Head(q) \in Functor
        /\ ToSet(q) = ToSet(Tail(q)) \cup {Head(q)}
        /\ \A c \in Conns : Head(q) = <<"connectDestroyed", c>> =>
                              <<"connectEstablished", c>> \notin ToSet(q)
    BY <2>1, PopInOrder
  <2>3. PICK n \in {"connectEstablished", "removeConnectionInLoop",
                    "connectDestroyed"}, c \in Conns : Head(q) = <<n, c>>
    BY <2>2 DEF Functor
  <2>4. /\ Head(q)[1] = n /\ Head(q)[2] = c /\ ConnInv(c) /\ l \in Loops
        /\ <<n, c>> \in ToSet(functors[l])
    BY <1>1, <2>2, <2>3 DEF q
  <2>5. n = "connectEstablished" => state[c] = "kConnecting"
    BY <1>1, <2>4 DEF QueuesInv, Est, ConnInv
  <2>6. n = "removeConnectionInLoop" /\ server = "alive" => c \in connections
    BY <1>1, <2>4 DEF QueuesInv, Rem, ConnInv
  <2>7. n = "connectDestroyed" =>
          /\ added[c]
          /\ state[c] \in {"kConnected", "kDisconnecting", "kDisconnected"}
          /\ server = "alive" => state[c] = "kDisconnected"
    <3> HAVE n = "connectDestroyed"
    <3>1. l = ioLoop[c]
      BY <1>1, <2>4 DEF QueuesInv
    <3>2. Des(c) /\ ~Est(c)
      BY <2>2, <2>3, <2>4, <3>1 DEF Des, Est, q
    <3> QED BY <2>4, <3>2 DEF ConnInv
  <2> QED BY <2>3, <2>4, <2>5, <2>6, <2>7 DEF q
<1>4. NoneLeaked
  <2> SUFFICES ASSUME server = "alive" \/ numThreads = 0,
                      NEW c \in 1 .. nextConnId - 1
               PROVE  \/ Referenced(c)
                      \/ ~added[c] /\ state[c] = "kDisconnected"
                      \/ ~added[c] /\ state[c] = "kDisconnecting"
                           /\ server # "alive"
    BY DEF NoneLeaked
  <2>1. exited = {}
    BY <1>1 DEF ServerTypeOK, LoopsInv
  <2>2. c \in Conns /\ c < nextConnId /\ ConnInv(c) /\ ioLoop[c] \in Loops
    BY <1>1
  <2>3. CASE Des(c)
    <3>1. <<"connectDestroyed", c>> \in ToSet(functors[ioLoop[c]])
      BY <2>3 DEF Des
    <3>2. <<"connectDestroyed", c>>[2] = c
      OBVIOUS
    <3> QED BY <2>1, <2>2, <3>1, <3>2 DEF Referenced
  <2>4. CASE c \in connections
    BY <2>4 DEF Referenced
  <2> QED BY <2>2, <2>3, <2>4 DEF ConnInv
<1>5. DeadServerUnused
  <2> SUFFICES ASSUME numThreads = 0, NEW i \in DOMAIN functors[Base],
                      functors[Base][i][1] = "removeConnectionInLoop"
               PROVE  FALSE
    BY DEF DeadServerUnused
  <2>1. /\ functors[Base][i] \in Functor
        /\ functors[Base][i] \in ToSet(functors[Base])
    BY <1>1 DEF ToSet
  <2>2. PICK c \in Conns : functors[Base][i] = <<"removeConnectionInLoop", c>>
    BY <2>1 DEF Functor
  <2>3. Rem(c) /\ ioLoop[c] # Base
    BY <1>1, <2>1, <2>2 DEF Rem, QueuesInv
  <2>4. c \in Nat /\ state[c] = "kDisconnected" /\ c < nextConnId
    BY <1>1, <2>3 DEF ConnInv, Conns
  <2>5. c \in 1 .. nextConnId - 1
    BY <1>1, <2>4 DEF Conns
  <2>6. ioLoop[c] \in GetAllLoops
    BY <1>1, <2>5 DEF LoopsInv
  <2> QED BY <2>3, <2>6 DEF GetAllLoops
<1>6. ReserveKept
  BY <1>1 DEF AcceptInv, ReserveKept
<1> QED BY <1>2, <1>3, <1>4, <1>5, <1>6 DEF ConnectionsSound

\* Every reachable state of a TcpServer satisfies its inductive invariant: each
\* functor is queued once and in order, and the state of each connection,
\* half-closed ones included, agrees with what is queued for it.
THEOREM ServerInvariant == ServerSpec => []ServerInv
<1> QED BY ServerInitInv, ServerStep, PTL DEF ServerSpec

\* Round robin keeps the io loops even, each functor that crosses between the
\* loops finds what it asserts, no connection is lost, and the reserved
\* descriptor comes back, whatever the number of loops, clients and descriptors.
\* Only connections half-closed when their server dies are left kDisconnecting.
THEOREM ConnectionsAlwaysSound == ServerSpec => []ConnectionsSound
<1> QED BY ServerInvariant, ServerInvSound, PTL

-----------------------------------------------------------------------------
(* RpcChannel: the calls that are under way.                               *)

\* A frame of call c is under way, or a service works on it.
InFlight(c) ==
  \/ c \in serving
  \/ \E m \in ToSet(requests) : m.id = c
  \/ \E m \in ToSet(replies) : m.id = c

\* A thread is within CallMethod() of call c.
Calling(t, c) == callerAt[t] # "idle" /\ callerId[t] = c

\* What a thread is about to do fits the call, which is its own.
CallerInv(t) ==
  callerAt[t] # "idle" =>
    /\ callerId[t] \in 1 .. lastId
    /\ \A u \in Callers : Calling(u, callerId[t]) => u = t
    /\ ~InFlight(callerId[t])
    /\ fate[callerId[t]] = "none" /\ rpcConn # "gone"
    /\ callerAt[t] = "register" <=> callerId[t] \notin outstandings

\* Where a call has got to.
CallInv(c) ==
  /\ c > lastId => fate[c] = "none"
  /\ c \in outstandings => fate[c] = "none" /\ c <= lastId /\ rpcConn # "gone"
  /\ InFlight(c) => c <= lastId /\ rpcConn = "up"
  /\ fate[c] = "done" => services
  /\ fate[c] = "deleted" => rpcConn = "gone"
  /\ c <= lastId /\ (\A t \in Callers : ~Calling(t, c)) =>
       /\ c \notin outstandings => fate[c] # "none"
       /\ rpcConn = "up" /\ c \in outstandings => InFlight(c)

\* A RESPONSE without an error comes from a service.
ServedInv ==
  /\ serving # {} => services
  /\ \A m \in ToSet(replies) : m.error = "none" => services

RpcInv ==
  /\ RpcTypeOK /\ ServedInv
  /\ \A t \in Callers : CallerInv(t)
  /\ \A c \in CallIds : CallInv(c)

LEMMA ToSetAppend ==
  ASSUME NEW S, NEW s \in Seq(S), NEW e \in S
  PROVE  Append(s, e) \in Seq(S) /\ ToSet(Append(s, e)) = ToSet(s) \cup {e}
<1>1. /\ Append(s, e) \in Seq(S) /\ Len(s) \in Nat
      /\ Len(s) + 1 \in DOMAIN Append(s, e) /\ Append(s, e)[Len(s) + 1] = e
      /\ \A i \in DOMAIN s : i \in DOMAIN Append(s, e) /\ Append(s, e)[i] = s[i]
      /\ \A i \in DOMAIN Append(s, e) :
           \/ i \in DOMAIN s /\ Append(s, e)[i] = s[i]
           \/ Append(s, e)[i] = e
  OBVIOUS
<1> QED BY <1>1 DEF ToSet

LEMMA ToSetHeadTail ==
  ASSUME NEW S, NEW s \in Seq(S), s # <<>>
  PROVE  /\ Head(s) \in S /\ Tail(s) \in Seq(S)
         /\ ToSet(s) = ToSet(Tail(s)) \cup {Head(s)}
<1>1. /\ Tail(s) \in Seq(S) /\ Head(s) \in S
      /\ 1 \in DOMAIN s /\ Head(s) = s[1]
      /\ \A i \in DOMAIN Tail(s) : i + 1 \in DOMAIN s /\ Tail(s)[i] = s[i + 1]
      /\ \A i \in DOMAIN s :
           i = 1 \/ (i - 1 \in DOMAIN Tail(s) /\ Tail(s)[i - 1] = s[i])
  OBVIOUS
<1>2. \A i \in DOMAIN s : s[i] \in ToSet(Tail(s)) \cup {Head(s)}
  <2> SUFFICES ASSUME NEW i \in DOMAIN s
               PROVE  s[i] \in ToSet(Tail(s)) \cup {Head(s)}
    OBVIOUS
  <2>1. CASE i = 1
    BY <1>1, <2>1
  <2>2. CASE i - 1 \in DOMAIN Tail(s) /\ Tail(s)[i - 1] = s[i]
    BY <2>2 DEF ToSet
  <2> QED BY <1>1, <2>1, <2>2
<1>3. \A i \in DOMAIN Tail(s) : Tail(s)[i] \in ToSet(s)
  BY <1>1 DEF ToSet
<1>4. Head(s) \in ToSet(s)
  BY <1>1 DEF ToSet
<1> QED BY <1>1, <1>2, <1>3, <1>4 DEF ToSet

\* The facts about the types that the steps need.
LEMMA RpcTypes ==
  ASSUME RpcTypeOK
  PROVE  /\ lastId \in Nat /\ lastId <= MaxCalls /\ MaxCalls \in Nat
         /\ \A c \in CallIds : c \in Nat
         /\ \A c \in 1 .. lastId : c \in CallIds
BY RpcAssumption DEF RpcTypeOK, CallIds

\* What CallerInv asks of a thread and the call d it is within.
LEMMA CallerFits ==
  ASSUME NEW t \in Callers, NEW d, callerId[t] = d, d \in 1 .. lastId,
         \A u \in Callers : Calling(u, d) => u = t,
         ~InFlight(d), fate[d] = "none", rpcConn # "gone",
         callerAt[t] = "register" <=> d \notin outstandings
  PROVE  CallerInv(t)
BY DEF CallerInv

LEMMA CallerWithin ==
  ASSUME RpcTypeOK, NEW t \in Callers, CallerInv(t), callerAt[t] # "idle"
  PROVE  \E d \in CallIds :
           /\ callerId[t] = d /\ d \in 1 .. lastId
           /\ \A u \in Callers : Calling(u, d) => u = t
           /\ ~InFlight(d) /\ fate[d] = "none" /\ rpcConn # "gone"
           /\ callerAt[t] = "register" <=> d \notin outstandings
BY RpcTypes DEF CallerInv

LEMMA RpcInitInv == RpcInit => RpcInv
<1> SUFFICES ASSUME RpcInit PROVE RpcInv
  OBVIOUS
<1>1. ToSet(requests) = {} /\ ToSet(replies) = {}
  <2>1. DOMAIN <<>> = {}
    OBVIOUS
  <2> QED BY <2>1 DEF RpcInit, ToSet
<1>2. RpcTypeOK
  BY RpcAssumption DEF RpcInit, RpcTypeOK
<1>3. ServedInv
  BY <1>1 DEF RpcInit, ServedInv
<1>4. \A t \in Callers : CallerInv(t)
  BY DEF RpcInit, CallerInv
<1>5. \A c \in CallIds : CallInv(c)
  BY <1>1 DEF RpcInit, CallInv, InFlight, CallIds
<1> QED BY <1>2, <1>3, <1>4, <1>5 DEF RpcInv

\* incrementAndGet() gives the thread a call of its own.
LEMMA CallMethodKeeps ==
  ASSUME RpcInv, NEW t \in Callers, CallMethod(t)
  PROVE  RpcInv'
<1>1. /\ RpcTypeOK /\ ServedInv
      /\ \A u \in Callers : CallerInv(u)
      /\ \A c \in CallIds : CallInv(c)
      /\ lastId \in Nat /\ lastId < MaxCalls /\ MaxCalls \in Nat
      /\ callerAt \in [Callers -> {"idle", "register", "send"}]
      /\ callerId \in [Callers -> 0 .. MaxCalls]
  BY RpcTypes DEF RpcInv, CallMethod, RpcTypeOK
<1>2. PICK n \in CallIds : n = lastId + 1
  BY <1>1 DEF CallIds
<1>3. /\ callerAt[t] = "idle" /\ rpcConn # "gone" /\ lastId' = n
      /\ callerId' = [callerId EXCEPT ![t] = n]
      /\ callerAt' = [callerAt EXCEPT ![t] = "register"]
      /\ UNCHANGED <<outstandings, fate, rpcConn, requests, replies, serving,
                     services>>
  BY <1>2 DEF CallMethod, CallSteps
<1>4. /\ n \in Nat /\ n > lastId /\ fate[n] = "none" /\ n \notin outstandings
      /\ ~InFlight(n)
  BY <1>1, <1>2 DEF CallInv, CallIds
<1>5. \A c \in CallIds : InFlight(c)' <=> InFlight(c)
  BY <1>3 DEF InFlight
<1>6. RpcTypeOK' /\ ServedInv'
  <2>1. lastId' \in 0 .. MaxCalls
    BY <1>1, <1>2, <1>3
  <2>2. /\ callerAt' \in [Callers -> {"idle", "register", "send"}]
        /\ callerId' \in [Callers -> 0 .. MaxCalls]
    BY <1>1, <1>2, <1>3 DEF CallIds
  <2> QED BY <1>1, <1>3, <2>1, <2>2 DEF RpcTypeOK, ServedInv
<1>7. /\ callerAt'[t] = "register" /\ callerId'[t] = n
      /\ \A u \in Callers : u # t =>
           callerAt'[u] = callerAt[u] /\ callerId'[u] = callerId[u]
  BY <1>1, <1>3
<1>8. ASSUME NEW u \in Callers, u # t, callerAt[u] # "idle"
      PROVE  /\ callerId[u] \in 1 .. lastId /\ callerId[u] # n
             /\ callerId[u] \in CallIds
  BY <1>1, <1>2, <1>4, <1>8, RpcTypes DEF CallerInv
<1>9. ASSUME NEW u \in Callers
      PROVE  CallerInv(u)'
  <2>1. CASE u = t
    <3>1. \A v \in Callers : Calling(v, n)' => v = t
      BY <1>7, <1>8 DEF Calling
    <3>2. /\ callerAt'[u] = "register" /\ callerId'[u] = n /\ n \in 1 .. lastId'
          /\ ~InFlight(n)' /\ fate'[n] = "none" /\ rpcConn' # "gone"
          /\ n \notin outstandings'
      <4>1. n \in 1 .. lastId'
        BY <1>1, <1>2, <1>3
      <4> QED BY <1>3, <1>4, <1>5, <1>7, <2>1, <4>1
    <3> QED BY <2>1, <3>1, <3>2 DEF CallerInv, Calling, InFlight
  <2>2. CASE u # t /\ callerAt[u] # "idle"
    <3>1. PICK d \in CallIds :
            /\ callerId[u] = d /\ d \in 1 .. lastId
            /\ \A v \in Callers : Calling(v, d) => v = u
            /\ ~InFlight(d) /\ fate[d] = "none" /\ rpcConn # "gone"
            /\ callerAt[u] = "register" <=> d \notin outstandings
      BY <1>1, <2>2, CallerWithin
    <3>2. \A v \in Callers : Calling(v, d)' => v = u
      BY <1>2, <1>7, <1>8, <2>2, <3>1 DEF Calling
    <3>3. d \in 1 .. lastId' /\ ~InFlight(d)'
      BY <1>1, <1>2, <1>3, <1>5, <3>1
    <3>4. callerId'[u] = d /\ callerAt'[u] = callerAt[u]
      BY <1>7, <2>2, <3>1
    <3> QED BY <1>3, <3>1, <3>2, <3>3, <3>4 DEF CallerInv, Calling, InFlight
  <2>3. CASE u # t /\ callerAt[u] = "idle"
    BY <1>7, <2>3 DEF CallerInv
  <2> QED BY <2>1, <2>2, <2>3
<1>10. ASSUME NEW c \in CallIds
       PROVE  CallInv(c)'
  <2>1. c \in Nat /\ CallInv(c) /\ (InFlight(c)' <=> InFlight(c))
    BY <1>1, <1>5 DEF CallIds
  <2>2. c # n => \A u \in Callers : Calling(u, c) => Calling(u, c)'
    BY <1>3, <1>7 DEF Calling
  <2>3. c = n => ~(\A u \in Callers : ~Calling(u, c)')
    BY <1>7 DEF Calling
  <2>4. /\ c > lastId' => c > lastId
        /\ c <= lastId => c <= lastId'
        /\ c <= lastId' /\ c # n => c <= lastId
    BY <1>1, <1>2, <1>3, <2>1
  <2> QED BY <1>3, <2>1, <2>2, <2>3, <2>4 DEF CallInv
<1> QED BY <1>6, <1>9, <1>10 DEF RpcInv

\* RegisterCall(t) or SendRequest(t): the thread goes on with its own call.
LEMMA CallerStepKeeps ==
  ASSUME RpcInv, NEW t \in Callers, RegisterCall(t) \/ SendRequest(t)
  PROVE  RpcInv'
<1>1. /\ RpcTypeOK /\ ServedInv
      /\ \A u \in Callers : CallerInv(u)
      /\ \A c \in CallIds : CallInv(c)
      /\ lastId \in Nat /\ lastId <= MaxCalls /\ MaxCalls \in Nat
      /\ callerAt \in [Callers -> {"idle", "register", "send"}]
      /\ callerId \in [Callers -> 0 .. MaxCalls]
      /\ requests \in Seq([id : CallIds, kind : RequestKinds])
  BY RpcTypes DEF RpcInv, RpcTypeOK
<1>2. callerAt[t] # "idle"
  BY DEF RegisterCall, SendRequest
<1>3. callerId[t] \in CallIds
  BY <1>1, <1>2, RpcTypes DEF CallerInv
<1>4. PICK c \in CallIds : c = callerId[t]
  BY <1>3
<1>5. /\ c \in 1 .. lastId /\ fate[c] = "none" /\ rpcConn # "gone"
      /\ ~InFlight(c)
      /\ \A u \in Callers : Calling(u, c) => u = t
      /\ callerAt[t] = "register" <=> c \notin outstandings
  BY <1>1, <1>2, <1>4 DEF CallerInv
<1>6. ASSUME NEW u \in Callers, u # t
      PROVE  callerAt[u] # "idle" => callerId[u] # c /\ callerId[u] \in CallIds
  BY <1>1, <1>5, <1>6, RpcTypes DEF Calling, CallerInv
<1>7. UNCHANGED <<lastId, callerId, fate, rpcConn, replies, serving, services>>
  BY DEF RegisterCall, SendRequest
<1>8. CASE RegisterCall(t)
  <2>1. /\ callerAt[t] = "register"
        /\ outstandings' = outstandings \cup {c}
        /\ callerAt' = [callerAt EXCEPT ![t] = "send"]
        /\ requests' = requests
    BY <1>4, <1>8 DEF RegisterCall, NextStep, CallSteps
  <2>2. RpcTypeOK' /\ ServedInv'
    <3>1. /\ callerAt' \in [Callers -> {"idle", "register", "send"}]
          /\ outstandings' \subseteq CallIds
      BY <1>1, <2>1 DEF RpcTypeOK
    <3> QED BY <1>1, <1>7, <2>1, <3>1 DEF RpcTypeOK, ServedInv
  <2>3. \A d \in CallIds : InFlight(d)' <=> InFlight(d)
    BY <1>7, <2>1 DEF InFlight
  <2>4. /\ callerAt'[t] = "send"
        /\ \A u \in Callers : u # t => callerAt'[u] = callerAt[u]
    BY <1>1, <2>1
  <2>5. \A u \in Callers, d \in CallIds : Calling(u, d)' <=> Calling(u, d)
    BY <1>2, <1>7, <2>4 DEF Calling
  <2>6. ASSUME NEW u \in Callers
        PROVE  CallerInv(u)'
    <3>1. CASE callerAt[u] = "idle"
      BY <1>2, <2>4, <3>1 DEF CallerInv
    <3>2. CASE callerAt[u] # "idle"
      <4>1. PICK d \in CallIds :
              /\ callerId[u] = d /\ d \in 1 .. lastId
              /\ \A v \in Callers : Calling(v, d) => v = u
              /\ ~InFlight(d) /\ fate[d] = "none" /\ rpcConn # "gone"
              /\ callerAt[u] = "register" <=> d \notin outstandings
        BY <1>1, <3>2, CallerWithin
      <4>2. (\A v \in Callers : Calling(v, d)' => v = u) /\ ~InFlight(d)'
        BY <2>3, <2>5, <4>1
      <4>3. callerAt'[u] = "register" <=> d \notin outstandings'
        BY <1>4, <1>6, <2>1, <2>4, <3>2, <4>1
      <4> QED BY <1>7, <4>1, <4>2, <4>3 DEF CallerInv, Calling, InFlight
    <3> QED BY <3>1, <3>2
  <2>7. ASSUME NEW d \in CallIds
        PROVE  CallInv(d)'
    <3>1. CallInv(d) /\ (InFlight(d)' <=> InFlight(d))
      BY <1>1, <2>3
    <3>2. \A u \in Callers : Calling(u, d)' <=> Calling(u, d)
      BY <2>5
    <3>3. d # c => (d \in outstandings' <=> d \in outstandings)
      BY <2>1
    <3>4. CASE d # c
      BY <1>7, <3>1, <3>2, <3>3, <3>4 DEF CallInv
    <3>5. CASE d = c
      <4>1. Calling(t, d)
        BY <1>2, <1>4, <3>5 DEF Calling
      <4>2. d <= lastId /\ ~(d > lastId)
        BY <1>1, <1>5, <3>5
      <4> QED BY <1>5, <1>7, <3>1, <3>2, <3>5, <4>1, <4>2 DEF CallInv
    <3> QED BY <3>4, <3>5
  <2> QED BY <2>2, <2>6, <2>7 DEF RpcInv
<1>9. CASE SendRequest(t)
  <2>1. /\ callerAt[t] = "send"
        /\ outstandings' = outstandings
        /\ callerAt' = [callerAt EXCEPT ![t] = "idle"]
    BY <1>9 DEF SendRequest, NextStep, CallSteps
  <2>2. /\ requests' \in Seq([id : CallIds, kind : RequestKinds])
        /\ \A d \in CallIds : d # c => (InFlight(d)' <=> InFlight(d))
        /\ InFlight(c)' <=> rpcConn = "up"
    <3>1. CASE rpcConn = "up"
      <4>1. PICK k \in RequestKinds :
              requests' = Append(requests, [id |-> c, kind |-> k])
        BY <1>4, <1>9, <3>1 DEF SendRequest
      <4> DEFINE m == [id |-> c, kind |-> k]
      <4>2. m \in [id : CallIds, kind : RequestKinds] /\ m.id = c
        OBVIOUS
      <4> HIDE DEF m
      <4>3. requests' = Append(requests, m)
        BY <4>1 DEF m
      <4>4. /\ Append(requests, m) \in Seq([id : CallIds, kind : RequestKinds])
            /\ ToSet(Append(requests, m)) = ToSet(requests) \cup {m}
        <5> DEFINE R == [id : CallIds, kind : RequestKinds]
        <5>1. requests \in Seq(R) /\ m \in R
          BY <1>1, <4>2
        <5> HIDE DEF R
        <5>2. /\ Append(requests, m) \in Seq(R)
              /\ ToSet(Append(requests, m)) = ToSet(requests) \cup {m}
          BY <5>1, ToSetAppend
        <5> QED BY <5>2 DEF R
      <4> QED BY <1>7, <3>1, <4>2, <4>3, <4>4 DEF InFlight
    <3>2. CASE rpcConn # "up"
      <4>1. requests' = requests
        BY <1>9, <3>2 DEF SendRequest
      <4> QED BY <1>1, <1>5, <1>7, <3>2, <4>1 DEF InFlight
    <3> QED BY <3>1, <3>2
  <2>3. RpcTypeOK' /\ ServedInv'
    <3>1. callerAt' \in [Callers -> {"idle", "register", "send"}]
      BY <1>1, <2>1
    <3> QED BY <1>1, <1>7, <2>1, <2>2, <3>1 DEF RpcTypeOK, ServedInv
  <2>4. /\ callerAt'[t] = "idle"
        /\ \A u \in Callers : u # t => callerAt'[u] = callerAt[u]
    BY <1>1, <2>1
  <2>5. /\ \A u \in Callers : ~Calling(u, c)'
        /\ \A u \in Callers, d \in CallIds :
             d # c => (Calling(u, d)' <=> Calling(u, d))
    BY <1>4, <1>5, <1>7, <2>4 DEF Calling
  <2>6. ASSUME NEW u \in Callers
        PROVE  CallerInv(u)'
    <3>1. CASE callerAt'[u] = "idle"
      BY <3>1 DEF CallerInv
    <3>2. CASE callerAt'[u] # "idle"
      <4>1. u # t /\ callerAt[u] # "idle" /\ callerAt'[u] = callerAt[u]
        BY <2>4, <3>2
      <4>2. PICK d \in CallIds :
              /\ callerId[u] = d /\ d \in 1 .. lastId
              /\ \A v \in Callers : Calling(v, d) => v = u
              /\ ~InFlight(d) /\ fate[d] = "none" /\ rpcConn # "gone"
              /\ callerAt[u] = "register" <=> d \notin outstandings
        BY <1>1, <4>1, CallerWithin
      <4>3. d # c
        BY <1>6, <4>1, <4>2
      <4>4. (\A v \in Callers : Calling(v, d)' => v = u) /\ ~InFlight(d)'
        BY <2>2, <2>5, <4>2, <4>3
      <4> QED BY <1>7, <2>1, <4>1, <4>2, <4>4 DEF CallerInv, Calling, InFlight
    <3> QED BY <3>1, <3>2
  <2>7. ASSUME NEW d \in CallIds
        PROVE  CallInv(d)'
    <3>1. CallInv(d)
      BY <1>1
    <3>2. CASE d # c
      <4>1. /\ InFlight(d)' <=> InFlight(d)
            /\ \A u \in Callers : Calling(u, d)' <=> Calling(u, d)
        BY <2>2, <2>5, <3>2
      <4> QED BY <1>7, <2>1, <3>1, <4>1 DEF CallInv
    <3>3. CASE d = c
      <4>1. d \in outstandings /\ d <= lastId /\ ~(d > lastId)
        BY <1>1, <1>5, <2>1, <3>3
      <4>2. InFlight(d)' <=> rpcConn = "up"
        BY <2>2, <3>3
      <4> QED BY <1>5, <1>7, <2>1, <3>1, <3>3, <4>1, <4>2 DEF CallInv
    <3> QED BY <3>2, <3>3
  <2> QED BY <2>3, <2>6, <2>7 DEF RpcInv
<1> QED BY <1>8, <1>9

\* No thread is within a call that a step of the connection changes.
LEMMA CallersKeep ==
  ASSUME RpcInv, UNCHANGED <<lastId, callerAt, callerId>>,
         \A c \in CallIds : InFlight(c)' => InFlight(c),
         rpcConn' = "gone" => \A t \in Callers : callerAt[t] = "idle",
         \A c \in CallIds : (\E t \in Callers : Calling(t, c)) =>
           fate'[c] = fate[c] /\ (c \in outstandings' <=> c \in outstandings)
  PROVE  \A t \in Callers : CallerInv(t)'
<1> SUFFICES ASSUME NEW t \in Callers, callerAt[t] # "idle"
             PROVE  CallerInv(t)'
  BY DEF CallerInv
<1>1. PICK d \in CallIds :
        /\ callerId[t] = d /\ d \in 1 .. lastId
        /\ \A u \in Callers : Calling(u, d) => u = t
        /\ ~InFlight(d) /\ fate[d] = "none" /\ rpcConn # "gone"
        /\ callerAt[t] = "register" <=> d \notin outstandings
  BY CallerWithin DEF RpcInv
<1>2. Calling(t, d) /\ ~InFlight(d)' /\ rpcConn' # "gone"
  BY <1>1 DEF Calling
<1>3. fate'[d] = fate[d] /\ (d \in outstandings' <=> d \in outstandings)
  BY <1>2
<1>4. \A u \in Callers : Calling(u, d)' => u = t
  BY <1>1 DEF Calling
<1> QED BY <1>1, <1>2, <1>3, <1>4 DEF CallerInv, Calling, InFlight

\* The answer finds its call, once.
LEMMA OnResponseKeeps ==
  ASSUME RpcInv, OnResponse
  PROVE  RpcInv'
<1>1. /\ RpcTypeOK /\ ServedInv
      /\ \A u \in Callers : CallerInv(u)
      /\ \A c \in CallIds : CallInv(c)
      /\ fate \in [CallIds -> {"none", "done", "failed", "deleted"}]
      /\ outstandings \subseteq CallIds
      /\ replies \in Seq([id : CallIds, error : ErrorCodes])
  BY DEF RpcInv, RpcTypeOK
<1>2. /\ replies # <<>> /\ replies' = Tail(replies)
      /\ IF Head(replies).id \in outstandings
           THEN /\ outstandings' = outstandings \ {Head(replies).id}
                /\ fate' = [fate EXCEPT ![Head(replies).id] =
                     IF Head(replies).error = "none" THEN "done" ELSE "failed"]
           ELSE UNCHANGED <<outstandings, fate>>
      /\ UNCHANGED <<lastId, callerAt, callerId, rpcConn, requests, serving,
                     services>>
  BY DEF OnResponse
<1>3. /\ Head(replies) \in [id : CallIds, error : ErrorCodes]
      /\ Tail(replies) \in Seq([id : CallIds, error : ErrorCodes])
      /\ ToSet(replies) = ToSet(Tail(replies)) \cup {Head(replies)}
  BY <1>1, <1>2, ToSetHeadTail
<1>4. PICK r \in [id : CallIds, error : ErrorCodes] : r = Head(replies)
  BY <1>3
<1>5. PICK c \in CallIds : c = r.id
  OBVIOUS
<1>6. /\ replies' \in Seq([id : CallIds, error : ErrorCodes])
      /\ ToSet(replies) = ToSet(replies') \cup {r}
      /\ \/ /\ c \in outstandings /\ outstandings' = outstandings \ {c}
            /\ fate' = [fate EXCEPT ![c] =
                          IF r.error = "none" THEN "done" ELSE "failed"]
         \/ c \notin outstandings /\ UNCHANGED <<outstandings, fate>>
  BY <1>2, <1>3, <1>4, <1>5
<1>7. InFlight(c)
  BY <1>5, <1>6 DEF InFlight
<1>8. \A d \in CallIds : InFlight(d)' => InFlight(d)
  BY <1>2, <1>6 DEF InFlight
<1>9. \A d \in CallIds : d # c => (InFlight(d) => InFlight(d)')
  BY <1>2, <1>5, <1>6 DEF InFlight
<1>10. \A t \in Callers : ~Calling(t, c)
  BY <1>1, <1>7 DEF CallerInv, Calling
<1>11. /\ rpcConn = "up" /\ c <= lastId /\ ~(c > lastId)
       /\ r.error = "none" => services
       /\ fate[c] # "deleted"
  <2>1. rpcConn = "up" /\ c <= lastId /\ fate[c] # "deleted"
    BY <1>1, <1>7 DEF CallInv
  <2>2. c \in Nat /\ lastId \in Nat
    BY <1>1, RpcTypes
  <2> QED BY <1>1, <1>6, <2>1, <2>2 DEF ServedInv
<1>12. \A d \in CallIds : d # c =>
         fate'[d] = fate[d] /\ (d \in outstandings' <=> d \in outstandings)
  BY <1>1, <1>6
<1>13. /\ c \notin outstandings'
       /\ \/ fate'[c] = fate[c] /\ c \notin outstandings
          \/ fate'[c] = "done" /\ r.error = "none"
          \/ fate'[c] = "failed"
  BY <1>1, <1>6
<1>14. RpcTypeOK' /\ ServedInv'
  <2>1. /\ fate' \in [CallIds -> {"none", "done", "failed", "deleted"}]
        /\ outstandings' \subseteq CallIds
    BY <1>1, <1>6
  <2> QED BY <1>1, <1>2, <1>6, <2>1 DEF RpcTypeOK, ServedInv
<1>15. \A t \in Callers : CallerInv(t)'
  <2>1. \A d \in CallIds : (\E t \in Callers : Calling(t, d)) =>
          fate'[d] = fate[d] /\ (d \in outstandings' <=> d \in outstandings)
    BY <1>10, <1>12
  <2>2. rpcConn' # "gone" /\ UNCHANGED <<lastId, callerAt, callerId>>
    BY <1>2, <1>11
  <2> QED BY <1>8, <2>1, <2>2, CallersKeep
<1>16. ASSUME NEW d \in CallIds
       PROVE  CallInv(d)'
  <2>1. /\ CallInv(d)
        /\ UNCHANGED <<lastId, rpcConn, services, callerAt, callerId>>
    BY <1>1, <1>2
  <2>2. \A t \in Callers : Calling(t, d)' <=> Calling(t, d)
    BY <2>1 DEF Calling
  <2>3. CASE d # c
    <3>1. /\ fate'[d] = fate[d] /\ (d \in outstandings' <=> d \in outstandings)
          /\ InFlight(d)' <=> InFlight(d)
      BY <1>8, <1>9, <1>12, <2>3
    <3> QED BY <2>1, <2>2, <3>1 DEF CallInv
  <2>4. CASE d = c
    <3>1. c \notin outstandings => fate[c] # "none"
      BY <1>10, <1>11, <2>1, <2>4 DEF CallInv
    <3> QED BY <1>8, <1>11, <1>13, <2>1, <2>2, <2>4, <3>1 DEF CallInv
  <2> QED BY <2>3, <2>4
<1> QED BY <1>14, <1>15, <1>16 DEF RpcInv

\* ~RpcChannel() deletes the closures that are left.
LEMMA DestroyCallerKeeps ==
  ASSUME RpcInv, DestroyCaller
  PROVE  RpcInv'
<1>1. /\ RpcTypeOK /\ ServedInv
      /\ \A c \in CallIds : CallInv(c)
  BY DEF RpcInv
<1>2. /\ rpcConn = "down" /\ rpcConn' = "gone" /\ outstandings' = {}
      /\ \A t \in Callers : callerAt[t] = "idle"
      /\ fate' = [c \in CallIds |->
                    IF c \in outstandings THEN "deleted" ELSE fate[c]]
      /\ UNCHANGED <<lastId, callerAt, callerId, requests, replies, serving,
                     services>>
  BY DEF DestroyCaller
<1>3. RpcTypeOK' /\ ServedInv'
  <2>1. /\ fate' \in [CallIds -> {"none", "done", "failed", "deleted"}]
        /\ outstandings' \subseteq CallIds
    BY <1>1, <1>2 DEF RpcTypeOK
  <2> QED BY <1>1, <1>2, <2>1 DEF RpcTypeOK, ServedInv
<1>4. \A t \in Callers : CallerInv(t)'
  BY <1>2 DEF CallerInv
<1>5. ASSUME NEW c \in CallIds
      PROVE  CallInv(c)'
  <2>1. CallInv(c) /\ \A t \in Callers : ~Calling(t, c)
    BY <1>1, <1>2 DEF Calling
  <2>2. ~InFlight(c) /\ ~InFlight(c)'
    <3>1. ~InFlight(c)
      BY <1>2, <2>1 DEF CallInv
    <3> QED BY <1>2, <3>1 DEF InFlight
  <2>3. /\ c \in outstandings => fate'[c] = "deleted"
        /\ c \notin outstandings => fate'[c] = fate[c]
    BY <1>2
  <2>4. c \in Nat /\ lastId \in Nat
    BY <1>1, RpcTypes
  <2> QED BY <1>2, <2>1, <2>2, <2>3, <2>4 DEF CallInv
<1> QED BY <1>3, <1>4, <1>5 DEF RpcInv

\* The server passes a call on, or it is lost with its connection.
LEMMA ServingKeeps ==
  ASSUME RpcInv,
         OnRequest \/ ConnectionDown \/ \E id \in serving : DoneCallback(id)
  PROVE  RpcInv'
<1>1. /\ RpcTypeOK /\ ServedInv
      /\ \A c \in CallIds : CallInv(c)
      /\ requests \in Seq([id : CallIds, kind : RequestKinds])
      /\ replies \in Seq([id : CallIds, error : ErrorCodes])
      /\ serving \subseteq CallIds
  BY DEF RpcInv, RpcTypeOK
<1>2. UNCHANGED <<lastId, callerAt, callerId, outstandings, fate, services>>
  BY DEF OnRequest, ConnectionDown, DoneCallback
<1>3. ASSUME requests' \in Seq([id : CallIds, kind : RequestKinds]),
             replies' \in Seq([id : CallIds, error : ErrorCodes]),
             serving' \subseteq CallIds, rpcConn' \in {"up", "down", "gone"},
             ServedInv',
             rpcConn' = "gone" <=> rpcConn = "gone",
             rpcConn' = "up" => rpcConn = "up",
             \A c \in CallIds :
               /\ InFlight(c)' => InFlight(c) /\ rpcConn' = "up"
               /\ rpcConn' = "up" /\ InFlight(c) => InFlight(c)'
      PROVE  RpcInv'
  <2>1. RpcTypeOK'
    BY <1>1, <1>2, <1>3 DEF RpcTypeOK
  <2>2. \A t \in Callers : CallerInv(t)'
    <3>1. \A c \in CallIds : InFlight(c)' => InFlight(c)
      BY <1>3
    <3>2. rpcConn' = "gone" => \A t \in Callers : callerAt[t] = "idle"
      BY <1>3 DEF RpcInv, CallerInv
    <3> QED BY <1>2, <3>1, <3>2, CallersKeep
  <2>3. ASSUME NEW c \in CallIds PROVE CallInv(c)'
    <3>1. \A t \in Callers : Calling(t, c)' <=> Calling(t, c)
      BY <1>2 DEF Calling
    <3> QED BY <1>1, <1>2, <1>3, <3>1 DEF CallInv
  <2> QED BY <1>3, <2>1, <2>2, <2>3 DEF RpcInv
<1>4. CASE OnRequest
  <2>1. /\ requests # <<>> /\ requests' = Tail(requests)
        /\ IF services /\ Head(requests).kind = "good"
             THEN /\ serving' = serving \cup {Head(requests).id}
                  /\ UNCHANGED replies
             ELSE /\ replies' = Append(replies,
                       [id |-> Head(requests).id,
                        error |-> IF services THEN Head(requests).kind
                                  ELSE "NO_SERVICE"])
                  /\ UNCHANGED serving
        /\ UNCHANGED rpcConn
    BY <1>4 DEF OnRequest, Reply
  <2>2. /\ Head(requests) \in [id : CallIds, kind : RequestKinds]
        /\ requests' \in Seq([id : CallIds, kind : RequestKinds])
        /\ ToSet(requests) = ToSet(requests') \cup {Head(requests)}
    BY <1>1, <2>1, ToSetHeadTail
  <2>3. PICK r \in [id : CallIds, kind : RequestKinds] : r = Head(requests)
    BY <2>2
  <2>4. PICK c \in CallIds : c = r.id
    OBVIOUS
  <2>5. InFlight(c) /\ rpcConn = "up"
    <3>1. InFlight(c)
      BY <2>2, <2>3, <2>4 DEF InFlight
    <3> QED BY <1>1, <3>1 DEF CallInv
  <2>6. CASE services /\ r.kind = "good"
    <3>1. serving' = serving \cup {c} /\ replies' = replies
      BY <2>1, <2>3, <2>4, <2>6
    <3>2. ServedInv'
      BY <1>1, <1>2, <2>6, <3>1 DEF ServedInv
    <3>3. \A d \in CallIds : InFlight(d)' <=> InFlight(d)
      BY <2>2, <2>3, <2>4, <3>1 DEF InFlight
    <3> QED BY <1>1, <1>3, <2>1, <2>2, <2>5, <3>1, <3>2, <3>3 DEF RpcTypeOK
  <2>7. CASE ~(services /\ r.kind = "good")
    <3>1. PICK e \in ErrorCodes :
            e # "none" /\ replies' = Append(replies, [id |-> c, error |-> e])
      BY <2>1, <2>3, <2>4, <2>7 DEF RequestKinds, ErrorCodes
    <3>2. serving' = serving
      BY <2>1, <2>3, <2>7
    <3> DEFINE m == [id |-> c, error |-> e]
    <3>3. /\ m \in [id : CallIds, error : ErrorCodes] /\ m.id = c
          /\ m.error # "none"
      BY <3>1
    <3> HIDE DEF m
    <3>4. replies' = Append(replies, m)
      BY <3>1 DEF m
    <3>5. /\ replies' \in Seq([id : CallIds, error : ErrorCodes])
          /\ ToSet(replies') = ToSet(replies) \cup {m}
      <4>1. /\ Append(replies, m) \in Seq([id : CallIds, error : ErrorCodes])
            /\ ToSet(Append(replies, m)) = ToSet(replies) \cup {m}
        <5> DEFINE R == [id : CallIds, error : ErrorCodes]
        <5>1. replies \in Seq(R) /\ m \in R
          BY <1>1, <3>3
        <5> HIDE DEF R
        <5>2. /\ Append(replies, m) \in Seq(R)
              /\ ToSet(Append(replies, m)) = ToSet(replies) \cup {m}
          BY <5>1, ToSetAppend
        <5> QED BY <5>2 DEF R
      <4> QED BY <3>4, <4>1
    <3>6. ServedInv'
      BY <1>1, <1>2, <3>2, <3>3, <3>5 DEF ServedInv
    <3>7. \A d \in CallIds : InFlight(d)' <=> InFlight(d)
      BY <2>2, <2>3, <2>4, <3>2, <3>3, <3>5 DEF InFlight
    <3> QED BY <1>1, <1>3, <2>1, <2>2, <2>5, <3>2, <3>5, <3>6, <3>7
            DEF RpcTypeOK
  <2> QED BY <2>6, <2>7
<1>5. CASE ConnectionDown
  <2>1. /\ rpcConn = "up" /\ rpcConn' = "down"
        /\ requests' = <<>> /\ replies' = <<>> /\ serving' = {}
    BY <1>5 DEF ConnectionDown
  <2>2. ToSet(requests') = {} /\ ToSet(replies') = {}
    <3>1. DOMAIN <<>> = {}
      OBVIOUS
    <3> QED BY <2>1, <3>1 DEF ToSet
  <2>3. ServedInv' /\ \A c \in CallIds : ~InFlight(c)'
    BY <2>1, <2>2 DEF ServedInv, InFlight
  <2> QED BY <1>3, <2>1, <2>3
<1>6. CASE \E id \in serving : DoneCallback(id)
  <2>1. PICK c \in serving : DoneCallback(c)
    BY <1>6
  <2> DEFINE m == [id |-> c, error |-> "none"]
  <2>2. /\ c \in CallIds /\ serving' = serving \ {c} /\ services
        /\ UNCHANGED <<requests, rpcConn>>
        /\ m \in [id : CallIds, error : ErrorCodes] /\ m.id = c
        /\ replies' = Append(replies, m)
    BY <1>1, <2>1 DEF DoneCallback, Reply, ServedInv, ErrorCodes
  <2> HIDE DEF m
  <2>3. /\ replies' \in Seq([id : CallIds, error : ErrorCodes])
        /\ ToSet(replies') = ToSet(replies) \cup {m}
    <3>1. /\ Append(replies, m) \in Seq([id : CallIds, error : ErrorCodes])
          /\ ToSet(Append(replies, m)) = ToSet(replies) \cup {m}
      <4> DEFINE R == [id : CallIds, error : ErrorCodes]
      <4>1. replies \in Seq(R) /\ m \in R
        BY <1>1, <2>2
      <4> HIDE DEF R
      <4>2. /\ Append(replies, m) \in Seq(R)
            /\ ToSet(Append(replies, m)) = ToSet(replies) \cup {m}
        BY <4>1, ToSetAppend
      <4> QED BY <4>2 DEF R
    <3> QED BY <2>2, <3>1
  <2>4. ServedInv'
    BY <1>1, <1>2, <2>2, <2>3 DEF ServedInv
  <2>5. \A d \in CallIds : InFlight(d)' <=> InFlight(d)
    BY <2>1, <2>2, <2>3 DEF InFlight
  <2>6. InFlight(c) /\ rpcConn = "up"
    <3>1. InFlight(c)
      BY <2>1 DEF InFlight
    <3> QED BY <1>1, <2>2, <3>1 DEF CallInv
  <2> QED BY <1>1, <1>3, <2>2, <2>3, <2>4, <2>5, <2>6 DEF RpcTypeOK
<1> QED BY <1>4, <1>5, <1>6

LEMMA RpcStep == RpcInv /\ [RpcNext]_rpcVars => RpcInv'
<1> SUFFICES ASSUME RpcInv, [RpcNext]_rpcVars PROVE RpcInv'
  OBVIOUS
<1>1. CASE \E t \in Callers : CallMethod(t)
  BY <1>1, CallMethodKeeps
<1>2. CASE \E t \in Callers : RegisterCall(t) \/ SendRequest(t)
  BY <1>2, CallerStepKeeps
<1>3. CASE OnResponse
  BY <1>3, OnResponseKeeps
<1>4. CASE DestroyCaller
  BY <1>4, DestroyCallerKeeps
<1>5. CASE OnRequest \/ ConnectionDown \/ \E id \in serving : DoneCallback(id)
  BY <1>5, ServingKeeps
<1>6. CASE UNCHANGED rpcVars
  BY <1>6 DEF RpcInv, RpcTypeOK, ServedInv, CallerInv, CallInv, InFlight,
              Calling, rpcVars
<1> QED BY <1>1, <1>2, <1>3, <1>4, <1>5, <1>6 DEF RpcNext

LEMMA RpcInvRight == RpcInv => CallsRight
<1> SUFFICES ASSUME RpcInv, NEW c \in CallIds
             PROVE  /\ c \in outstandings => fate[c] = "none"
                    /\ Settled(c) /\ rpcConn = "up" =>
                         fate[c] \in {"done", "failed"}
                    /\ c <= lastId /\ rpcConn = "gone" => fate[c] # "none"
                    /\ fate[c] = "done" => services
  BY DEF CallsRight
<1>1. /\ CallInv(c)
      /\ fate[c] \in {"none", "done", "failed", "deleted"}
      /\ \A t \in Callers : CallerInv(t)
  BY DEF RpcInv, RpcTypeOK
<1>2. ASSUME Settled(c), rpcConn = "up"
      PROVE  fate[c] \in {"done", "failed"}
  <2>1. ~InFlight(c) /\ c <= lastId /\ \A t \in Callers : ~Calling(t, c)
    BY <1>2 DEF Settled, InFlight, Calling
  <2> QED BY <1>1, <1>2, <2>1 DEF CallInv
<1>3. ASSUME c <= lastId, rpcConn = "gone"
      PROVE  fate[c] # "none"
  <2>1. \A t \in Callers : ~Calling(t, c)
    BY <1>1, <1>3 DEF CallerInv, Calling
  <2> QED BY <1>1, <1>3, <2>1 DEF CallInv
<1> QED BY <1>1, <1>2, <1>3 DEF CallInv

\* Every reachable state of the two channels satisfies the inductive invariant.
THEOREM RpcInvariant == RpcSpec => []RpcInv
<1> QED BY RpcInitInv, RpcStep, PTL DEF RpcSpec

\* Each RESPONSE finds its call; a call that nothing is under way for has had
\* its done run, and its closure is run or deleted once, for any threads and
\* calls.
THEOREM CallsAlwaysRight == RpcSpec => []CallsRight
<1> QED BY RpcInvariant, RpcInvRight, PTL

-----------------------------------------------------------------------------
(* Poller: what both index_ of a channel say.                              *)

\* A descriptor is one channel's, and channels_ names that one or none.
OwnersInv ==
  /\ fd \in [Channels -> Fds \cup {Closed}]
  /\ events \in [Channels -> SUBSET Events]
  /\ channels \in [Fds -> Channels \cup {None}]
  /\ \A c, d \in Channels : fd[c] = fd[d] /\ fd[c] # Closed => c = d
  /\ \A f \in Fds : channels[f] # None => fd[channels[f]] = f

\* The epoll set has the descriptors of the channels that are kAdded.
EPollInv ==
  /\ epollIndex \in [Channels -> {"kNew", "kAdded", "kDeleted"}]
  /\ DOMAIN epollSet \subseteq Fds
  /\ \A c \in Channels :
       /\ Registered(c) <=> epollIndex[c] # "kNew"
       /\ Registered(c) /\ events[c] # {} => epollIndex[c] = "kAdded"
       /\ Registered(c) =>
            (epollIndex[c] = "kAdded" <=> fd[c] \in DOMAIN epollSet)
  /\ \A f \in DOMAIN epollSet :
       \E c \in Channels :
         /\ Registered(c) /\ fd[c] = f
         /\ epollSet[f] = [channel |-> c, events |-> events[c]]

\* pollfds_ has one entry for each registered channel, where its index_ says.
PollInv ==
  /\ pollIndex \in [Channels -> Nat]
  /\ pollfds \in Seq([fd : Int, events : SUBSET Events])
  /\ \A c \in Channels :
       /\ ~Registered(c) => pollIndex[c] = 0
       /\ Registered(c) =>
            /\ pollIndex[c] \in DOMAIN pollfds
            /\ pollfds[pollIndex[c]].fd \in {fd[c], Ignored(fd[c])}
            /\ events[c] # {} => pollfds[pollIndex[c]].fd = fd[c]
            /\ pollfds[pollIndex[c]].events = events[c]
  /\ \A c, d \in Channels :
       pollIndex[c] = pollIndex[d] /\ pollIndex[c] # 0 => c = d
  /\ \A i \in DOMAIN pollfds : \E c \in Channels : pollIndex[c] = i

PollersInv == OwnersInv /\ EPollInv /\ PollInv

\* What a step does to the epoll set.
LEMMA Asked ==
  ASSUME NEW c, NEW ev, EPollAsk(c, ev)
  PROVE  /\ DOMAIN epollSet' = DOMAIN epollSet \cup {fd[c]}
         /\ epollSet'[fd[c]] = [channel |-> c, events |-> ev]
         /\ \A g \in DOMAIN epollSet : g # fd[c] => epollSet'[g] = epollSet[g]
BY DEF EPollAsk

LEMMA Forgotten ==
  ASSUME NEW c, EPollForget(c)
  PROVE  /\ DOMAIN epollSet' = DOMAIN epollSet \ {fd[c]}
         /\ \A g \in DOMAIN epollSet : g # fd[c] => epollSet'[g] = epollSet[g]
BY DEF EPollForget, RestrictDomain, Restrict

LEMMA PollerInitInv == PollerInit => PollersInv
<1> SUFFICES ASSUME PollerInit PROVE PollersInv
  OBVIOUS
<1>1. \A c \in Channels : fd[c] = Closed /\ ~Registered(c)
  BY DEF PollerInit, Registered
<1>2. OwnersInv
  BY <1>1, PollerAssumption DEF PollerInit, OwnersInv
<1>3. EPollInv
  <2>1. DOMAIN epollSet = {}
    BY DEF PollerInit
  <2> QED BY <1>1, <2>1 DEF PollerInit, EPollInv
<1>4. PollInv
  <2>1. /\ DOMAIN pollfds = {}
        /\ pollfds \in Seq([fd : Int, events : SUBSET Events])
    BY DEF PollerInit
  <2>2. pollIndex \in [Channels -> Nat] /\ \A c \in Channels : pollIndex[c] = 0
    BY DEF PollerInit
  <2> QED BY <1>1, <2>1, <2>2 DEF PollInv
<1> QED BY <1>2, <1>3, <1>4 DEF PollersInv

\* A channel's descriptor, when it has one.
LEMMA OwnFd ==
  ASSUME OwnersInv, NEW c \in Channels, fd[c] # Closed
  PROVE  /\ fd[c] \in Fds /\ fd[c] \in Nat
         /\ channels[fd[c]] \in {None, c} /\ c # None
         /\ \A d \in Channels : d # c => fd[d] # fd[c]
<1>1. fd[c] \in Fds /\ fd[c] \in Nat /\ c # None
  BY PollerAssumption DEF OwnersInv, None
<1>2. channels[fd[c]] \in Channels \/ channels[fd[c]] = None
  BY <1>1 DEF OwnersInv
<1>3. \A d \in Channels : fd[d] = fd[c] => d = c
  BY DEF OwnersInv
<1>4. channels[fd[c]] # None => fd[channels[fd[c]]] = fd[c]
  BY <1>1 DEF OwnersInv
<1> QED BY <1>1, <1>2, <1>3, <1>4

\* updateChannel() registers the channel with what it wants now.
LEMMA UpdateOwners ==
  ASSUME PollersInv, NEW c \in Channels, NEW ev \in SUBSET Events, Update(c, ev)
  PROVE  /\ OwnersInv' /\ Registered(c)' /\ events'[c] = ev /\ fd' = fd
         /\ fd[c] # Closed
         /\ \A d \in Channels : d # c =>
              (Registered(d)' <=> Registered(d)) /\ events'[d] = events[d]
<1>1. /\ OwnersInv /\ fd[c] # Closed /\ fd' = fd
      /\ events' = [events EXCEPT ![c] = ev]
      /\ channels' = [channels EXCEPT ![fd[c]] = c]
  BY DEF Update, PollersInv
<1>2. /\ fd[c] \in Fds /\ channels[fd[c]] \in {None, c}
      /\ \A d \in Channels : d # c => fd[d] # fd[c]
  BY <1>1, OwnFd
<1>3. /\ fd \in [Channels -> Fds \cup {Closed}]
      /\ events \in [Channels -> SUBSET Events]
      /\ channels \in [Fds -> Channels \cup {None}]
  BY <1>1 DEF OwnersInv
<1>4. /\ events' \in [Channels -> SUBSET Events] /\ events'[c] = ev
      /\ channels' \in [Fds -> Channels \cup {None}] /\ channels'[fd[c]] = c
      /\ \A d \in Channels : d # c => events'[d] = events[d]
      /\ \A f \in Fds : f # fd[c] => channels'[f] = channels[f]
  BY <1>1, <1>2, <1>3
<1>5. Registered(c)'
  BY <1>1, <1>4 DEF Registered
<1>6. \A d \in Channels : d # c => (Registered(d)' <=> Registered(d))
  <2> SUFFICES ASSUME NEW d \in Channels, d # c
               PROVE  Registered(d)' <=> Registered(d)
    OBVIOUS
  <2>1. CASE fd[d] = Closed
    BY <1>1, <2>1 DEF Registered
  <2>2. CASE fd[d] # Closed
    <3>1. fd[d] \in Fds /\ fd[d] # fd[c]
      BY <1>2, <1>3, <2>2
    <3>2. channels'[fd[d]] = channels[fd[d]]
      BY <1>4, <3>1
    <3> QED BY <1>1, <3>2 DEF Registered
  <2> QED BY <2>1, <2>2
<1>7. OwnersInv'
  <2>1. \A f \in Fds : channels'[f] # None => fd'[channels'[f]] = f
    BY <1>1, <1>4 DEF OwnersInv
  <2> QED BY <1>1, <1>3, <1>4, <2>1 DEF OwnersInv
<1> QED BY <1>1, <1>4, <1>5, <1>6, <1>7

LEMMA UpdateEPoll ==
  ASSUME PollersInv, NEW c \in Channels, NEW ev \in SUBSET Events, Update(c, ev)
  PROVE  /\ EPollInv'
         /\ Registered(c) /\ events[c] # {} /\ ev = {} =>
              epollIndex'[c] = "kDeleted"
<1>1. /\ OwnersInv' /\ Registered(c)' /\ events'[c] = ev /\ fd' = fd
      /\ \A d \in Channels : d # c =>
           (Registered(d)' <=> Registered(d)) /\ events'[d] = events[d]
  BY UpdateOwners
<1>2. /\ OwnersInv /\ EPollInv /\ fd[c] # Closed /\ EPollUpdate(c, ev)
      /\ epollIndex \in [Channels -> {"kNew", "kAdded", "kDeleted"}]
  BY DEF PollersInv, Update, EPollInv
<1>3. /\ fd[c] \in Fds
      /\ \A d \in Channels : d # c => fd[d] # fd[c]
  BY <1>2, OwnFd
<1>4. Registered(c) /\ events[c] # {} => epollIndex[c] = "kAdded"
  BY <1>2 DEF EPollInv
<1>5. CASE epollIndex[c] = "kAdded" /\ ev = {}
  <2>1. epollIndex' = [epollIndex EXCEPT ![c] = "kDeleted"] /\ EPollForget(c)
    BY <1>2, <1>5 DEF EPollUpdate
  <2>2. /\ DOMAIN epollSet' = DOMAIN epollSet \ {fd[c]}
        /\ \A g \in DOMAIN epollSet : g # fd[c] => epollSet'[g] = epollSet[g]
    BY <2>1, Forgotten
  <2>3. /\ epollIndex' \in [Channels -> {"kNew", "kAdded", "kDeleted"}]
        /\ epollIndex'[c] = "kDeleted"
        /\ \A d \in Channels : d # c => epollIndex'[d] = epollIndex[d]
    BY <1>2, <2>1
  <2>4. ASSUME NEW d \in Channels
        PROVE  /\ Registered(d)' <=> epollIndex'[d] # "kNew"
               /\ Registered(d)' /\ events'[d] # {} => epollIndex'[d] = "kAdded"
               /\ Registered(d)' =>
                    (epollIndex'[d] = "kAdded" <=> fd'[d] \in DOMAIN epollSet')
    <3>1. CASE d = c
      BY <1>1, <1>5, <2>2, <2>3, <3>1
    <3>2. CASE d # c
      BY <1>1, <1>2, <1>3, <2>2, <2>3, <3>2 DEF EPollInv
    <3> QED BY <3>1, <3>2
  <2>5. ASSUME NEW f \in DOMAIN epollSet'
        PROVE  \E d \in Channels :
                 /\ Registered(d)' /\ fd'[d] = f
                 /\ epollSet'[f] = [channel |-> d, events |-> events'[d]]
    <3>1. f \in DOMAIN epollSet /\ f # fd[c] /\ epollSet'[f] = epollSet[f]
      BY <2>2
    <3>2. PICK d \in Channels :
            /\ Registered(d) /\ fd[d] = f
            /\ epollSet[f] = [channel |-> d, events |-> events[d]]
      BY <1>2, <3>1 DEF EPollInv
    <3>3. d # c
      BY <3>1, <3>2
    <3> QED BY <1>1, <3>1, <3>2, <3>3
  <2>6. DOMAIN epollSet' \subseteq Fds
    BY <1>2, <2>2 DEF EPollInv
  <2> QED BY <2>3, <2>4, <2>5, <2>6 DEF EPollInv
<1>6. CASE ~(epollIndex[c] = "kAdded" /\ ev = {})
  <2>1. epollIndex' = [epollIndex EXCEPT ![c] = "kAdded"] /\ EPollAsk(c, ev)
    BY <1>2, <1>6 DEF EPollUpdate
  <2> DEFINE r == [channel |-> c, events |-> ev]
  <2>2. /\ DOMAIN epollSet' = DOMAIN epollSet \cup {fd[c]}
        /\ epollSet'[fd[c]] = r
        /\ \A g \in DOMAIN epollSet : g # fd[c] => epollSet'[g] = epollSet[g]
    BY <2>1, Asked
  <2> HIDE DEF r
  <2>3. /\ epollIndex' \in [Channels -> {"kNew", "kAdded", "kDeleted"}]
        /\ epollIndex'[c] = "kAdded"
        /\ \A d \in Channels : d # c => epollIndex'[d] = epollIndex[d]
    BY <1>2, <2>1
  <2>4. ASSUME NEW d \in Channels
        PROVE  /\ Registered(d)' <=> epollIndex'[d] # "kNew"
               /\ Registered(d)' /\ events'[d] # {} => epollIndex'[d] = "kAdded"
               /\ Registered(d)' =>
                    (epollIndex'[d] = "kAdded" <=> fd'[d] \in DOMAIN epollSet')
    <3>1. CASE d = c
      BY <1>1, <2>2, <2>3, <3>1
    <3>2. CASE d # c
      BY <1>1, <1>2, <1>3, <2>2, <2>3, <3>2 DEF EPollInv
    <3> QED BY <3>1, <3>2
  <2>5. ASSUME NEW f \in DOMAIN epollSet'
        PROVE  \E d \in Channels :
                 /\ Registered(d)' /\ fd'[d] = f
                 /\ epollSet'[f] = [channel |-> d, events |-> events'[d]]
    <3>1. CASE f = fd[c]
      BY <1>1, <2>2, <3>1 DEF r
    <3>2. CASE f # fd[c]
      <4>1. f \in DOMAIN epollSet /\ epollSet'[f] = epollSet[f]
        BY <2>2, <3>2
      <4>2. PICK d \in Channels :
              /\ Registered(d) /\ fd[d] = f
              /\ epollSet[f] = [channel |-> d, events |-> events[d]]
        BY <1>2, <4>1 DEF EPollInv
      <4>3. d # c
        BY <3>2, <4>2
      <4> QED BY <1>1, <4>1, <4>2, <4>3
    <3> QED BY <3>1, <3>2
  <2>6. DOMAIN epollSet' \subseteq Fds
    BY <1>2, <1>3, <2>2 DEF EPollInv
  <2>7. EPollInv'
    BY <2>3, <2>4, <2>5, <2>6 DEF EPollInv
  <2> QED BY <1>4, <1>6, <2>7
<1> QED BY <1>5, <1>6

LEMMA UpdatePoll ==
  ASSUME PollersInv, NEW c \in Channels, NEW ev \in SUBSET Events, Update(c, ev)
  PROVE  /\ PollInv'
         /\ Registered(c) /\ events[c] # {} /\ ev = {} =>
              pollfds'[pollIndex'[c]].fd = Ignored(fd[c])
<1>1. /\ OwnersInv' /\ Registered(c)' /\ events'[c] = ev /\ fd' = fd
      /\ fd[c] # Closed
      /\ \A d \in Channels : d # c =>
           (Registered(d)' <=> Registered(d)) /\ events'[d] = events[d]
  BY UpdateOwners
<1>2. /\ PollInv /\ OwnersInv /\ PollUpdate(c, ev)
      /\ pollIndex \in [Channels -> Nat]
      /\ pollfds \in Seq([fd : Int, events : SUBSET Events])
      /\ Len(pollfds) \in Nat /\ DOMAIN pollfds = 1 .. Len(pollfds)
  BY DEF PollersInv, Update, PollInv
<1>3. fd[c] \in Int /\ Ignored(fd[c]) \in Int
  BY <1>1, <1>2, OwnFd DEF Ignored
<1>4. CASE pollIndex[c] = 0
  <2> DEFINE e == [fd |-> fd[c], events |-> ev]
             n == Len(pollfds) + 1
  <2>1. /\ pollfds' = Append(pollfds, e)
        /\ pollIndex' = [pollIndex EXCEPT ![c] = n]
    BY <1>2, <1>4 DEF PollUpdate
  <2>2. ~Registered(c)
    BY <1>2, <1>4 DEF PollInv
  <2>3. /\ e \in [fd : Int, events : SUBSET Events] /\ e.fd = fd[c]
        /\ e.events = ev
    BY <1>3
  <2> HIDE DEF e
  <2>4. /\ pollfds' \in Seq([fd : Int, events : SUBSET Events])
        /\ n \in DOMAIN pollfds' /\ pollfds'[n] = e
        /\ \A i \in DOMAIN pollfds :
             i \in DOMAIN pollfds' /\ pollfds'[i] = pollfds[i] /\ i # n /\ i # 0
        /\ \A i \in DOMAIN pollfds' : i \in DOMAIN pollfds \/ i = n
        /\ n \in Nat /\ n # 0
    <3> DEFINE R == [fd : Int, events : SUBSET Events]
    <3>1. pollfds \in Seq(R) /\ e \in R
      BY <1>2, <2>3
    <3> HIDE DEF R
    <3>2. /\ Append(pollfds, e) \in Seq(R)
          /\ DOMAIN Append(pollfds, e) = 1 .. Len(pollfds) + 1
          /\ Append(pollfds, e)[Len(pollfds) + 1] = e
          /\ \A i \in 1 .. Len(pollfds) : Append(pollfds, e)[i] = pollfds[i]
      BY <3>1
    <3> QED BY <1>2, <2>1, <3>2 DEF R
  <2>5. /\ pollIndex' \in [Channels -> Nat] /\ pollIndex'[c] = n
        /\ \A d \in Channels : d # c => pollIndex'[d] = pollIndex[d]
    BY <1>2, <2>1, <2>4
  <2> HIDE DEF n
  <2>6. \A d \in Channels : pollIndex[d] # n
    BY <1>2, <2>4 DEF PollInv
  <2>7. ASSUME NEW d \in Channels
        PROVE  /\ ~Registered(d)' => pollIndex'[d] = 0
               /\ Registered(d)' =>
                    /\ pollIndex'[d] \in DOMAIN pollfds'
                    /\ pollfds'[pollIndex'[d]].fd \in {fd'[d], Ignored(fd'[d])}
                    /\ events'[d] # {} => pollfds'[pollIndex'[d]].fd = fd'[d]
                    /\ pollfds'[pollIndex'[d]].events = events'[d]
    <3>1. CASE d = c
      BY <1>1, <2>3, <2>4, <2>5, <3>1
    <3>2. CASE d # c
      <4>1. /\ (Registered(d)' <=> Registered(d)) /\ events'[d] = events[d]
            /\ fd'[d] = fd[d] /\ pollIndex'[d] = pollIndex[d]
        BY <1>1, <2>5, <3>2
      <4>2. /\ ~Registered(d) => pollIndex[d] = 0
            /\ Registered(d) =>
                 /\ pollIndex[d] \in DOMAIN pollfds
                 /\ pollfds[pollIndex[d]].fd \in {fd[d], Ignored(fd[d])}
                 /\ events[d] # {} => pollfds[pollIndex[d]].fd = fd[d]
                 /\ pollfds[pollIndex[d]].events = events[d]
        BY <1>2 DEF PollInv
      <4>3. Registered(d) => /\ pollIndex[d] \in DOMAIN pollfds'
                             /\ pollfds'[pollIndex[d]] = pollfds[pollIndex[d]]
        BY <2>4, <4>2
      <4> QED BY <4>1, <4>2, <4>3
    <3> QED BY <3>1, <3>2
  <2>8. ASSUME NEW d \in Channels, NEW k \in Channels,
               pollIndex'[d] = pollIndex'[k], pollIndex'[d] # 0
        PROVE  d = k
    BY <1>2, <2>5, <2>6, <2>8 DEF PollInv
  <2>9. ASSUME NEW i \in DOMAIN pollfds'
        PROVE  \E d \in Channels : pollIndex'[d] = i
    <3>1. CASE i = n
      BY <2>5, <3>1
    <3>2. CASE i \in DOMAIN pollfds
      <4>1. PICK d \in Channels : pollIndex[d] = i
        BY <1>2, <3>2 DEF PollInv
      <4>2. d # c
        BY <1>4, <2>4, <3>2, <4>1
      <4> QED BY <2>5, <4>1, <4>2
    <3> QED BY <2>4, <3>1, <3>2
  <2>10. PollInv'
    BY <2>4, <2>5, <2>7, <2>8, <2>9 DEF PollInv
  <2> QED BY <2>2, <2>10
<1>5. CASE pollIndex[c] # 0
  <2> DEFINE n == pollIndex[c]
             e == [fd |-> IF ev = {} THEN Ignored(fd[c]) ELSE fd[c],
                   events |-> ev]
  <2>1. /\ pollfds' = [pollfds EXCEPT ![n] = e]
        /\ pollIndex' = pollIndex
    BY <1>2, <1>5 DEF PollUpdate
  <2>2. Registered(c) /\ n \in DOMAIN pollfds
    BY <1>2, <1>5 DEF PollInv
  <2>3. /\ e \in [fd : Int, events : SUBSET Events]
        /\ e.fd \in {fd[c], Ignored(fd[c])}
        /\ ev # {} => e.fd = fd[c]
        /\ ev = {} => e.fd = Ignored(fd[c])
        /\ e.events = ev
    BY <1>3
  <2> HIDE DEF e
  <2>4. /\ pollfds' \in Seq([fd : Int, events : SUBSET Events])
        /\ DOMAIN pollfds' = DOMAIN pollfds /\ pollfds'[n] = e
        /\ \A i \in DOMAIN pollfds : i # n => pollfds'[i] = pollfds[i]
    <3> DEFINE R == [fd : Int, events : SUBSET Events]
    <3>1. pollfds \in Seq(R) /\ e \in R
      BY <1>2, <2>3
    <3> HIDE DEF R
    <3> QED BY <2>1, <2>2, <3>1 DEF R
  <2> HIDE DEF n
  <2>5. n = pollIndex[c] /\ n = pollIndex'[c]
    BY <2>1 DEF n
  <2>6. \A d \in Channels : d # c => pollIndex[d] # n
    BY <1>2, <1>5, <2>5 DEF PollInv
  <2>7. ASSUME NEW d \in Channels
        PROVE  /\ ~Registered(d)' => pollIndex'[d] = 0
               /\ Registered(d)' =>
                    /\ pollIndex'[d] \in DOMAIN pollfds'
                    /\ pollfds'[pollIndex'[d]].fd \in {fd'[d], Ignored(fd'[d])}
                    /\ events'[d] # {} => pollfds'[pollIndex'[d]].fd = fd'[d]
                    /\ pollfds'[pollIndex'[d]].events = events'[d]
    <3>1. CASE d = c
      BY <1>1, <2>2, <2>3, <2>4, <2>5, <3>1
    <3>2. CASE d # c
      BY <1>1, <1>2, <2>1, <2>4, <2>6, <3>2 DEF PollInv
    <3> QED BY <3>1, <3>2
  <2>8. PollInv'
    BY <1>2, <2>1, <2>4, <2>7 DEF PollInv
  <2>9. ev = {} => pollfds'[pollIndex'[c]].fd = Ignored(fd[c])
    BY <2>3, <2>4, <2>5
  <2> QED BY <2>8, <2>9
<1> QED BY <1>4, <1>5

\* A channel that is not registered gets or closes a descriptor.
LEMMA FdKeeps ==
  ASSUME PollersInv, NEW c \in Channels, NEW v \in Fds \cup {Closed},
         ~Registered(c), ~Registered(c)',
         \A d \in Channels : fd[d] = v => v = Closed,
         fd' = [fd EXCEPT ![c] = v],
         UNCHANGED <<events, channels, epollIndex, epollSet, pollIndex,
                     pollfds>>
  PROVE  PollersInv'
<1>1. OwnersInv /\ EPollInv /\ PollInv
  BY DEF PollersInv
<1>2. /\ fd' \in [Channels -> Fds \cup {Closed}] /\ fd'[c] = v
      /\ \A d \in Channels : d # c => fd'[d] = fd[d]
  BY <1>1 DEF OwnersInv
<1>3. \A d \in Channels :
        /\ Registered(d)' <=> Registered(d)
        /\ Registered(d) => d # c /\ fd'[d] = fd[d]
  BY <1>2 DEF Registered
<1>4. OwnersInv'
  <2>1. ASSUME NEW g \in Fds, channels[g] # None
        PROVE  fd'[channels[g]] = g
    <3>1. channels[g] \in Channels /\ fd[channels[g]] = g /\ g # Closed
      BY <1>1, <2>1, PollerAssumption DEF OwnersInv, Closed
    <3>2. Registered(channels[g])
      BY <3>1 DEF Registered
    <3> QED BY <1>3, <3>1, <3>2
  <2>2. \A d, e \in Channels : fd'[d] = fd'[e] /\ fd'[d] # Closed => d = e
    BY <1>1, <1>2 DEF OwnersInv
  <2> QED BY <1>1, <1>2, <2>1, <2>2 DEF OwnersInv
<1>5. EPollInv'
  <2>1. ASSUME NEW f \in DOMAIN epollSet
        PROVE  \E d \in Channels :
                 /\ Registered(d)' /\ fd'[d] = f
                 /\ epollSet[f] = [channel |-> d, events |-> events[d]]
    <3>1. PICK d \in Channels :
            /\ Registered(d) /\ fd[d] = f
            /\ epollSet[f] = [channel |-> d, events |-> events[d]]
      BY <1>1 DEF EPollInv
    <3> QED BY <1>3, <3>1
  <2> QED BY <1>1, <1>3, <2>1 DEF EPollInv
<1>6. PollInv'
  BY <1>1, <1>3 DEF PollInv, Ignored
<1> QED BY <1>4, <1>5, <1>6 DEF PollersInv

LEMMA CreateChannelKeeps ==
  ASSUME PollersInv, NEW c \in Channels, NEW f \in Fds, Create(c, f)
  PROVE  PollersInv'
<1>1. /\ fd \in [Channels -> Fds \cup {Closed}]
      /\ \A g \in Fds : channels[g] # None =>
           channels[g] \in Channels /\ fd[channels[g]] = g
  BY DEF PollersInv, OwnersInv
<1>2. /\ fd[c] = Closed /\ f \notin Range(fd) /\ fd' = [fd EXCEPT ![c] = f]
      /\ UNCHANGED <<events, channels, epollIndex, epollSet, pollIndex,
                     pollfds>>
  BY DEF Create
<1>3. \A d \in Channels : fd[d] # f
  BY <1>1, <1>2 DEF Range
<1>4. ~Registered(c)
  BY <1>2 DEF Registered
<1>5. ~Registered(c)'
  <2>1. fd'[c] = f
    BY <1>1, <1>2
  <2>2. channels[f] # c
    BY <1>1, <1>3, PollerAssumption DEF None
  <2> QED BY <1>2, <2>1, <2>2 DEF Registered
<1> QED BY <1>2, <1>3, <1>4, <1>5, FdKeeps

LEMMA DestroyChannelKeeps ==
  ASSUME PollersInv, NEW c \in Channels, DestroyChannel(c)
  PROVE  PollersInv'
<1>1. fd \in [Channels -> Fds \cup {Closed}]
  BY DEF PollersInv, OwnersInv
<1>2. /\ ~Registered(c) /\ fd' = [fd EXCEPT ![c] = Closed]
      /\ UNCHANGED <<events, channels, epollIndex, epollSet, pollIndex,
                     pollfds>>
  BY DEF DestroyChannel
<1>3. ~Registered(c)'
  BY <1>1, <1>2 DEF Registered
<1> QED BY <1>2, <1>3, FdKeeps

\* removeChannel() leaves the other channels as they are.
LEMMA RemoveOwners ==
  ASSUME PollersInv, NEW c \in Channels, RemoveChannel(c)
  PROVE  /\ OwnersInv' /\ Registered(c) /\ ~Registered(c)'
         /\ fd' = fd /\ events' = events
         /\ \A d \in Channels : d # c => (Registered(d)' <=> Registered(d))
<1>1. /\ OwnersInv /\ fd[c] # Closed /\ fd' = fd /\ events' = events
      /\ Registered(c) /\ channels' = [channels EXCEPT ![fd[c]] = None]
  BY DEF RemoveChannel, PollersInv, Registered
<1>2. /\ fd[c] \in Fds /\ c # None
      /\ \A d \in Channels : d # c => fd[d] # fd[c]
  BY <1>1, OwnFd
<1>3. /\ fd \in [Channels -> Fds \cup {Closed}]
      /\ channels \in [Fds -> Channels \cup {None}]
  BY <1>1 DEF OwnersInv
<1>4. /\ channels' \in [Fds -> Channels \cup {None}] /\ channels'[fd[c]] = None
      /\ \A f \in Fds : f # fd[c] => channels'[f] = channels[f]
  BY <1>1, <1>2, <1>3
<1>5. ~Registered(c)'
  BY <1>1, <1>2, <1>4 DEF Registered
<1>6. \A d \in Channels : d # c => (Registered(d)' <=> Registered(d))
  <2> SUFFICES ASSUME NEW d \in Channels, d # c
               PROVE  Registered(d)' <=> Registered(d)
    OBVIOUS
  <2>1. CASE fd[d] = Closed
    BY <1>1, <2>1 DEF Registered
  <2>2. CASE fd[d] # Closed
    <3>1. fd[d] \in Fds /\ fd[d] # fd[c]
      BY <1>2, <1>3, <2>2
    <3>2. channels'[fd[d]] = channels[fd[d]]
      BY <1>4, <3>1
    <3> QED BY <1>1, <3>2 DEF Registered
  <2> QED BY <2>1, <2>2
<1>7. OwnersInv'
  <2>1. \A f \in Fds : channels'[f] # None => fd'[channels'[f]] = f
    BY <1>1, <1>4 DEF OwnersInv
  <2> QED BY <1>1, <1>4, <2>1 DEF OwnersInv
<1> QED BY <1>1, <1>5, <1>6, <1>7

LEMMA RemoveEPoll ==
  ASSUME PollersInv, NEW c \in Channels, RemoveChannel(c)
  PROVE  EPollInv'
<1>1. /\ OwnersInv' /\ Registered(c) /\ ~Registered(c)'
      /\ fd' = fd /\ events' = events
      /\ \A d \in Channels : d # c => (Registered(d)' <=> Registered(d))
  BY RemoveOwners
<1>2. /\ OwnersInv /\ EPollInv /\ fd[c] # Closed /\ EPollRemove(c)
      /\ epollIndex \in [Channels -> {"kNew", "kAdded", "kDeleted"}]
  BY <1>1 DEF PollersInv, RemoveChannel, EPollInv, Registered
<1>3. \A d \in Channels : d # c => fd[d] # fd[c]
  BY <1>2, OwnFd
<1>4. /\ epollIndex' \in [Channels -> {"kNew", "kAdded", "kDeleted"}]
      /\ epollIndex'[c] = "kNew"
      /\ \A d \in Channels : d # c => epollIndex'[d] = epollIndex[d]
  BY <1>2 DEF EPollRemove
<1>5. /\ DOMAIN epollSet' = DOMAIN epollSet \ {fd[c]}
      /\ \A g \in DOMAIN epollSet : g # fd[c] => epollSet'[g] = epollSet[g]
  <2>1. CASE epollIndex[c] = "kAdded"
    BY <1>2, <2>1, Forgotten DEF EPollRemove
  <2>2. CASE epollIndex[c] # "kAdded"
    <3>1. epollSet' = epollSet
      BY <1>2, <2>2 DEF EPollRemove
    <3>2. fd[c] \notin DOMAIN epollSet
      BY <1>1, <1>2, <2>2 DEF EPollInv
    <3> QED BY <3>1, <3>2
  <2> QED BY <2>1, <2>2
<1>6. ASSUME NEW d \in Channels
      PROVE  /\ Registered(d)' <=> epollIndex'[d] # "kNew"
             /\ Registered(d)' /\ events'[d] # {} => epollIndex'[d] = "kAdded"
             /\ Registered(d)' =>
                  (epollIndex'[d] = "kAdded" <=> fd'[d] \in DOMAIN epollSet')
  <2>1. CASE d = c
    BY <1>1, <1>4, <2>1
  <2>2. CASE d # c
    BY <1>1, <1>2, <1>3, <1>4, <1>5, <2>2 DEF EPollInv
  <2> QED BY <2>1, <2>2
<1>7. ASSUME NEW f \in DOMAIN epollSet'
      PROVE  \E d \in Channels :
               /\ Registered(d)' /\ fd'[d] = f
               /\ epollSet'[f] = [channel |-> d, events |-> events'[d]]
  <2>1. f \in DOMAIN epollSet /\ f # fd[c] /\ epollSet'[f] = epollSet[f]
    BY <1>5
  <2>2. PICK d \in Channels :
          /\ Registered(d) /\ fd[d] = f
          /\ epollSet[f] = [channel |-> d, events |-> events[d]]
    BY <1>2, <2>1 DEF EPollInv
  <2>3. d # c
    BY <2>1, <2>2
  <2> QED BY <1>1, <2>1, <2>2, <2>3
<1>8. DOMAIN epollSet' \subseteq Fds
  BY <1>2, <1>5 DEF EPollInv
<1> QED BY <1>4, <1>6, <1>7, <1>8 DEF EPollInv

\* The last entry is of one channel, though its descriptor may be ignored.
LEMMA LastIsOf ==
  ASSUME PollersInv, NEW e \in Channels,
         Len(pollfds) \in DOMAIN pollfds, pollIndex[e] = Len(pollfds)
  PROVE  AtEnd = {e}
<1>1. OwnersInv /\ Len(pollfds) # 0
  BY DEF PollersInv, PollInv
<1>2. Registered(e) /\ Last(pollfds).fd \in {fd[e], Ignored(fd[e])}
  BY <1>1 DEF PollersInv, PollInv, Last
<1>3. ASSUME NEW d \in AtEnd
      PROVE  d = e
  <2>1. /\ d \in Channels /\ Registered(d)
        /\ Last(pollfds).fd \in {fd[d], Ignored(fd[d])}
    BY DEF AtEnd
  <2>2. fd[d] # Closed /\ fd[e] # Closed
    BY <1>2, <2>1 DEF Registered
  <2>3. fd[d] \in Nat /\ fd[e] \in Nat
    BY <1>1, <2>1, <2>2, OwnFd
  <2>4. fd[d] = fd[e]
    BY <1>2, <2>1, <2>3 DEF Ignored
  <2> QED BY <1>1, <2>1, <2>2, <2>4 DEF OwnersInv
<1> QED BY <1>2, <1>3 DEF AtEnd

\* The last entry takes the place of the i-th, which goes.
LEMMA LastMoves ==
  ASSUME NEW S, NEW s \in Seq(S), NEW i \in DOMAIN s
  PROVE  LET t == Front([s EXCEPT ![i] = Last(s)])
         IN  /\ t \in Seq(S) /\ DOMAIN t = 1 .. Len(s) - 1
             /\ Len(s) \in DOMAIN s /\ DOMAIN s = 1 .. Len(s)
             /\ \A j \in DOMAIN t :
                  /\ j \in DOMAIN s /\ j # Len(s)
                  /\ t[j] = IF j = i THEN s[Len(s)] ELSE s[j]
<1> DEFINE u == [s EXCEPT ![i] = Last(s)]
<1>1. /\ DOMAIN s = 1 .. Len(s) /\ Len(s) \in Nat /\ Len(s) >= 1
      /\ Last(s) \in S
  BY DEF Last
<1>2. /\ u \in Seq(S) /\ Len(u) = Len(s)
      /\ \A j \in 1 .. Len(s) : u[j] = IF j = i THEN s[Len(s)] ELSE s[j]
  BY <1>1 DEF Last
<1> HIDE DEF u
<1>3. /\ SubSeq(u, 1, Len(s) - 1) \in Seq(S)
      /\ Len(SubSeq(u, 1, Len(s) - 1)) = Len(s) - 1
      /\ \A j \in 1 .. Len(s) - 1 : SubSeq(u, 1, Len(s) - 1)[j] = u[j]
  BY <1>1, <1>2
<1>4. Front(u) = SubSeq(u, 1, Len(s) - 1)
  BY <1>2 DEF Front
<1>5. DOMAIN Front(u) = 1 .. Len(s) - 1
  BY <1>1, <1>3, <1>4
<1>6. \A j \in DOMAIN Front(u) :
        j \in DOMAIN s /\ j \in 1 .. Len(s) /\ j # Len(s)
  BY <1>1, <1>5
<1>7. \A j \in DOMAIN Front(u) :
        Front(u)[j] = IF j = i THEN s[Len(s)] ELSE s[j]
  BY <1>2, <1>3, <1>4, <1>5, <1>6
<1>8. Front(u) \in Seq(S) /\ Len(s) \in DOMAIN s
  BY <1>1, <1>3, <1>4
<1> QED BY <1>1, <1>5, <1>6, <1>7, <1>8 DEF u

LEMMA RemovePoll ==
  ASSUME PollersInv, NEW c \in Channels, RemoveChannel(c)
  PROVE  PollInv'
<1>1. /\ OwnersInv' /\ Registered(c) /\ ~Registered(c)'
      /\ fd' = fd /\ events' = events
      /\ \A d \in Channels : d # c => (Registered(d)' <=> Registered(d))
  BY RemoveOwners
<1> DEFINE idx == pollIndex[c]
           n == Len(pollfds)
<1>2. /\ PollInv /\ pollIndex \in [Channels -> Nat]
      /\ idx \in DOMAIN pollfds
      /\ pollfds' = Front([pollfds EXCEPT ![idx] = Last(pollfds)])
      /\ pollIndex' = [d \in Channels |->
           IF d = c THEN 0 ELSE IF d \in AtEnd THEN idx ELSE pollIndex[d]]
  BY <1>1 DEF RemoveChannel, PollRemove, PollersInv, PollInv
<1>3. /\ pollfds' \in Seq([fd : Int, events : SUBSET Events])
      /\ DOMAIN pollfds' = 1 .. n - 1 /\ DOMAIN pollfds = 1 .. n
      /\ n \in DOMAIN pollfds
      /\ \A j \in DOMAIN pollfds' :
           /\ j \in DOMAIN pollfds /\ j # n
           /\ pollfds'[j] = IF j = idx THEN pollfds[n] ELSE pollfds[j]
  <2> DEFINE R == [fd : Int, events : SUBSET Events]
  <2>1. pollfds \in Seq(R)
    BY <1>2 DEF PollInv
  <2> HIDE DEF R, idx
  <2> DEFINE t == Front([pollfds EXCEPT ![idx] = Last(pollfds)])
  <2>2. /\ t \in Seq(R) /\ DOMAIN t = 1 .. n - 1 /\ DOMAIN pollfds = 1 .. n
        /\ n \in DOMAIN pollfds
        /\ \A j \in DOMAIN t :
             /\ j \in DOMAIN pollfds /\ j # n
             /\ t[j] = IF j = idx THEN pollfds[n] ELSE pollfds[j]
    BY <1>2, <2>1, LastMoves
  <2>3. pollfds' = t
    BY <1>2
  <2> HIDE DEF t
  <2> QED BY <2>2, <2>3 DEF R
<1>4. PICK e \in Channels : pollIndex[e] = n
  BY <1>2, <1>3 DEF PollInv
<1>5. /\ pollIndex' \in [Channels -> Nat] /\ pollIndex'[c] = 0
      /\ e # c => pollIndex'[e] = idx
      /\ \A d \in Channels : d # c /\ d # e => pollIndex'[d] = pollIndex[d]
  <2>1. AtEnd = {e}
    BY <1>3, <1>4, LastIsOf
  <2> QED BY <1>2, <2>1
<1>6. \A j \in DOMAIN pollfds : j # n => j \in DOMAIN pollfds'
  BY <1>3
<1>7. n \in Nat /\ idx \in Nat /\ n # 0 /\ idx # 0 /\ 0 \notin DOMAIN pollfds'
  BY <1>2, <1>3
<1> HIDE DEF n, idx
<1>8. idx = pollIndex[c] /\ (e # c => idx # n)
  BY <1>2, <1>4, <1>7 DEF idx, PollInv
<1>9. \A d \in Channels : /\ d # e => pollIndex[d] # n
                          /\ d # c => pollIndex[d] # idx
  BY <1>2, <1>4, <1>7, <1>8 DEF PollInv
<1>10. ASSUME NEW d \in Channels, Registered(d), d # c
       PROVE  /\ pollIndex'[d] \in DOMAIN pollfds'
              /\ pollfds'[pollIndex'[d]] = pollfds[pollIndex[d]]
  <2>1. pollIndex[d] \in DOMAIN pollfds
    BY <1>2, <1>10 DEF PollInv
  <2>2. CASE d = e
    BY <1>2, <1>3, <1>4, <1>5, <1>6, <1>8, <1>10, <2>2
  <2>3. CASE d # e
    BY <1>3, <1>5, <1>6, <1>9, <1>10, <2>1, <2>3
  <2> QED BY <2>2, <2>3
<1>11. ASSUME NEW d \in Channels
       PROVE  /\ ~Registered(d)' => pollIndex'[d] = 0
              /\ Registered(d)' =>
                   /\ pollIndex'[d] \in DOMAIN pollfds'
                   /\ pollfds'[pollIndex'[d]].fd \in {fd'[d], Ignored(fd'[d])}
                   /\ events'[d] # {} => pollfds'[pollIndex'[d]].fd = fd'[d]
                   /\ pollfds'[pollIndex'[d]].events = events'[d]
  <2>1. CASE d = c
    BY <1>1, <1>5, <2>1
  <2>2. CASE d # c /\ Registered(d)
    <3>1. /\ pollfds[pollIndex[d]].fd \in {fd[d], Ignored(fd[d])}
          /\ events[d] # {} => pollfds[pollIndex[d]].fd = fd[d]
          /\ pollfds[pollIndex[d]].events = events[d]
      BY <1>2, <2>2 DEF PollInv
    <3> QED BY <1>1, <1>10, <2>2, <3>1
  <2>3. CASE d # c /\ ~Registered(d)
    <3>1. pollIndex[d] = 0
      BY <1>2, <2>3 DEF PollInv
    <3>2. d # e
      BY <1>4, <1>7, <3>1
    <3> QED BY <1>1, <1>5, <2>3, <3>1, <3>2
  <2> QED BY <2>1, <2>2, <2>3
<1>12. ASSUME NEW d \in Channels, NEW k \in Channels,
              pollIndex'[d] = pollIndex'[k], pollIndex'[d] # 0
       PROVE  d = k
  <2>1. d # c /\ k # c
    BY <1>5, <1>12
  <2>2. CASE d = e \/ k = e
    BY <1>5, <1>9, <1>12, <2>1, <2>2
  <2>3. CASE d # e /\ k # e
    BY <1>2, <1>5, <1>12, <2>1, <2>3 DEF PollInv
  <2> QED BY <2>2, <2>3
<1>13. ASSUME NEW i \in DOMAIN pollfds'
       PROVE  \E d \in Channels : pollIndex'[d] = i
  <2>1. i \in DOMAIN pollfds /\ i # n
    BY <1>3
  <2>2. CASE i = idx
    BY <1>4, <1>5, <1>8, <2>1, <2>2
  <2>3. CASE i # idx
    <3>1. PICK d \in Channels : pollIndex[d] = i
      BY <1>2, <2>1 DEF PollInv
    <3> QED BY <1>4, <1>5, <1>8, <2>1, <2>3, <3>1
  <2> QED BY <2>2, <2>3
<1> QED BY <1>3, <1>5, <1>11, <1>12, <1>13 DEF PollInv

LEMMA PollersStep == PollersInv /\ [PollerNext]_pollerVars => PollersInv'
<1> SUFFICES ASSUME PollersInv, [PollerNext]_pollerVars PROVE PollersInv'
  OBVIOUS
<1>1. ASSUME NEW c \in Channels, NEW ev \in SUBSET Events, Update(c, ev)
      PROVE  PollersInv'
  BY <1>1, UpdateOwners, UpdateEPoll, UpdatePoll DEF PollersInv
<1>2. ASSUME NEW c \in Channels, NEW f \in Fds, Create(c, f)
      PROVE  PollersInv'
  BY <1>2, CreateChannelKeeps
<1>3. ASSUME NEW c \in Channels, NEW e \in Events, Enable(c, e) \/ Disable(c, e)
      PROVE  PollersInv'
  <2>1. /\ events[c] \cup {e} \in SUBSET Events
        /\ events[c] \ {e} \in SUBSET Events
    BY DEF PollersInv, OwnersInv
  <2> QED BY <1>1, <1>3, <2>1 DEF Enable, Disable
<1>4. ASSUME NEW c \in Channels, DisableAll(c)
      PROVE  PollersInv'
  BY <1>1, <1>4 DEF DisableAll
<1>5. ASSUME NEW c \in Channels, RemoveChannel(c)
      PROVE  PollersInv'
  BY <1>5, RemoveOwners, RemoveEPoll, RemovePoll DEF PollersInv
<1>6. ASSUME NEW c \in Channels, DestroyChannel(c)
      PROVE  PollersInv'
  BY <1>6, DestroyChannelKeeps
<1>7. CASE UNCHANGED pollerVars
  <2>1. \A c \in Channels : Registered(c)' <=> Registered(c)
    BY <1>7 DEF pollerVars, Registered
  <2> QED BY <1>7, <2>1
          DEF pollerVars, PollersInv, OwnersInv, EPollInv, PollInv, Ignored
<1> QED BY <1>2, <1>3, <1>4, <1>5, <1>6, <1>7 DEF PollerNext

\* What each poller reports: the registered channels of ready descriptors that
\* it still asks the kernel about.
ActiveAre ==
  \A ready \in SUBSET Fds :
    /\ EPollActive(ready) =
         {c \in Channels : /\ Registered(c) /\ fd[c] \in ready
                           /\ epollIndex[c] = "kAdded"}
    /\ PollActive(ready) =
         {c \in Channels : /\ Registered(c) /\ fd[c] \in ready
                           /\ pollfds[pollIndex[c]].fd = fd[c]}

LEMMA PollersReport == PollersInv => ActiveAre
<1> SUFFICES ASSUME PollersInv, NEW ready \in SUBSET Fds
             PROVE  /\ EPollActive(ready) =
                         {c \in Channels : /\ Registered(c) /\ fd[c] \in ready
                                           /\ epollIndex[c] = "kAdded"}
                    /\ PollActive(ready) =
                         {c \in Channels : /\ Registered(c) /\ fd[c] \in ready
                                           /\ pollfds[pollIndex[c]].fd = fd[c]}
  BY DEF ActiveAre
<1>1. OwnersInv /\ EPollInv /\ PollInv
  BY DEF PollersInv
<1>2. ASSUME NEW c \in EPollActive(ready)
      PROVE  /\ c \in Channels /\ Registered(c) /\ fd[c] \in ready
             /\ epollIndex[c] = "kAdded"
  <2>1. PICK f \in ready \cap DOMAIN epollSet : c = epollSet[f].channel
    BY DEF EPollActive
  <2>2. PICK d \in Channels :
          /\ Registered(d) /\ fd[d] = f
          /\ epollSet[f] = [channel |-> d, events |-> events[d]]
    BY <1>1, <2>1 DEF EPollInv
  <2>3. c = d
    BY <2>1, <2>2
  <2> QED BY <1>1, <2>1, <2>2, <2>3 DEF EPollInv
<1>3. ASSUME NEW c \in Channels,
             Registered(c), fd[c] \in ready, epollIndex[c] = "kAdded"
      PROVE  c \in EPollActive(ready)
  <2>1. fd[c] \in DOMAIN epollSet
    BY <1>1, <1>3 DEF EPollInv
  <2>2. PICK d \in Channels :
          /\ fd[d] = fd[c]
          /\ epollSet[fd[c]] = [channel |-> d, events |-> events[d]]
    BY <1>1, <2>1 DEF EPollInv
  <2>3. d = c
    BY <1>1, <1>3, <2>2 DEF OwnersInv, Registered
  <2> QED BY <1>3, <2>1, <2>2, <2>3 DEF EPollActive
<1>4. ASSUME NEW c \in PollActive(ready)
      PROVE  /\ c \in Channels /\ Registered(c) /\ fd[c] \in ready
             /\ pollfds[pollIndex[c]].fd = fd[c]
  <2>1. PICK i \in DOMAIN pollfds :
          pollfds[i].fd \in ready /\ c = channels[pollfds[i].fd]
    BY DEF PollActive, Range
  <2>2. PICK d \in Channels : pollIndex[d] = i
    BY <1>1 DEF PollInv
  <2>3. Registered(d) /\ pollfds[i].fd \in {fd[d], Ignored(fd[d])}
    <3>1. i # 0
      BY <1>1 DEF PollInv
    <3> QED BY <1>1, <2>2, <3>1 DEF PollInv
  <2>4. fd[d] \in Nat
    BY <1>1, <2>3, OwnFd DEF Registered
  <2>5. pollfds[i].fd = fd[d]
    BY <2>1, <2>3, <2>4, PollerAssumption DEF Ignored
  <2>6. c = d
    BY <2>1, <2>3, <2>5 DEF Registered
  <2> QED BY <2>1, <2>2, <2>3, <2>5, <2>6
<1>5. ASSUME NEW c \in Channels, Registered(c), fd[c] \in ready,
             pollfds[pollIndex[c]].fd = fd[c]
      PROVE  c \in PollActive(ready)
  <2>1. pollIndex[c] \in DOMAIN pollfds /\ channels[fd[c]] = c
    BY <1>1, <1>5 DEF PollInv, Registered
  <2>2. pollfds[pollIndex[c]] \in Range(pollfds)
    BY <2>1 DEF Range
  <2> QED BY <1>5, <2>1, <2>2 DEF PollActive
<1> QED BY <1>2, <1>3, <1>4, <1>5

LEMMA PollersInvRight ==
  PollersInv /\ ActiveAre => ReportsRight /\ AsksRight /\ IndexesOwn
<1> SUFFICES ASSUME PollersInv, ActiveAre
             PROVE  ReportsRight /\ AsksRight /\ IndexesOwn
  OBVIOUS
<1>1. OwnersInv /\ EPollInv /\ PollInv
  BY DEF PollersInv
<1>2. \A c \in Interested :
        /\ c \in Channels /\ Registered(c)
        /\ epollIndex[c] = "kAdded" /\ pollfds[pollIndex[c]].fd = fd[c]
        /\ pollfds[pollIndex[c]].events = events[c]
        /\ pollIndex[c] \in DOMAIN pollfds
  BY <1>1 DEF Interested, EPollInv, PollInv
<1>3. ReportsRight
  <2> SUFFICES ASSUME NEW ready \in SUBSET Fds,
                      NEW active \in {EPollActive(ready), PollActive(ready)}
               PROVE  /\ \A c \in Interested : fd[c] \in ready => c \in active
                      /\ \A c \in active :
                           c \in Channels /\ Registered(c) /\ fd[c] \in ready
    BY DEF ReportsRight
  <2>1. \/ active = {c \in Channels : /\ Registered(c) /\ fd[c] \in ready
                                      /\ epollIndex[c] = "kAdded"}
        \/ active = {c \in Channels : /\ Registered(c) /\ fd[c] \in ready
                                      /\ pollfds[pollIndex[c]].fd = fd[c]}
    BY DEF ActiveAre
  <2> QED BY <1>2, <2>1
<1>4. AsksRight
  <2>1. ASSUME NEW f \in DOMAIN epollSet
        PROVE  LET c == epollSet[f].channel
               IN  Registered(c) /\ fd[c] = f /\ epollSet[f].events = events[c]
    BY <1>1 DEF EPollInv
  <2>2. ASSUME NEW c \in Interested
        PROVE  pollfds[pollIndex[c]] = [fd |-> fd[c], events |-> events[c]]
    <3>1. pollfds[pollIndex[c]] \in [fd : Int, events : SUBSET Events]
      <4> DEFINE R == [fd : Int, events : SUBSET Events]
      <4>1. pollfds \in Seq(R)
        BY <1>1 DEF PollInv
      <4> HIDE DEF R
      <4>2. pollfds[pollIndex[c]] \in R
        BY <1>2, <4>1
      <4> QED BY <4>2 DEF R
    <3> QED BY <1>2, <3>1
  <2> QED BY <2>1, <2>2 DEF AsksRight
<1>5. IndexesOwn
  BY <1>1 DEF PollInv, IndexesOwn
<1> QED BY <1>3, <1>4, <1>5

\* Only an update() takes a channel's interest away.
LEMMA DisabledStep ==
  ASSUME PollersInv, ActiveAre', [PollerNext]_pollerVars, NEW c \in Channels,
         Registered(c), events[c] # {}, events'[c] = {}
  PROVE  c \notin EPollActive(Fds)' /\ c \notin PollActive(Fds)'
<1>1. events \in [Channels -> SUBSET Events]
  BY DEF PollersInv, OwnersInv
<1>2. ASSUME NEW d \in Channels, NEW ev \in SUBSET Events, Update(d, ev)
      PROVE  Update(c, {})
  <2>1. events'[d] = ev /\ (c # d => events'[c] = events[c])
    BY <1>2, UpdateOwners
  <2> QED BY <1>2, <2>1
<1>3. Update(c, {})
  <2>1. events' # events
    OBVIOUS
  <2>2. PICK d \in Channels :
          (\E e \in Events : Enable(d, e) \/ Disable(d, e)) \/ DisableAll(d)
    BY <2>1 DEF PollerNext, pollerVars, Create, RemoveChannel, DestroyChannel
  <2>3. \A e \in Events :
          /\ events[d] \cup {e} \in SUBSET Events
          /\ events[d] \ {e} \in SUBSET Events
    BY <1>1
  <2> QED BY <1>2, <2>2, <2>3 DEF Enable, Disable, DisableAll
<1> DEFINE ev == {}
<1>4. ev \in SUBSET Events /\ Update(c, ev) /\ ev = {}
  BY <1>3
<1> HIDE DEF ev
<1>5. epollIndex'[c] = "kDeleted"
  BY <1>4, UpdateEPoll
<1>6. pollfds'[pollIndex'[c]].fd = Ignored(fd[c])
  BY <1>4, UpdatePoll
<1>7. fd' = fd /\ fd[c] \in Nat
  BY <1>4, UpdateOwners, OwnFd DEF PollersInv
<1>8. pollfds'[pollIndex'[c]].fd # fd'[c]
  BY <1>6, <1>7 DEF Ignored
<1> QED BY <1>5, <1>8 DEF ActiveAre

\* Whatever descriptors become ready, either poller tells the loop of the
\* channels that asked, for any channels and descriptors; index_ always names
\* the channel's own pollfd, and a channel that loses its interest is silent.
THEOREM PollersAlwaysRight == PollerSpec => PollersRight
<1>1. PollersInv /\ PollersInv' /\ ActiveAre' /\ [PollerNext]_pollerVars =>
        [\A c \in Channels :
           (Registered(c) /\ events[c] # {} /\ events'[c] = {})
             => /\ c \notin EPollActive(Fds)'
                /\ c \notin PollActive(Fds)']_pollerVars
  BY DisabledStep
<1> QED BY <1>1, PollerInitInv, PollersStep, PollersReport, PollersInvRight, PTL
        DEF PollerSpec, PollersRight, DisabledIsIgnored

-----------------------------------------------------------------------------
(* Buffer: the vector, its indexes and the bytes they stand for.           *)

\* A sequence of anything.
Vec(s) == Len(s) \in Nat /\ s = [k \in 1 .. Len(s) |-> s[k]]

\* n bytes from the i-th of vector s on are those of t from the j-th on.
SameBytes(s, i, t, j, n) == \A k \in 1 .. n : s[i + k] = t[j + k]

\* Vector s holds bytes between its indexes r and w, and has room for a header.
Holds(s, r, w, bytes) ==
  /\ Vec(s) /\ Vec(bytes) /\ CheapPrepend <= Len(s)
  /\ r \in Nat /\ w \in Nat /\ r <= w /\ w <= Len(s)
  /\ Len(bytes) = w - r /\ SameBytes(s, r, bytes, 0, Len(bytes))

\* The indexes delimit what was put in and not taken out.
BufferInv == Holds(store, readerIndex, writerIndex, content)

LEMMA VecSeq ==
  ASSUME NEW s, Vec(s)
  PROVE  s \in Seq({s[k] : k \in 1 .. Len(s)})
BY DEF Vec

LEMMA VecOver ==
  ASSUME NEW s, Vec(s), NEW S, \A k \in 1 .. Len(s) : s[k] \in S
  PROVE  s \in Seq(S) /\ Len(s) \in Nat
<1>1. Len(s) \in Nat /\ s \in [1 .. Len(s) -> S]
  BY DEF Vec
<1> QED BY <1>1

LEMMA VecIs ==
  ASSUME NEW s, NEW n \in Nat, s = [k \in 1 .. n |-> s[k]]
  PROVE  Vec(s) /\ Len(s) = n
BY DEF Vec

LEMMA VecSubSeq ==
  ASSUME NEW s, Vec(s), NEW m \in Nat, NEW n \in Nat, m <= n, n <= Len(s)
  PROVE  /\ Vec(SubSeq(s, m + 1, n)) /\ Len(SubSeq(s, m + 1, n)) = n - m
         /\ \A k \in 1 .. n - m : SubSeq(s, m + 1, n)[k] = s[m + k]
<1> DEFINE S == {s[k] : k \in 1 .. Len(s)}
           t == SubSeq(s, m + 1, n)
<1>1. Len(s) \in Nat /\ m + 1 \in Int /\ n \in Int /\ n - (m + 1) + 1 = n - m
      /\ \A i \in m + 1 .. n : i \in 1 .. Len(s)
      /\ \A k \in 1 .. n - m : m + 1 + k - 1 = m + k
      /\ IF m + 1 <= n THEN n - (m + 1) + 1 = n - m ELSE 0 = n - m
  BY DEF Vec
<1>2. \A i \in m + 1 .. n : s[i] \in S
  BY <1>1
<1> HIDE DEF S
<1>3. /\ t \in Seq(S) /\ Len(t) = n - m
      /\ \A k \in 1 .. n - m : t[k] = s[m + k]
  BY <1>1, <1>2, SubSeqProperties
<1> HIDE DEF t
<1>4. Vec(t)
  BY <1>3 DEF Vec
<1> QED BY <1>3, <1>4 DEF t

LEMMA VecConcat ==
  ASSUME NEW s, NEW t, Vec(s), Vec(t)
  PROVE  /\ Vec(s \o t) /\ Len(s \o t) = Len(s) + Len(t)
         /\ \A k \in 1 .. Len(s) : (s \o t)[k] = s[k]
         /\ \A k \in 1 .. Len(t) : (s \o t)[Len(s) + k] = t[k]
<1> DEFINE S == {s[k] : k \in 1 .. Len(s)} \cup {t[k] : k \in 1 .. Len(t)}
<1>1. /\ \A k \in 1 .. Len(s) : s[k] \in S
      /\ \A k \in 1 .. Len(t) : t[k] \in S
  OBVIOUS
<1> HIDE DEF S
<1>2. s \in Seq(S) /\ t \in Seq(S) /\ Len(s) \in Nat /\ Len(t) \in Nat
  BY <1>1, VecOver
<1>3. /\ s \o t \in Seq(S) /\ Len(s \o t) = Len(s) + Len(t)
      /\ \A k \in 1 .. Len(s) + Len(t) :
           (s \o t)[k] = IF k <= Len(s) THEN s[k] ELSE t[k - Len(s)]
  BY <1>2, ConcatProperties
<1>4. \A u \in Seq(S) : Vec(u)
  BY DEF Vec
<1>5. \A k \in 1 .. Len(s) : (s \o t)[k] = s[k]
  BY <1>2, <1>3
<1>6. \A k \in 1 .. Len(t) : (s \o t)[Len(s) + k] = t[k]
  <2> SUFFICES ASSUME NEW k \in 1 .. Len(t) PROVE (s \o t)[Len(s) + k] = t[k]
    OBVIOUS
  <2>1. /\ Len(s) + k \in 1 .. Len(s) + Len(t) /\ ~(Len(s) + k <= Len(s))
        /\ (Len(s) + k) - Len(s) = k
    BY <1>2
  <2> QED BY <1>3, <2>1
<1> QED BY <1>3, <1>4, <1>5, <1>6

\* Two parts of b that are appended in turn.
LEMMA ConcatSplit ==
  ASSUME NEW S, NEW c \in Seq(S), NEW b \in Seq(S), NEW k \in 0 .. Len(b)
  PROVE  (c \o SubSeq(b, 1, k)) \o SubSeq(b, k + 1, Len(b)) = c \o b
<1> DEFINE t == SubSeq(b, 1, k)
           u == SubSeq(b, k + 1, Len(b))
<1>1. t \in Seq(S) /\ u \in Seq(S)
  BY SplitAt
<1>2. t \o u = b
  BY SplitAt
<1> HIDE DEF t, u
<1>3. (c \o t) \o u = c \o (t \o u)
  BY <1>1, ConcatAssociative
<1>4. (c \o t) \o u = c \o b
  BY <1>2, <1>3
<1> QED BY <1>4 DEF t, u

LEMMA VecEqual ==
  ASSUME NEW s, NEW t, Vec(s), Vec(t), Len(s) = Len(t),
         SameBytes(s, 0, t, 0, Len(s))
  PROVE  s = t
<1>1. \A k \in 1 .. Len(s) : s[0 + k] = t[0 + k] /\ 0 + k = k
  BY DEF SameBytes, Vec
<1> QED BY <1>1 DEF Vec

\* std::copy() into a vector, within its size.
LEMMA CopiedIs ==
  ASSUME NEW s, Vec(s), NEW b, Vec(b), NEW i \in Nat, i + Len(b) <= Len(s)
  PROVE  /\ Vec(Copied(s, i, b)) /\ Len(Copied(s, i, b)) = Len(s)
         /\ \A k \in 1 .. Len(s) :
              k <= i \/ k > i + Len(b) => Copied(s, i, b)[k] = s[k]
         /\ SameBytes(Copied(s, i, b), i, b, 0, Len(b))
<1> DEFINE t == Copied(s, i, b)
<1>1. Len(s) \in Nat /\ Len(b) \in Nat
  BY DEF Vec
<1>2. t = [k \in 1 .. Len(s) |->
             IF k \in i + 1 .. i + Len(b) THEN b[k - i] ELSE s[k]]
  BY DEF Copied
<1>3. \A k \in 1 .. Len(s) :
        t[k] = IF k \in i + 1 .. i + Len(b) THEN b[k - i] ELSE s[k]
  BY <1>2
<1>4. Vec(t) /\ Len(t) = Len(s)
  BY <1>1, <1>2, VecIs
<1> HIDE DEF t
<1>5. \A k \in 1 .. Len(s) : k <= i \/ k > i + Len(b) => t[k] = s[k]
  BY <1>1, <1>3
<1>6. SameBytes(t, i, b, 0, Len(b))
  <2> SUFFICES ASSUME NEW k \in 1 .. Len(b) PROVE t[i + k] = b[0 + k]
    BY DEF SameBytes
  <2>1. /\ i + k \in 1 .. Len(s) /\ i + k \in i + 1 .. i + Len(b)
        /\ (i + k) - i = k /\ 0 + k = k
    BY <1>1
  <2> QED BY <1>3, <2>1
<1> QED BY <1>4, <1>5, <1>6 DEF t

LEMMA ResizedIs ==
  ASSUME NEW s, Vec(s), NEW n \in Nat
  PROVE  /\ Vec(Resized(s, n)) /\ Len(Resized(s, n)) = n
         /\ \A k \in 1 .. n : k <= Len(s) => Resized(s, n)[k] = s[k]
BY VecIs DEF Resized

\* What is copied behind w comes behind the content.
LEMMA CopiedBehind ==
  ASSUME NEW s, NEW r, NEW w, NEW c, Holds(s, r, w, c),
         NEW b, Vec(b), w + Len(b) <= Len(s)
  PROVE  Holds(Copied(s, w, b), r, w + Len(b), c \o b)
<1> DEFINE t == Copied(s, w, b)
<1>1. /\ Vec(s) /\ Vec(c) /\ r \in Nat /\ w \in Nat /\ r <= w /\ Len(c) = w - r
      /\ CheapPrepend <= Len(s) /\ Len(b) \in Nat /\ Len(s) \in Nat
      /\ \A k \in 1 .. Len(c) : s[r + k] = c[0 + k]
  BY DEF Holds, Vec, SameBytes
<1>2. /\ Vec(t) /\ Len(t) = Len(s)
      /\ \A k \in 1 .. Len(s) : k <= w => t[k] = s[k]
      /\ \A k \in 1 .. Len(b) : t[w + k] = b[0 + k]
  BY <1>1, CopiedIs DEF SameBytes
<1>3. /\ Vec(c \o b) /\ Len(c \o b) = Len(c) + Len(b)
      /\ \A k \in 1 .. Len(c) : (c \o b)[k] = c[k]
      /\ \A k \in 1 .. Len(b) : (c \o b)[Len(c) + k] = b[k]
  BY <1>1, VecConcat
<1> HIDE DEF t
<1>4. ASSUME NEW k \in 1 .. Len(c \o b)
      PROVE  t[r + k] = (c \o b)[0 + k]
  <2>1. CASE k <= Len(c)
    <3>1. k \in 1 .. Len(c) /\ r + k \in 1 .. Len(s) /\ r + k <= w /\ 0 + k = k
      BY <1>1, <1>3, <2>1
    <3> QED BY <1>1, <1>2, <1>3, <3>1
  <2>2. CASE k > Len(c)
    <3> DEFINE j == k - Len(c)
    <3>1. /\ j \in 1 .. Len(b) /\ r + k = w + j /\ k = Len(c) + j
          /\ 0 + k = k /\ 0 + j = j
      BY <1>1, <1>3, <2>2
    <3> HIDE DEF j
    <3>2. t[w + j] = b[j] /\ (c \o b)[Len(c) + j] = b[j]
      BY <1>2, <1>3, <3>1
    <3> QED BY <3>1, <3>2
  <2> QED BY <1>1, <1>3, <2>1, <2>2
<1>5. Holds(t, r, w + Len(b), c \o b)
  BY <1>1, <1>2, <1>3, <1>4 DEF Holds, SameBytes
<1> QED BY <1>5 DEF t

\* What is copied in front of r comes before the content.
LEMMA CopiedBefore ==
  ASSUME NEW s, NEW r, NEW w, NEW c, Holds(s, r, w, c),
         NEW b, Vec(b), Len(b) <= r
  PROVE  Holds(Copied(s, r - Len(b), b), r - Len(b), w, b \o c)
<1> DEFINE q == r - Len(b)
           t == Copied(s, q, b)
<1>1. /\ Vec(s) /\ Vec(c) /\ r \in Nat /\ w \in Nat /\ r <= w /\ Len(c) = w - r
      /\ CheapPrepend <= Len(s) /\ w <= Len(s)
      /\ Len(b) \in Nat /\ Len(s) \in Nat
      /\ \A k \in 1 .. Len(c) : s[r + k] = c[0 + k]
  BY DEF Holds, Vec, SameBytes
<1>2. q \in Nat /\ q + Len(b) = r
  BY <1>1
<1> HIDE DEF q
<1>3. /\ Vec(t) /\ Len(t) = Len(s)
      /\ \A k \in 1 .. Len(s) : k > r => t[k] = s[k]
      /\ \A k \in 1 .. Len(b) : t[q + k] = b[0 + k]
  BY <1>1, <1>2, CopiedIs DEF SameBytes
<1>4. /\ Vec(b \o c) /\ Len(b \o c) = Len(b) + Len(c)
      /\ \A k \in 1 .. Len(b) : (b \o c)[k] = b[k]
      /\ \A k \in 1 .. Len(c) : (b \o c)[Len(b) + k] = c[k]
  <2>1. Vec(b) /\ Vec(c)
    BY <1>1
  <2> QED BY <2>1, VecConcat
<1> HIDE DEF t
<1>5. ASSUME NEW k \in 1 .. Len(b \o c)
      PROVE  t[q + k] = (b \o c)[0 + k]
  <2>1. CASE k <= Len(b)
    <3>1. k \in 1 .. Len(b) /\ 0 + k = k
      BY <1>1, <1>4, <2>1
    <3> QED BY <1>3, <1>4, <3>1
  <2>2. CASE k > Len(b)
    <3> DEFINE j == k - Len(b)
    <3>1. /\ k \in Nat /\ k <= Len(b) + Len(c) /\ Len(c) \in Nat
          /\ Len(b) \in Nat
      BY <1>1, <1>4
    <3>2. /\ j \in 1 .. Len(c) /\ k = Len(b) + j /\ 0 + k = k /\ 0 + j = j
      BY <2>2, <3>1
    <3>3. q + k = r + j
      BY <1>2, <3>1
    <3> HIDE DEF j
    <3>4. r + j \in 1 .. Len(s) /\ r + j > r
      BY <1>1, <3>2
    <3>5. t[r + j] = s[r + j] /\ s[r + j] = c[j] /\ (b \o c)[Len(b) + j] = c[j]
      BY <1>1, <1>3, <1>4, <3>2, <3>4
    <3> QED BY <3>2, <3>3, <3>5
  <2> QED BY <1>1, <1>4, <2>1, <2>2
<1>6. q <= w /\ Len(b) + Len(c) = w - q
  BY <1>1, <1>2
<1>7. Holds(t, q, w, b \o c)
  BY <1>1, <1>2, <1>3, <1>4, <1>5, <1>6 DEF Holds, SameBytes
<1> QED BY <1>7 DEF t, q

\* What is copied to i, where there is room, is held there.
LEMMA CopiedAt ==
  ASSUME NEW s, Vec(s), CheapPrepend <= Len(s), NEW c, Vec(c),
         NEW i \in Nat, i + Len(c) <= Len(s)
  PROVE  Holds(Copied(s, i, c), i, i + Len(c), c)
<1> DEFINE t == Copied(s, i, c)
<1>1. Vec(t) /\ Len(t) = Len(s) /\ SameBytes(t, i, c, 0, Len(c))
  BY CopiedIs
<1>2. Len(c) \in Nat
  BY DEF Vec
<1> HIDE DEF t
<1>3. Holds(t, i, i + Len(c), c)
  BY <1>1, <1>2 DEF Holds
<1> QED BY <1>3 DEF t

\* The content is the readable part.
LEMMA HeldIs ==
  ASSUME NEW s, NEW r, NEW w, NEW c, Holds(s, r, w, c)
  PROVE  SubSeq(s, r + 1, w) = c
<1> DEFINE t == SubSeq(s, r + 1, w)
<1>1. /\ Vec(s) /\ Vec(c) /\ r \in Nat /\ w \in Nat /\ r <= w /\ w <= Len(s)
      /\ Len(c) = w - r /\ \A k \in 1 .. Len(c) : s[r + k] = c[0 + k]
  BY DEF Holds, SameBytes
<1>2. Vec(t) /\ Len(t) = w - r /\ \A k \in 1 .. w - r : t[k] = s[r + k]
  BY <1>1, VecSubSeq
<1> HIDE DEF t
<1>3. \A k \in 1 .. Len(t) : t[0 + k] = c[0 + k] /\ 0 + k = k
  BY <1>1, <1>2
<1>4. SameBytes(t, 0, c, 0, Len(t))
  BY <1>3 DEF SameBytes
<1>5. t = c
  BY <1>1, <1>2, <1>4, VecEqual
<1> QED BY <1>5 DEF t

\* A longer vector holds the same.
LEMMA ResizedHolds ==
  ASSUME NEW s, NEW r, NEW w, NEW c, Holds(s, r, w, c),
         NEW n \in Nat, n >= Len(s)
  PROVE  Holds(Resized(s, n), r, w, c)
<1> DEFINE t == Resized(s, n)
<1>1. /\ Vec(s) /\ Vec(c) /\ r \in Nat /\ w \in Nat /\ r <= w /\ Len(c) = w - r
      /\ CheapPrepend <= Len(s) /\ w <= Len(s) /\ Len(s) \in Nat
      /\ \A k \in 1 .. Len(c) : s[r + k] = c[0 + k]
  BY DEF Holds, Vec, SameBytes
<1>2. Vec(t) /\ Len(t) = n /\ \A k \in 1 .. n : k <= Len(s) => t[k] = s[k]
  BY <1>1, ResizedIs
<1> HIDE DEF t
<1>3. \A k \in 1 .. Len(c) : r + k \in 1 .. n /\ r + k <= Len(s)
  BY <1>1
<1>4. SameBytes(t, r, c, 0, Len(c))
  BY <1>1, <1>2, <1>3 DEF SameBytes
<1>5. Holds(t, r, w, c)
  BY <1>1, <1>2, <1>4, BufferAssumption DEF Holds
<1> QED BY <1>5 DEF t

\* append(): whether there is room, the content moves or the vector grows.
LEMMA AppendToHolds ==
  ASSUME NEW s, NEW r, NEW w, NEW c, Holds(s, r, w, c),
         NEW b, Vec(b), AppendTo(s, r, w, b)
  PROVE  Holds(store', readerIndex', writerIndex', c \o b)
<1> DEFINE n == Len(b)
           moves == Len(s) - w < n /\ ~MustGrow(s, r, w, n)
<1>1. /\ Vec(s) /\ Vec(c) /\ r \in Nat /\ w \in Nat /\ r <= w /\ w <= Len(s)
      /\ CheapPrepend <= Len(s) /\ Len(c) = w - r
      /\ Len(b) \in Nat /\ Len(s) \in Nat /\ CheapPrepend \in Nat
  BY BufferAssumption DEF Holds, Vec
<1>2. CASE Len(s) - w >= n
  <2>1. /\ store' = Copied(s, w, b) /\ readerIndex' = r
        /\ writerIndex' = w + n
    BY <1>1, <1>2 DEF AppendTo
  <2>2. w + Len(b) <= Len(s)
    BY <1>1, <1>2
  <2> QED BY <2>1, <2>2, CopiedBehind
<1>3. CASE moves
  <2> DEFINE t == Copied(s, CheapPrepend, c)
             v == CheapPrepend + (w - r)
  <2>1. ~(Len(s) - w >= n)
    BY <1>1, <1>3
  <2>2. /\ store' = Copied(Copied(s, CheapPrepend, SubSeq(s, r + 1, w)), v, b)
        /\ readerIndex' = CheapPrepend /\ writerIndex' = v + n
    BY <1>3, <2>1 DEF AppendTo
  <2>3. SubSeq(s, r + 1, w) = c
    BY HeldIs
  <2>4. v = CheapPrepend + Len(c) /\ v + Len(b) <= Len(s) /\ v <= Len(s)
    BY <1>1, <1>3 DEF MustGrow
  <2>5. Holds(t, CheapPrepend, v, c) /\ Len(t) = Len(s)
    BY <1>1, <2>4, CopiedAt, CopiedIs
  <2> HIDE DEF v
  <2>6. store' = Copied(t, v, b)
    BY <2>2, <2>3
  <2> HIDE DEF t
  <2>7. Holds(Copied(t, v, b), CheapPrepend, v + Len(b), c \o b)
    BY <2>4, <2>5, CopiedBehind
  <2> QED BY <2>2, <2>6, <2>7
<1>4. CASE Len(s) - w < n /\ ~moves
  <2> DEFINE t == Resized(s, w + n)
  <2>1. ~(Len(s) - w >= n)
    BY <1>1, <1>4
  <2>2. store' = Copied(t, w, b) /\ readerIndex' = r /\ writerIndex' = w + n
    BY <1>4, <2>1 DEF AppendTo
  <2>3. w + n \in Nat /\ w + n >= Len(s)
    BY <1>1, <1>4
  <2>4. Holds(t, r, w, c) /\ Len(t) = w + n
    BY <1>1, <2>3, ResizedHolds, ResizedIs
  <2> HIDE DEF t
  <2>5. w + Len(b) <= Len(t)
    BY <1>1, <2>4
  <2> QED BY <2>2, <2>4, <2>5, CopiedBehind
<1>5. Len(s) - w >= n \/ Len(s) - w < n
  BY <1>1
<1> QED BY <1>2, <1>3, <1>4, <1>5

\* What is taken off either end of the content.
LEMMA TakenOff ==
  ASSUME NEW s, NEW r, NEW w, NEW c, Holds(s, r, w, c),
         NEW i \in Nat, NEW j \in Nat, r + i <= w - j
  PROVE  Holds(s, r + i, w - j, SubSeq(c, i + 1, Len(c) - j))
<1> DEFINE m == Len(c) - j
           t == SubSeq(c, i + 1, m)
<1>1. /\ Vec(s) /\ Vec(c) /\ r \in Nat /\ w \in Nat /\ r <= w /\ Len(c) = w - r
      /\ CheapPrepend <= Len(s) /\ w <= Len(s) /\ Len(s) \in Nat
      /\ \A k \in 1 .. Len(c) : s[r + k] = c[0 + k]
  BY DEF Holds, Vec, SameBytes
<1>2. m \in Nat /\ i <= m /\ m <= Len(c)
  BY <1>1
<1>3. /\ m - i = (w - j) - (r + i)
      /\ w - j \in Nat /\ r + i \in Nat /\ w - j <= Len(s)
  BY <1>1
<1> HIDE DEF m
<1>4. Vec(t) /\ Len(t) = m - i /\ \A k \in 1 .. m - i : t[k] = c[i + k]
  <2>1. Vec(c)
    BY <1>1
  <2> QED BY <1>2, <2>1, VecSubSeq
<1> HIDE DEF t
<1>5. ASSUME NEW k \in 1 .. Len(t)
      PROVE  s[(r + i) + k] = t[0 + k]
  <2> DEFINE q == i + k
  <2>1. /\ q \in 1 .. Len(c) /\ (r + i) + k = r + q /\ 0 + q = q /\ 0 + k = k
        /\ k \in 1 .. m - i
    BY <1>1, <1>2, <1>4
  <2>2. t[k] = c[q]
    BY <1>4, <2>1
  <2> HIDE DEF q
  <2>3. s[r + q] = c[q]
    BY <1>1, <2>1
  <2> QED BY <2>1, <2>2, <2>3
<1>6. SameBytes(s, r + i, t, 0, Len(t))
  BY <1>5 DEF SameBytes
<1>7. Holds(s, r + i, w - j, t)
  BY <1>1, <1>3, <1>4, <1>6 DEF Holds
<1> QED BY <1>7 DEF t, m

\* Nothing is held where the indexes meet.
LEMMA HoldsNothing ==
  ASSUME NEW s, Vec(s), CheapPrepend <= Len(s), NEW c, Vec(c), Len(c) = 0
  PROVE  Holds(s, CheapPrepend, CheapPrepend, c)
<1>1. Len(s) \in Nat /\ CheapPrepend \in Nat
  BY BufferAssumption DEF Vec
<1> QED BY <1>1 DEF Holds, SameBytes

\* An integer or an array of bytes is a sequence.
LEMMA NetworkBytesVec ==
  ASSUME NEW x
  PROVE  Vec(NetworkBytes(x)) /\ Len(NetworkBytes(x)) = IntSize
BY BufferAssumption, VecIs DEF NetworkBytes

LEMMA BufferInitInv == BufferInit => BufferInv
<1> SUFFICES ASSUME BufferInit PROVE BufferInv
  OBVIOUS
<1>1. /\ CheapPrepend \in Nat /\ InitialSize \in Nat
      /\ CheapPrepend + InitialSize \in Nat
  BY BufferAssumption
<1>2. Vec(store) /\ Len(store) = CheapPrepend + InitialSize
  BY <1>1, VecIs DEF BufferInit
<1>3. Vec(content) /\ Len(content) = 0
  BY DEF BufferInit, Vec
<1>4. CheapPrepend <= Len(store)
  BY <1>1, <1>2
<1>5. Holds(store, CheapPrepend, CheapPrepend, content)
  BY <1>2, <1>3, <1>4, HoldsNothing
<1> QED BY <1>5 DEF BufferInv, BufferInit

LEMMA RetrieveKeeps ==
  ASSUME BufferInv, NEW n, Retrieve(n)
  PROVE  BufferInv'
<1>1. /\ Holds(store, readerIndex, writerIndex, content)
      /\ readerIndex \in Nat /\ writerIndex \in Nat
      /\ Len(content) = writerIndex - readerIndex /\ Vec(store) /\ Vec(content)
      /\ CheapPrepend <= Len(store)
  BY DEF BufferInv, Holds
<1>2. /\ n \in 0 .. writerIndex - readerIndex /\ store' = store
      /\ content' = SubSeq(content, n + 1, Len(content))
  BY DEF Retrieve, ReadableBytes
<1>3. CASE n < writerIndex - readerIndex
  <2>1. readerIndex' = readerIndex + n /\ writerIndex' = writerIndex
    BY <1>3 DEF Retrieve, ReadableBytes
  <2>2. /\ n \in Nat /\ readerIndex + n <= writerIndex - 0 /\ 0 \in Nat
        /\ writerIndex - 0 = writerIndex /\ Len(content) - 0 = Len(content)
    BY <1>1, <1>2
  <2>3. Holds(store, readerIndex + n, writerIndex - 0,
              SubSeq(content, n + 1, Len(content) - 0))
    BY <1>1, <2>2, TakenOff
  <2>4. Holds(store', readerIndex', writerIndex', content')
    BY <1>2, <2>1, <2>2, <2>3
  <2> QED BY <2>4 DEF BufferInv
<1>4. CASE ~(n < writerIndex - readerIndex)
  <2>1. readerIndex' = CheapPrepend /\ writerIndex' = CheapPrepend
    BY <1>4 DEF Retrieve, ReadableBytes
  <2> DEFINE c == SubSeq(content, n + 1, Len(content))
  <2>2. n \in Nat /\ n = Len(content)
    BY <1>1, <1>2, <1>4
  <2>3. Vec(c) /\ Len(c) = Len(content) - n
    BY <1>1, <2>2, VecSubSeq
  <2>4. Len(c) = 0
    BY <2>2, <2>3
  <2> HIDE DEF c
  <2>5. Holds(store, CheapPrepend, CheapPrepend, c)
    BY <1>1, <2>3, <2>4, HoldsNothing
  <2>6. Holds(store', readerIndex', writerIndex', content')
    BY <1>2, <2>1, <2>5 DEF c
  <2> QED BY <2>6 DEF BufferInv
<1> QED BY <1>3, <1>4

LEMMA UnwriteKeeps ==
  ASSUME BufferInv, NEW n, Unwrite(n)
  PROVE  BufferInv'
<1>1. /\ Holds(store, readerIndex, writerIndex, content)
      /\ readerIndex \in Nat /\ writerIndex \in Nat
  BY DEF BufferInv, Holds
<1>2. /\ n \in 1 .. writerIndex - readerIndex
      /\ UNCHANGED <<store, readerIndex>> /\ writerIndex' = writerIndex - n
      /\ content' = SubSeq(content, 1, Len(content) - n)
  BY DEF Unwrite, ReadableBytes
<1>3. /\ n \in Nat /\ 0 \in Nat /\ readerIndex + 0 <= writerIndex - n
      /\ readerIndex + 0 = readerIndex /\ 0 + 1 = 1
  BY <1>1, <1>2
<1>4. Holds(store, readerIndex + 0, writerIndex - n,
            SubSeq(content, 0 + 1, Len(content) - n))
  BY <1>1, <1>3, TakenOff
<1>5. Holds(store', readerIndex', writerIndex', content')
  BY <1>2, <1>3, <1>4
<1> QED BY <1>5 DEF BufferInv

LEMMA AppendIntKeeps ==
  ASSUME BufferInv, NEW x, AppendInt(x)
  PROVE  BufferInv'
<1> DEFINE b == NetworkBytes(x)
<1>1. /\ AppendTo(store, readerIndex, writerIndex, b)
      /\ content' = content \o b
  BY DEF AppendInt
<1>2. Vec(b)
  BY NetworkBytesVec
<1> HIDE DEF b
<1>3. Holds(store', readerIndex', writerIndex', content \o b)
  BY <1>1, <1>2, AppendToHolds DEF BufferInv
<1> QED BY <1>1, <1>3 DEF BufferInv

LEMMA PrependIntKeeps ==
  ASSUME BufferInv, NEW x, PrependInt(x)
  PROVE  BufferInv'
<1> DEFINE b == NetworkBytes(x)
<1>1. /\ IntSize <= readerIndex /\ readerIndex' = readerIndex - IntSize
      /\ store' = Copied(store, readerIndex - IntSize, b)
      /\ content' = b \o content /\ writerIndex' = writerIndex
  BY DEF PrependInt
<1>2. Vec(b) /\ Len(b) = IntSize
  BY NetworkBytesVec
<1> HIDE DEF b
<1>3. Holds(Copied(store, readerIndex - Len(b), b), readerIndex - Len(b),
            writerIndex, b \o content)
  BY <1>1, <1>2, CopiedBefore DEF BufferInv
<1>4. Holds(store', readerIndex', writerIndex', content')
  BY <1>1, <1>2, <1>3
<1> QED BY <1>4 DEF BufferInv

LEMMA ShrinkKeeps ==
  ASSUME BufferInv, NEW reserve \in Nat, Shrink(reserve)
  PROVE  BufferInv'
<1> DEFINE n == CheapPrepend + ReadableBytes + reserve
           size == IF n < CheapPrepend + InitialSize
                   THEN CheapPrepend + InitialSize ELSE n
           t == Resized(<<>>, size)
<1>1. /\ Holds(store, readerIndex, writerIndex, content) /\ Vec(content)
      /\ Len(content) = ReadableBytes /\ ReadableBytes \in Nat
      /\ CheapPrepend \in Nat /\ InitialSize \in Nat
  BY BufferAssumption DEF BufferInv, Holds, ReadableBytes
<1>2. /\ store' = Copied(t, CheapPrepend, Readable)
      /\ readerIndex' = CheapPrepend /\ content' = content
      /\ writerIndex' = CheapPrepend + ReadableBytes
  BY DEF Shrink
<1>3. Readable = content
  BY <1>1, HeldIs DEF Readable
<1>4. /\ size \in Nat /\ CheapPrepend <= size
      /\ CheapPrepend + Len(content) <= size
  BY <1>1
<1>5. Vec(<<>>)
  BY DEF Vec
<1> HIDE DEF size
<1>6. Vec(t) /\ Len(t) = size
  BY <1>4, <1>5, ResizedIs
<1> HIDE DEF t
<1>7. Holds(Copied(t, CheapPrepend, content), CheapPrepend,
            CheapPrepend + Len(content), content)
  BY <1>1, <1>4, <1>6, CopiedAt
<1>8. Holds(store', readerIndex', writerIndex', content')
  BY <1>1, <1>2, <1>3, <1>7
<1> QED BY <1>8 DEF BufferInv

\* readFd(): what does not fit is in extrabuf, and is appended behind.
LEMMA ReadFdKeeps ==
  ASSUME BufferInv, NEW bytes, Vec(bytes), ReadFd(bytes)
  PROVE  BufferInv'
<1> DEFINE w == writerIndex
           room == Len(store) - w
           direct == IF Len(bytes) < room THEN Len(bytes) ELSE room
           head == SubSeq(bytes, 1, direct)
           filled == Copied(store, w, head)
           rest == SubSeq(bytes, direct + 1, Len(bytes))
<1>1. /\ Holds(store, readerIndex, w, content) /\ Vec(content) /\ Vec(store)
      /\ w \in Nat /\ Len(store) \in Nat /\ Len(bytes) \in Nat /\ room \in Nat
  BY DEF BufferInv, Holds, Vec
<1>2. /\ content' = content \o bytes
      /\ IF Len(bytes) <= room
           THEN /\ store' = filled /\ writerIndex' = w + Len(bytes)
                /\ readerIndex' = readerIndex
           ELSE AppendTo(filled, readerIndex, Len(store), rest)
  BY DEF ReadFd, WritableBytes, FilledIndex
<1>3. /\ direct \in Nat /\ direct <= Len(bytes) /\ w + direct <= Len(store)
      /\ Len(bytes) <= room => direct = Len(bytes)
      /\ ~(Len(bytes) <= room) => w + direct = Len(store)
      /\ 0 \in Nat /\ 0 + 1 = 1 /\ direct - 0 = direct /\ 0 <= direct
  BY <1>1
<1> HIDE DEF direct, room
<1>4. /\ Vec(head) /\ Len(head) = direct
      /\ \A k \in 1 .. direct : head[k] = bytes[0 + k]
  <2>1. /\ Vec(SubSeq(bytes, 0 + 1, direct))
        /\ Len(SubSeq(bytes, 0 + 1, direct)) = direct - 0
        /\ \A k \in 1 .. direct - 0 :
             SubSeq(bytes, 0 + 1, direct)[k] = bytes[0 + k]
    BY <1>3, VecSubSeq
  <2> QED BY <1>3, <2>1
<1>5. /\ Vec(rest) /\ Len(rest) = Len(bytes) - direct
      /\ \A k \in 1 .. Len(bytes) - direct : rest[k] = bytes[direct + k]
  BY <1>1, <1>3, VecSubSeq
<1>6. (content \o head) \o rest = content \o bytes
  <2> DEFINE S == {content[k] : k \in 1 .. Len(content)}
                    \cup {bytes[k] : k \in 1 .. Len(bytes)}
  <2>1. /\ \A k \in 1 .. Len(content) : content[k] \in S
        /\ \A k \in 1 .. Len(bytes) : bytes[k] \in S
    OBVIOUS
  <2> HIDE DEF S
  <2>2. content \in Seq(S) /\ bytes \in Seq(S)
    BY <1>1, <2>1, VecOver
  <2>3. direct \in 0 .. Len(bytes)
    BY <1>1, <1>3
  <2> QED BY <2>2, <2>3, ConcatSplit
<1> HIDE DEF head, rest
<1>7. Holds(filled, readerIndex, w + direct, content \o head)
  BY <1>1, <1>3, <1>4, CopiedBehind
<1> HIDE DEF filled
<1>8. CASE Len(bytes) <= room
  <2>1. head = bytes
    <3>1. SameBytes(head, 0, bytes, 0, Len(head))
      BY <1>3, <1>4, <1>8 DEF SameBytes
    <3> QED BY <1>3, <1>4, <1>8, <3>1, VecEqual
  <2>2. Holds(store', readerIndex', writerIndex', content')
    BY <1>2, <1>3, <1>7, <1>8, <2>1
  <2> QED BY <2>2 DEF BufferInv
<1>9. CASE ~(Len(bytes) <= room)
  <2>1. Holds(store', readerIndex', writerIndex', (content \o head) \o rest)
    BY <1>2, <1>3, <1>5, <1>7, <1>9, AppendToHolds
  <2>2. (content \o head) \o rest = content'
    BY <1>2, <1>6
  <2>3. Holds(store', readerIndex', writerIndex', content')
    BY <2>1, <2>2
  <2> QED BY <2>3 DEF BufferInv
<1> QED BY <1>8, <1>9

LEMMA BufferStep == BufferInv /\ [BufferNext]_bufferedVars => BufferInv'
<1> SUFFICES ASSUME BufferInv, [BufferNext]_bufferedVars PROVE BufferInv'
  OBVIOUS
<1>1. ASSUME NEW n \in 1..ExtraSize, ReadFd([k \in 1..n |-> k % Radix])
      PROVE  BufferInv'
  <2> DEFINE b == [k \in 1..n |-> k % Radix]
  <2>1. Vec(b)
    BY BufferAssumption, VecIs
  <2> HIDE DEF b
  <2>2. ReadFd(b)
    BY <1>1 DEF b
  <2> QED BY <2>1, <2>2, ReadFdKeeps
<1>2. ASSUME NEW n \in {0, 1}, Shrink(n)
      PROVE  BufferInv'
  <2>1. n \in Nat
    OBVIOUS
  <2> QED BY <1>2, <2>1, ShrinkKeeps
<1>3. CASE UNCHANGED bufferedVars
  BY <1>3 DEF bufferedVars, BufferInv, Vec, SameBytes
<1> QED BY <1>1, <1>2, <1>3, AppendIntKeeps, PrependIntKeeps, RetrieveKeeps,
           UnwriteKeeps DEF BufferNext

\* The readable bytes are those put in and not taken out, and an emptied buffer
\* has room for a header in front, for any sizes and any sequence of appends,
\* prepends, reads, retrievals and shrinking (Buffer.h:380, Buffer.cc:25).
THEOREM ContentAlwaysKept == BufferSpec => []ContentKept
<1>1. BufferInv => ContentKept
  <2> SUFFICES ASSUME BufferInv PROVE ContentKept
    OBVIOUS
  <2>1. Readable = content
    BY HeldIs DEF BufferInv, Readable
  <2>2. ASSUME content = <<>>
        PROVE  readerIndex + WritableBytes >= CheapPrepend
    <3>1. Len(content) = 0
      BY <2>2
    <3>2. readerIndex = writerIndex
      BY <3>1 DEF BufferInv, Holds
    <3> QED BY <3>2, BufferAssumption DEF BufferInv, Holds, WritableBytes, Vec
  <2> QED BY <2>1, <2>2 DEF ContentKept
<1> QED BY <1>1, BufferInitInv, BufferStep, PTL DEF BufferSpec

-----------------------------------------------------------------------------
(* Buffer: the integers it is written and read as.                         *)

\* Division with a rest.
LEMMA DivMod ==
  ASSUME NEW a \in Int, NEW d \in Nat, d >= 1
  PROVE  /\ a \div d \in Int /\ a % d \in 0..d - 1
         /\ a = d * (a \div d) + (a % d)
OBVIOUS

LEMMA Quotient ==
  ASSUME NEW a \in Int, NEW d \in Nat, d >= 1, NEW q \in Int, NEW r \in 0..d - 1,
         a = d * q + r
  PROVE  a \div d = q /\ a % d = r
<1> DEFINE p == a \div d
           s == a % d
<1>1. p \in Int /\ s \in 0..d - 1 /\ a = d * p + s
  BY DivMod
<1> HIDE DEF p, s
<1>2. ASSUME NEW x \in Int, NEW y \in Int, x < y,
             NEW t \in 0..d - 1, NEW u \in 0..d - 1
      PROVE  d * x + t < d * y + u
  <2>1. d * (x + 1) <= d * y
    BY <1>2
  <2>2. d * (x + 1) = d * x + d
    BY <1>2
  <2>3. d * x \in Int /\ d * y \in Int
    OBVIOUS
  <2> QED BY <1>2, <2>1, <2>2, <2>3
<1>3. p = q
  <2>1. ~ (p < q) /\ ~ (q < p)
    BY <1>1, <1>2
  <2> QED BY <1>1, <2>1
<1>4. d * q \in Int
  OBVIOUS
<1> QED BY <1>1, <1>3, <1>4 DEF p, s

\* A function that Horner's rule makes of digits a, from i on.
Steps(g, n, i, a) ==
  g = [k \in 0..n |-> IF k = 0 THEN i ELSE Radix * g[k - 1] + a[k]]

\* Horner's rule has a value for each of its steps.
LEMMA HornerIs ==
  ASSUME NEW n \in Nat, NEW i \in Int, NEW a \in [1..n -> Int]
  PROVE  \E g \in [0..n -> Int] : Steps(g, n, i, a)
<1> DEFINE Good(m) == \E g \in [0..m -> Int] : Steps(g, m, i, a)
           S == {m \in Nat : m <= n => Good(m)}
<1>1. 0 \in S
  <2> DEFINE g == [k \in 0..0 |-> i]
  <2>1. g \in [0..0 -> Int]
    OBVIOUS
  <2>2. g = [k \in 0..0 |-> IF k = 0 THEN i ELSE Radix * g[k - 1] + a[k]]
    OBVIOUS
  <2> QED BY <2>1, <2>2 DEF Steps
<1>2. ASSUME NEW m \in 1..n, m - 1 \in S PROVE m \in S
  <2>1. PICK g \in [0..m - 1 -> Int] : Steps(g, m - 1, i, a)
    BY <1>2
  <2> DEFINE h == [k \in 0..m |-> IF k = 0 THEN i ELSE Radix * g[k - 1] + a[k]]
  <2>2. \A k \in 0..m - 1 : h[k] = g[k]
    BY <2>1 DEF Steps
  <2>3. \A k \in 1..m : k - 1 \in 0..m - 1 /\ h[k] = Radix * g[k - 1] + a[k]
    OBVIOUS
  <2>4. h[0] = i
    OBVIOUS
  <2>5. h \in [0..m -> Int]
    <3>1. \A k \in 1..m : g[k - 1] \in Int /\ a[k] \in Int
      BY <2>1
    <3>2. \A k \in 1..m : Radix * g[k - 1] + a[k] \in Int
      BY <3>1, BufferAssumption
    <3> QED BY <3>2
  <2>6. h = [k \in 0..m |-> IF k = 0 THEN i ELSE Radix * h[k - 1] + a[k]]
    <3>1. h = [k \in 0..m |-> h[k]]
      OBVIOUS
    <3> HIDE DEF h
    <3>2. \A k \in 0..m : h[k] = IF k = 0 THEN i ELSE Radix * h[k - 1] + a[k]
      BY <2>2, <2>3, <2>4
    <3> QED BY <3>1, <3>2
  <2> HIDE DEF h
  <2>7. Steps(h, m, i, a)
    BY <2>6 DEF Steps
  <2> QED BY <1>2, <2>5, <2>7
<1>3. 0..n \subseteq S
  <2>1. S \in SUBSET Nat /\ \A k \in 1..n : k - 1 \in S => k \in S
    BY <1>2
  <2> HIDE DEF S
  <2> QED BY <1>1, <2>1, UpTo
<1> QED BY <1>3

LEMMA PowerIs ==
  /\ Power[0] = 1
  /\ \A k \in 1..IntSize : Power[k] = Radix * Power[k - 1]
  /\ \A k \in 0..IntSize : Power[k] \in Nat /\ Power[k] >= 1
<1> DEFINE a == [k \in 1..IntSize |-> 0]
           E(g) == g = [k \in 0..IntSize |-> IF k = 0 THEN 1 ELSE Radix * g[k - 1]]
<1>1. IntSize \in Nat /\ Radix \in Nat /\ Radix >= 2
  BY BufferAssumption
<1>2. PICK g \in [0..IntSize -> Int] : Steps(g, IntSize, 1, a)
  <2>1. a \in [1..IntSize -> Int]
    OBVIOUS
  <2> QED BY <1>1, <2>1, HornerIs
<1>3. E(g)
  <2> DEFINE h == [k \in 0..IntSize |-> IF k = 0 THEN 1 ELSE Radix * g[k - 1]]
  <2>1. \A k \in 0..IntSize : g[k] = h[k]
    <3> TAKE k \in 0..IntSize
    <3>1. g[k] = IF k = 0 THEN 1 ELSE Radix * g[k - 1] + a[k]
      BY <1>2 DEF Steps
    <3>2. CASE k = 0
      BY <3>1, <3>2
    <3>3. CASE k \in 1..IntSize
      <4>1. g[k - 1] \in Int
        BY <1>1, <1>2, <3>3
      <4>2. Radix * g[k - 1] \in Int
        BY <1>1, <4>1
      <4> QED BY <3>1, <3>3, <4>2
    <3> QED BY <1>1, <3>2, <3>3
  <2>2. g = [k \in 0..IntSize |-> g[k]] /\ h = [k \in 0..IntSize |-> h[k]]
    OBVIOUS
  <2> HIDE DEF h
  <2>3. g = h
    BY <2>1, <2>2
  <2> QED BY <2>3 DEF h
<1>4. Power = CHOOSE f : E(f)
  BY DEF Power
<1> HIDE DEF E
<1>5. E(Power)
  BY <1>3, <1>4
<1>6. /\ Power[0] = 1
      /\ \A k \in 1..IntSize : Power[k] = Radix * Power[k - 1]
  <2>1. Power = [k \in 0..IntSize |-> IF k = 0 THEN 1 ELSE Radix * Power[k - 1]]
    BY <1>5 DEF E
  <2> QED BY <1>1, <2>1
<1> DEFINE S == {k \in Nat : k <= IntSize => Power[k] \in Nat /\ Power[k] >= 1}
<1>7. 0 \in S
  BY <1>6
<1>8. ASSUME NEW k \in 1..IntSize, k - 1 \in S PROVE k \in S
  <2>1. Power[k - 1] \in Nat /\ Power[k - 1] >= 1
    BY <1>1, <1>8
  <2>2. \A x, y \in Nat : x >= 1 /\ y >= 1 => x * y \in Nat /\ x * y >= 1
    OBVIOUS
  <2>3. Radix \in Nat /\ Radix >= 1
    BY <1>1
  <2>4. Radix * Power[k - 1] \in Nat /\ Radix * Power[k - 1] >= 1
    BY <2>1, <2>2, <2>3, Zenon
  <2> QED BY <1>6, <2>4
<1>9. 0..IntSize \subseteq S
  <2>1. S \in SUBSET Nat
    OBVIOUS
  <2> HIDE DEF S
  <2> QED BY <1>1, <1>7, <1>8, <2>1, UpTo
<1> QED BY <1>6, <1>9

LEMMA UnsignedIs ==
  ASSUME NEW b, \A k \in 1..IntSize : b[k] \in Byte
  PROVE  LET v == Unsigned(b)
         IN /\ v[0] = 0
            /\ \A k \in 1..IntSize : v[k] = Radix * v[k - 1] + b[k]
            /\ \A k \in 0..IntSize : v[k] \in 0..Power[k] - 1
<1> DEFINE v == Unsigned(b)
           a == [k \in 1..IntSize |-> b[k]]
           E(g) == g = [k \in 0..IntSize |->
                          IF k = 0 THEN 0 ELSE Radix * g[k - 1] + b[k]]
<1>1. IntSize \in Nat /\ Radix \in Nat /\ Radix >= 2
  BY BufferAssumption
<1>2. PICK g \in [0..IntSize -> Int] : Steps(g, IntSize, 0, a)
  <2>1. a \in [1..IntSize -> Int]
    BY <1>1 DEF Byte
  <2> HIDE DEF a
  <2> QED BY <1>1, <2>1, HornerIs
<1>3. E(g)
  <2>1. \A k \in 0..IntSize : k # 0 => a[k] = b[k]
    BY <1>1
  <2> HIDE DEF a
  <2> QED BY <1>2, <2>1 DEF Steps
<1>4. v = CHOOSE f : E(f)
  BY DEF Unsigned
<1> HIDE DEF E, v
<1>5. E(v)
  BY <1>3, <1>4
<1>6. v[0] = 0 /\ \A k \in 1..IntSize : v[k] = Radix * v[k - 1] + b[k]
  <2>1. v = [k \in 0..IntSize |-> IF k = 0 THEN 0 ELSE Radix * v[k - 1] + b[k]]
    BY <1>5 DEF E
  <2> QED BY <1>1, <2>1
<1> DEFINE S == {k \in Nat : k <= IntSize => v[k] \in 0..Power[k] - 1}
<1>7. 0 \in S
  BY <1>6, PowerIs
<1>8. ASSUME NEW k \in 1..IntSize, k - 1 \in S PROVE k \in S
  <2> DEFINE u == v[k - 1]
             p == Power[k - 1]
  <2>1. u \in 0..p - 1
    BY <1>1, <1>8
  <2>2. p \in Nat /\ p >= 1 /\ Power[k] = Radix * p
    BY <1>1, PowerIs
  <2>3. v[k] = Radix * u + b[k] /\ b[k] \in 0..Radix - 1
    BY <1>6 DEF Byte
  <2> HIDE DEF u, p
  <2>4. Radix * (u + 1) <= Radix * p /\ Radix * (u + 1) = Radix * u + Radix
    BY <1>1, <2>1, <2>2
  <2>5. Radix * u \in Nat /\ Radix * p \in Nat
    BY <1>1, <2>1, <2>2
  <2>6. v[k] \in 0..Power[k] - 1
    BY <1>1, <2>2, <2>3, <2>4, <2>5
  <2> QED BY <2>6
<1>9. 0..IntSize \subseteq S
  <2>1. S \in SUBSET Nat
    OBVIOUS
  <2> HIDE DEF S
  <2> QED BY <1>1, <1>7, <1>8, <2>1, UpTo
<1> QED BY <1>6, <1>9 DEF v

\* What Horner's rule made of digits gives them back.
LEMMA DigitsBack ==
  ASSUME NEW w, NEW b, \A k \in 0..IntSize : w[k] \in Nat,
         \A k \in 1..IntSize : b[k] \in Byte /\ w[k] = Radix * w[k - 1] + b[k],
         NEW k \in 1..IntSize
  PROVE  (w[IntSize] \div Power[IntSize - k]) % Radix = b[k]
<1> DEFINE n == IntSize
           Rest(j) == \E r \in 0..Power[j] - 1 : w[n] = Power[j] * w[n - j] + r
           S == {j \in Nat : j <= n => Rest(j)}
<1>1. IntSize \in Nat /\ Radix \in Nat /\ Radix >= 2
  BY BufferAssumption
<1>2. 0 \in S
  <2>1. 0 \in 0..Power[0] - 1 /\ w[n] = Power[0] * w[n - 0] + 0
    BY <1>1, PowerIs
  <2> QED BY <2>1
<1>3. ASSUME NEW j \in 1..n, j - 1 \in S PROVE j \in S
  <2> DEFINE p == Power[j - 1]
             m == n - (j - 1)
             u == w[m - 1]
             c == b[m]
  <2>1. PICK r \in 0..p - 1 : w[n] = p * w[m] + r
    BY <1>1, <1>3
  <2>2. m \in 1..n /\ m - 1 = n - j /\ m - 1 \in 0..n /\ j - 1 \in 0..n
    BY <1>1
  <2>3. w[m] = Radix * u + c /\ c \in 0..Radix - 1 /\ u \in Nat
    BY <2>2 DEF Byte
  <2>4. p \in Nat /\ p >= 1 /\ Power[j] = Radix * p
    BY <1>1, <2>2, PowerIs
  <2> DEFINE t == p * c + r
  <2>5. w[n] = Power[j] * u + t /\ t \in 0..Power[j] - 1
    <3> HIDE DEF p, m, u, c
    <3>1. p * (Radix * u + c) = (Radix * p) * u + p * c
      BY <1>1, <2>3, <2>4
    <3>2. p * (c + 1) <= p * Radix /\ p * (c + 1) = p * c + p
          /\ p * Radix = Radix * p
      BY <1>1, <2>3, <2>4
    <3>3. p * c \in Nat /\ Radix * p \in Nat /\ (Radix * p) * u \in Nat
      BY <1>1, <2>3, <2>4
    <3> QED BY <2>1, <2>3, <2>4, <3>1, <3>2, <3>3
  <2>6. w[m - 1] = w[n - j]
    BY <2>2
  <2> HIDE DEF t
  <2>7. Rest(j)
    BY <2>5, <2>6
  <2> QED BY <2>7
<1>4. 0..n \subseteq S
  <2>1. S \in SUBSET Nat
    OBVIOUS
  <2> HIDE DEF S
  <2> QED BY <1>1, <1>2, <1>3, <2>1, UpTo
<1>5. n - k \in 0..n /\ n - (n - k) = k
  BY <1>1
<1>6. PICK r \in 0..Power[n - k] - 1 : w[n] = Power[n - k] * w[k] + r
  BY <1>4, <1>5
<1>7. w[n] \div Power[n - k] = w[k]
  <2>1. Power[n - k] \in Nat /\ Power[n - k] >= 1 /\ w[k] \in Int /\ w[n] \in Int
    BY <1>1, <1>5, PowerIs
  <2> QED BY <1>6, <2>1, Quotient
<1>8. w[k] % Radix = b[k]
  <2> DEFINE q == w[k - 1]
             a == w[k]
             c == b[k]
  <2>1. /\ a = Radix * q + c /\ c \in 0..Radix - 1 /\ q \in Int /\ a \in Int
    BY <1>1 DEF Byte
  <2> HIDE DEF q, a, c
  <2>2. Radix \in Nat /\ Radix >= 1
    BY <1>1
  <2>3. a % Radix = c
    BY <2>1, <2>2, Quotient
  <2> QED BY <2>3 DEF a, c
<1> QED BY <1>7, <1>8

\* An integer that was read is written as it was.
LEMMA ReadIsWritten ==
  ASSUME NEW b, b \in [1..IntSize -> Byte]
  PROVE  NetworkBytes(HostInt(b)) = b
<1> DEFINE n == IntSize
           v == Unsigned(b)
           u == v[n]
           p == Power[n]
           x == HostInt(b)
           c == IF 2 * u >= p THEN 0 ELSE 1
           w == [k \in 0..n |-> v[k] + c * Power[k]]
<1>1. n \in Nat /\ Radix \in Nat /\ Radix >= 2
  BY BufferAssumption
<1>2. \A k \in 1..n : b[k] \in Byte /\ b[k] \in Int
  BY <1>1 DEF Byte
<1>3. /\ v[0] = 0 /\ \A k \in 1..n : v[k] = Radix * v[k - 1] + b[k]
      /\ \A k \in 0..n : v[k] \in 0..Power[k] - 1
  BY <1>2, UnsignedIs
<1>4. x = IF 2 * u >= p THEN u - p ELSE u
  BY DEF HostInt
<1> HIDE DEF v, x
<1>5. \A k \in 0..n : Power[k] \in Nat
  BY PowerIs
<1>6. x + p = w[n]
  <2>1. u \in Int /\ p \in Int
    BY <1>1, <1>3, <1>5
  <2>2. w[n] = u + c * p
    BY <1>1
  <2> HIDE DEF w, u, p
  <2> QED BY <1>4, <2>1, <2>2
<1>7. c \in {0, 1}
  OBVIOUS
<1> HIDE DEF c
<1>8. \A k \in 0..n : w[k] \in Nat
  <2> TAKE k \in 0..n
  <2>1. v[k] \in Nat /\ Power[k] \in Nat
    BY <1>3, <1>5
  <2> QED BY <1>7, <2>1
<1>9. \A k \in 1..n : w[k] = Radix * w[k - 1] + b[k]
  <2> TAKE k \in 1..n
  <2> DEFINE s == v[k - 1]
             q == Power[k - 1]
  <2>1. /\ k - 1 \in 0..n /\ k \in 0..n
    BY <1>1
  <2>2. /\ v[k] = Radix * s + b[k] /\ Power[k] = Radix * q
        /\ s \in Int /\ q \in Int /\ b[k] \in Int
    BY <1>2, <1>3, <1>5, <2>1, PowerIs
  <2>3. w[k] = v[k] + c * Power[k] /\ w[k - 1] = s + c * q
    BY <2>1
  <2> HIDE DEF s, q, w
  <2>4. /\ Radix * (s + c * q) = Radix * s + c * (Radix * q)
        /\ Radix * s \in Int /\ Radix * q \in Int
    <3>1. CASE c = 0
      BY <1>1, <2>2, <3>1
    <3>2. CASE c = 1
      BY <1>1, <2>2, <3>2
    <3> QED BY <1>7, <3>1, <3>2
  <2>5. c * (Radix * q) \in Int
    BY <1>7, <2>4
  <2> QED BY <2>2, <2>3, <2>4, <2>5
<1> HIDE DEF w
<1>10. \A k \in 1..n : (w[n] \div Power[n - k]) % Radix = b[k]
  BY <1>2, <1>8, <1>9, DigitsBack
<1>11. NetworkBytes(x) = [k \in 1..n |-> b[k]]
  BY <1>6, <1>10 DEF NetworkBytes
<1> QED BY <1>11 DEF x

\* An integer that was written is read as it was, whatever its sign.
LEMMA WrittenIsRead ==
  ASSUME NEW x \in IntRange
  PROVE  HostInt(NetworkBytes(x)) = x
<1> DEFINE n == IntSize
           p == Power[n]
           y == x + p
           q == [k \in 0..n |-> y \div Power[n - k]]
           b == NetworkBytes(x)
           v == Unsigned(b)
           c == IF x < 0 THEN 0 ELSE 1
<1>1. n \in Nat /\ Radix \in Nat /\ Radix >= 2
  BY BufferAssumption
<1>2. \A k \in 0..n : Power[k] \in Nat /\ Power[k] >= 1
  BY PowerIs
<1>3. p \in Nat /\ x \in Int /\ -p <= 2 * x /\ 2 * x < p
  <2>1. p \in Nat /\ p = 2 * (p \div 2) + (p % 2) /\ p % 2 \in 0..1 /\ p \div 2 \in Int
    BY <1>1, <1>2
  <2> QED BY <2>1 DEF IntRange
<1>4. y \in Nat
  BY <1>3
<1>5. \A k \in 0..n : q[k] \in Int
  <2> TAKE k \in 0..n
  <2>1. n - k \in 0..n
    BY <1>1
  <2>2. Power[n - k] \in Nat /\ Power[n - k] >= 1
    BY <1>2, <2>1
  <2> HIDE DEF y
  <2> QED BY <1>4, <2>2, DivMod
<1>6. \A k \in 1..n : b[k] = q[k] % Radix /\ b[k] \in Byte
  <2> TAKE k \in 1..n
  <2>1. b[k] = q[k] % Radix
    BY <1>1 DEF NetworkBytes
  <2>2. q[k] \in Int
    BY <1>1, <1>5
  <2>3. Radix \in Nat /\ Radix >= 1
    BY <1>1
  <2> DEFINE e == q[k]
  <2> HIDE DEF q, b, e
  <2>4. e % Radix \in 0..Radix - 1
    BY <2>2, <2>3, DivMod DEF e
  <2> QED BY <2>1, <2>4 DEF Byte, e
<1>7. \A k \in 1..n : q[k] = Radix * q[k - 1] + b[k]
  <2> TAKE k \in 1..n
  <2> DEFINE d == Power[n - k]
             e == q[k]
             f == e \div Radix
             s == e % Radix
             r == y % d
             t == d * s + r
  <2>1. k - 1 \in 0..n /\ k \in 0..n /\ n - k \in 0..n /\ n - (k - 1) \in 1..n
        /\ (n - (k - 1)) - 1 = n - k
    BY <1>1
  <2>2. d \in Nat /\ d >= 1 /\ Power[n - (k - 1)] = Radix * d
    BY <1>2, <2>1, PowerIs
  <2>3. e = y \div d /\ e \in Int /\ q[k - 1] = y \div (Radix * d)
    BY <1>5, <2>1, <2>2
  <2> HIDE DEF y, q
  <2>4. e = Radix * f + s /\ f \in Int /\ s \in 0..Radix - 1
    <3>1. Radix \in Nat /\ Radix >= 1
      BY <1>1
    <3> HIDE DEF e
    <3> QED BY <2>3, <3>1, DivMod
  <2>5. y = d * e + r /\ r \in 0..d - 1
    <3> HIDE DEF d, e
    <3> QED BY <1>4, <2>2, <2>3, DivMod
  <2> HIDE DEF d, e, f, s, r
  <2>6. y = (Radix * d) * f + t /\ t \in 0..Radix * d - 1
    <3>1. d * (Radix * f + s) = (Radix * d) * f + d * s
      BY <1>1, <2>2, <2>4
    <3>2. d * (s + 1) <= d * Radix /\ d * (s + 1) = d * s + d /\ d * Radix = Radix * d
      BY <1>1, <2>2, <2>4
    <3>3. d * s \in Nat /\ Radix * d \in Nat /\ (Radix * d) * f \in Int
      BY <1>1, <2>2, <2>4
    <3> QED BY <2>2, <2>4, <2>5, <3>1, <3>2, <3>3
  <2>7. y \div (Radix * d) = f
    <3> DEFINE g == Radix * d
    <3>1. g \in Nat /\ g >= 1
      BY <1>1, <2>2
    <3>2. y = g * f + t /\ t \in 0..g - 1
      BY <2>6
    <3> HIDE DEF g, t
    <3>3. y \div g = f
      BY <1>4, <2>4, <3>1, <3>2, Quotient
    <3> QED BY <3>3 DEF g
  <2> QED BY <1>6, <2>3, <2>4, <2>7 DEF e, s
<1>8. /\ v[0] = 0 /\ \A k \in 1..n : v[k] = Radix * v[k - 1] + b[k]
      /\ \A k \in 0..n : v[k] \in 0..Power[k] - 1
  BY <1>6, UnsignedIs
<1>9. q[0] = c /\ q[n] = y
  <2>1. q[0] = y \div p /\ q[n] = y \div Power[0] /\ Power[0] = 1
    BY <1>1, PowerIs
  <2>2. c \in {0, 1} /\ y = p * c + (y - p * c) /\ y - p * c \in 0..p - 1
    BY <1>3
  <2>3. y \div p = c
    <3> DEFINE r == y - p * c
    <3>1. p >= 1 /\ p \in Nat
      BY <1>1, <1>2
    <3>2. y = p * c + r /\ r \in 0..p - 1 /\ c \in Int
      BY <2>2
    <3> HIDE DEF p, y, c, r
    <3> QED BY <1>4, <3>1, <3>2, Quotient
  <2>4. y \div 1 = y
    <3> HIDE DEF y
    <3> QED BY <1>4
  <2> QED BY <2>1, <2>3, <2>4
<1> HIDE DEF q, b, v
<1> DEFINE S == {k \in Nat : k <= n => v[k] = q[k] - c * Power[k]}
<1>10. c \in {0, 1}
  OBVIOUS
<1>11. 0 \in S
  BY <1>8, <1>9, <1>10, PowerIs
<1>12. ASSUME NEW k \in 1..n, k - 1 \in S PROVE k \in S
  <2> DEFINE f == q[k - 1]
             d == Power[k - 1]
             g == b[k]
  <2>1. v[k - 1] = f - c * d /\ k \in 0..n /\ k - 1 \in 0..n
    BY <1>1, <1>12
  <2>2. /\ f \in Int /\ d \in Int /\ Power[k] = Radix * d
        /\ q[k] = Radix * f + g /\ v[k] = Radix * v[k - 1] + g /\ g \in Int
    BY <1>2, <1>5, <1>6, <1>7, <1>8, <2>1, PowerIs DEF Byte
  <2> HIDE DEF f, d, g, c
  <2>3. Radix * (f - c * d) = Radix * f - c * (Radix * d) /\ Radix * f \in Int
        /\ c * (Radix * d) \in Int
    <3>1. CASE c = 0
      BY <1>1, <2>2, <3>1
    <3>2. CASE c = 1
      BY <1>1, <2>2, <3>2
    <3> QED BY <1>10, <3>1, <3>2
  <2>4. v[k] = q[k] - c * Power[k]
    BY <2>1, <2>2, <2>3
  <2> QED BY <2>4
<1>13. 0..n \subseteq S
  <2>1. S \in SUBSET Nat
    OBVIOUS
  <2> HIDE DEF S
  <2> QED BY <1>1, <1>11, <1>12, <2>1, UpTo
<1>14. v[n] = y - c * p
  <2>1. n \in S
    BY <1>1, <1>13
  <2> QED BY <1>1, <1>9, <2>1
<1>15. HostInt(b) = IF 2 * v[n] >= p THEN v[n] - p ELSE v[n]
  BY DEF HostInt, v
<1> QED BY <1>3, <1>14, <1>15 DEF b

\* What is in the vector and in what it stands for are bytes.
BytesInv == store \in Seq(Byte) /\ content \in Seq(Byte)

LEMMA CopiedBytes ==
  ASSUME NEW s \in Seq(Byte), NEW i \in Nat, NEW b \in Seq(Byte)
  PROVE  Copied(s, i, b) \in Seq(Byte)
<1>1. /\ Len(s) \in Nat /\ Len(b) \in Nat
      /\ \A k \in 1..Len(s) : s[k] \in Byte
      /\ \A k \in 1..Len(b) : b[k] \in Byte
  OBVIOUS
<1>2. \A k \in 1..Len(s) : k \in i+1..i+Len(b) => k - i \in 1..Len(b)
  BY <1>1
<1>3. Copied(s, i, b) \in [1..Len(s) -> Byte]
  BY <1>1, <1>2 DEF Copied
<1> QED BY <1>1, <1>3

LEMMA ResizedBytes ==
  ASSUME NEW s \in Seq(Byte), NEW n \in Nat
  PROVE  Resized(s, n) \in Seq(Byte)
<1>1. 0 \in Byte
  BY BufferAssumption DEF Byte
<1>2. /\ Len(s) \in Nat /\ \A k \in 1..Len(s) : s[k] \in Byte
  OBVIOUS
<1>3. \A k \in 1..n : k <= Len(s) => k \in 1..Len(s)
  BY <1>2
<1>4. Resized(s, n) \in [1..n -> Byte]
  BY <1>1, <1>2, <1>3 DEF Resized
<1> QED BY <1>4

LEMMA AppendToBytes ==
  ASSUME NEW s \in Seq(Byte), NEW r \in Nat, NEW w \in Nat, r <= w, w <= Len(s),
         NEW b \in Seq(Byte), AppendTo(s, r, w, b)
  PROVE  store' \in Seq(Byte)
<1> DEFINE n == Len(b)
           moves == Len(s) - w < n /\ ~MustGrow(s, r, w, n)
           grown == IF Len(s) - w >= n THEN s
                    ELSE IF moves
                      THEN Copied(s, CheapPrepend, SubSeq(s, r + 1, w))
                    ELSE Resized(s, w + n)
           w2 == IF moves THEN CheapPrepend + (w - r) ELSE w
<1>1. store' = Copied(grown, w2, b)
  BY DEF AppendTo
<1>2. n \in Nat /\ CheapPrepend \in Nat /\ Len(s) \in Nat
  BY BufferAssumption
<1>3. w2 \in Nat
  BY <1>2
<1> HIDE DEF w2, moves
<1>4. SubSeq(s, r + 1, w) \in Seq(Byte)
  BY <1>2
<1>5. Copied(s, CheapPrepend, SubSeq(s, r + 1, w)) \in Seq(Byte)
  BY <1>2, <1>4, CopiedBytes
<1>6. Resized(s, w + n) \in Seq(Byte)
  BY <1>2, ResizedBytes
<1>7. grown \in Seq(Byte)
  BY <1>5, <1>6
<1> HIDE DEF grown
<1> QED BY <1>1, <1>3, <1>7, CopiedBytes

LEMMA NetworkBytesAre ==
  ASSUME NEW x \in Int
  PROVE  NetworkBytes(x) \in [1..IntSize -> Byte]
<1>1. /\ IntSize \in Nat /\ Radix \in Nat /\ Radix >= 1
      /\ \A k \in 0..IntSize : Power[k] \in Nat /\ Power[k] >= 1
  BY BufferAssumption, PowerIs
<1>2. ASSUME NEW k \in 1..IntSize
      PROVE  ((x + Power[IntSize]) \div Power[IntSize - k]) % Radix \in Byte
  <2> DEFINE a == x + Power[IntSize]
             d == Power[IntSize - k]
             q == a \div d
  <2>1. IntSize \in 0..IntSize /\ IntSize - k \in 0..IntSize
    BY <1>1
  <2>2. a \in Int /\ d \in Nat /\ d >= 1
    BY <1>1, <2>1
  <2> HIDE DEF a, d
  <2>3. q \in Int
    BY <2>2, DivMod
  <2> HIDE DEF q
  <2>4. q % Radix \in 0..Radix - 1
    BY <1>1, <2>3, DivMod
  <2> QED BY <2>4 DEF Byte, q, a, d
<1> QED BY <1>2 DEF NetworkBytes

\* The integers are numbers.
LEMMA IntRangeIs == IntRange \subseteq Int
<1>1. IntSize \in 0..IntSize
  BY BufferAssumption
<1>2. Power[IntSize] \in Nat
  BY <1>1, PowerIs
<1>3. Power[IntSize] \div 2 \in Int
  BY <1>2
<1> QED BY <1>3 DEF IntRange

LEMMA BufferBytes ==
  BufferInv /\ BytesInv /\ [BufferNext]_bufferedVars => BytesInv'
<1> SUFFICES ASSUME BufferInv, BytesInv, [BufferNext]_bufferedVars PROVE BytesInv'
  OBVIOUS
<1>1. /\ store \in Seq(Byte) /\ content \in Seq(Byte)
      /\ readerIndex \in Nat /\ writerIndex \in Nat /\ readerIndex <= writerIndex
      /\ writerIndex <= Len(store) /\ Len(store) \in Nat
      /\ Len(content) = writerIndex - readerIndex /\ Len(content) \in Nat
  BY DEF BytesInv, BufferInv, Holds, Vec
<1>2. CheapPrepend \in Nat /\ InitialSize \in Nat /\ IntSize \in Nat
      /\ ExtraSize \in Nat /\ Radix \in Nat /\ Radix >= 1
  BY BufferAssumption
<1>3. ASSUME NEW x \in IntRange, AppendInt(x) PROVE BytesInv'
  <2> DEFINE b == NetworkBytes(x)
  <2>1. b \in Seq(Byte)
    BY <1>2, NetworkBytesAre, IntRangeIs
  <2>2. AppendTo(store, readerIndex, writerIndex, b) /\ content' = content \o b
    BY <1>3 DEF AppendInt
  <2> HIDE DEF b
  <2>3. store' \in Seq(Byte)
    BY <1>1, <2>1, <2>2, AppendToBytes
  <2>4. content' \in Seq(Byte)
    BY <1>1, <2>1, <2>2
  <2> QED BY <2>3, <2>4 DEF BytesInv
<1>4. ASSUME NEW x \in IntRange, PrependInt(x) PROVE BytesInv'
  <2> DEFINE b == NetworkBytes(x)
             i == readerIndex - IntSize
  <2>1. b \in Seq(Byte)
    BY <1>2, NetworkBytesAre, IntRangeIs
  <2>2. /\ store' = Copied(store, i, b) /\ content' = b \o content /\ i \in Nat
    BY <1>1, <1>2, <1>4 DEF PrependInt
  <2> HIDE DEF b, i
  <2>3. store' \in Seq(Byte)
    BY <1>1, <2>1, <2>2, CopiedBytes
  <2>4. content' \in Seq(Byte)
    BY <1>1, <2>1, <2>2
  <2> QED BY <2>3, <2>4 DEF BytesInv
<1>5. ASSUME NEW n \in Nat, Retrieve(n) PROVE BytesInv'
  <2>1. store' = store /\ content' = SubSeq(content, n + 1, Len(content))
    BY <1>5 DEF Retrieve
  <2>2. SubSeq(content, n + 1, Len(content)) \in Seq(Byte)
    BY <1>1
  <2> QED BY <1>1, <2>1, <2>2 DEF BytesInv
<1>6. ASSUME NEW n \in Nat, Unwrite(n) PROVE BytesInv'
  <2>1. /\ store' = store /\ content' = SubSeq(content, 1, Len(content) - n)
        /\ n <= Len(content)
    BY <1>1, <1>6 DEF Unwrite, ReadableBytes
  <2>2. SubSeq(content, 1, Len(content) - n) \in Seq(Byte)
    BY <1>1, <2>1
  <2> QED BY <1>1, <2>1, <2>2 DEF BytesInv
<1>7. ASSUME NEW n \in Nat, Shrink(n) PROVE BytesInv'
  <2> DEFINE m == CheapPrepend + ReadableBytes + n
             size == IF m < CheapPrepend + InitialSize
                     THEN CheapPrepend + InitialSize ELSE m
             t == Resized(<<>>, size)
  <2>1. store' = Copied(t, CheapPrepend, Readable) /\ content' = content
    BY <1>7 DEF Shrink
  <2>2. size \in Nat
    BY <1>1, <1>2 DEF ReadableBytes
  <2> HIDE DEF size
  <2>3. t \in Seq(Byte)
    <3> DEFINE none == <<>>
    <3>1. none \in Seq(Byte)
      OBVIOUS
    <3> HIDE DEF none
    <3>2. Resized(none, size) \in Seq(Byte)
      BY <2>2, <3>1, ResizedBytes
    <3> QED BY <3>2 DEF none
  <2>4. Readable \in Seq(Byte)
    BY <1>1 DEF Readable
  <2> HIDE DEF t
  <2>5. store' \in Seq(Byte)
    BY <1>2, <2>1, <2>3, <2>4, CopiedBytes
  <2> QED BY <1>1, <2>1, <2>5 DEF BytesInv
<1>8. ASSUME NEW n \in 1..ExtraSize, ReadFd([k \in 1..n |-> k % Radix])
      PROVE  BytesInv'
  <2> DEFINE b == [k \in 1..n |-> k % Radix]
             room == Len(store) - writerIndex
             direct == IF Len(b) < room THEN Len(b) ELSE room
             head == SubSeq(b, 1, direct)
             filled == Copied(store, writerIndex, head)
             rest == SubSeq(b, direct + 1, Len(b))
  <2>1. b \in Seq(Byte)
    <3>1. \A k \in 1..n : k % Radix \in Byte
      <4> TAKE k \in 1..n
      <4>1. k \in Int
        BY <1>2
      <4>2. k % Radix \in 0..Radix - 1
        BY <1>2, <4>1, DivMod
      <4> QED BY <4>2 DEF Byte
    <3>2. n \in Nat
      BY <1>2
    <3> QED BY <3>1, <3>2
  <2>2. ReadFd(b)
    BY <1>8
  <2> HIDE DEF b
  <2>3. /\ content' = content \o b
        /\ IF Len(b) <= room THEN store' = filled
           ELSE AppendTo(filled, readerIndex, Len(store), rest)
    BY <2>2 DEF ReadFd, WritableBytes, FilledIndex
  <2>4. Len(b) \in Nat /\ room \in Nat /\ direct \in Nat /\ direct <= Len(b)
    BY <1>1, <2>1
  <2> HIDE DEF room, direct
  <2>5. head \in Seq(Byte) /\ rest \in Seq(Byte)
    BY <2>1, <2>4
  <2> HIDE DEF head, rest
  <2>6. filled \in Seq(Byte) /\ Len(filled) = Len(store)
    <3>1. Len(filled) = Len(store)
      BY <1>1 DEF Copied
    <3> QED BY <1>1, <2>5, <3>1, CopiedBytes
  <2> HIDE DEF filled
  <2>7. store' \in Seq(Byte)
    <3>1. CASE Len(b) <= room
      BY <2>3, <2>6, <3>1
    <3>2. CASE ~(Len(b) <= room)
      <4>1. AppendTo(filled, readerIndex, Len(store), rest)
        BY <2>3, <3>2
      <4>2. readerIndex <= Len(store) /\ Len(store) <= Len(filled)
        BY <1>1, <2>6
      <4> QED BY <1>1, <2>5, <2>6, <4>1, <4>2, AppendToBytes
    <3> QED BY <3>1, <3>2
  <2>8. content' \in Seq(Byte)
    BY <1>1, <2>1, <2>3
  <2> QED BY <2>7, <2>8 DEF BytesInv
<1>9. CASE UNCHANGED bufferedVars
  BY <1>1, <1>9 DEF bufferedVars, BytesInv
<1>10. ASSUME NEW n \in 0..MaxSize PROVE n \in Nat
  BY BufferAssumption
<1>11. ASSUME NEW n \in {0, 1} PROVE n \in Nat
  OBVIOUS
<1> QED BY <1>3, <1>4, <1>5, <1>6, <1>7, <1>8, <1>9, <1>10, <1>11 DEF BufferNext

LEMMA BufferInvariant == BufferSpec => [](BufferInv /\ BytesInv)
<1>1. BufferInit => BytesInv
  <2> SUFFICES ASSUME BufferInit PROVE BytesInv
    OBVIOUS
  <2>1. 0 \in Byte /\ CheapPrepend + InitialSize \in Nat
    BY BufferAssumption DEF Byte
  <2>2. store \in [1..CheapPrepend + InitialSize -> Byte]
    BY <2>1 DEF BufferInit
  <2> QED BY <2>1, <2>2 DEF BufferInit, BytesInv
<1> QED BY <1>1, BufferInitInv, BufferStep, BufferBytes, PTL DEF BufferSpec

\* Every byte of the vector is one, and the indexes are in their order within
\* it (Buffer.h:399).
THEOREM BufferAlwaysTyped == BufferSpec => []BufferTypeOK
<1>1. BufferInv /\ BytesInv => BufferTypeOK
  BY DEF BufferInv, BytesInv, Holds, BufferTypeOK
<1> QED BY <1>1, BufferInvariant, PTL

\* For a byte of any number of values and integers of any number of bytes: what
\* is read from the front of the buffer is written as it was there, and so is an
\* integer read back that was written, whatever its sign (Buffer.h:221).
THEOREM IntegersKept ==
  /\ \A b \in [1..IntSize -> Byte] : NetworkBytes(HostInt(b)) = b
  /\ \A x \in IntRange : HostInt(NetworkBytes(x)) = x
BY ReadIsWritten, WrittenIsRead

\* The buffer keeps its content, and an integer is read back as it was written,
\* for any sizes and any sequence of the operations (Buffer.h:290).
THEOREM BufferAlwaysRight == BufferSpec => []BufferRight
<1>1. BufferInv /\ BytesInv /\ ContentKept => BufferRight
  <2> SUFFICES ASSUME BufferInv, BytesInv, ContentKept,
                      ReadableBytes >= IntSize
               PROVE  NetworkBytes(HostInt(SubSeq(Readable, 1, IntSize)))
                        = SubSeq(content, 1, IntSize)
    BY DEF BufferRight
  <2> DEFINE b == SubSeq(content, 1, IntSize)
  <2>1. /\ content \in Seq(Byte) /\ IntSize \in Nat /\ IntSize <= Len(content)
    BY BufferAssumption DEF BytesInv, BufferInv, Holds, ReadableBytes
  <2>2. b \in [1..IntSize -> Byte]
    <3>1. b \in Seq(Byte) /\ Len(b) = IntSize
      BY <2>1, SubSeqProperties
    <3> HIDE DEF b
    <3> QED BY <3>1, LenProperties
  <2>3. SubSeq(Readable, 1, IntSize) = b
    BY DEF ContentKept
  <2> HIDE DEF b
  <2>4. NetworkBytes(HostInt(b)) = b
    BY <2>2, ReadIsWritten
  <2> QED BY <2>3, <2>4 DEF b
<1> QED BY <1>1, BufferInvariant, ContentAlwaysKept, PTL

-----------------------------------------------------------------------------
(* Codecs: frames in a stream.                                             *)

FrameKinds == {"good", "checksum", "type", "unparsable", "length"}
FrameType == [len : Nat, kind : FrameKinds, raw : BOOLEAN]
Unit == [frame : Nat, at : Nat]

\* Bytes of frame i.
Full(fs, i) == LenBytes + fs[i].len

\* The frames of which the stream s has units.
FramesIn(s) == {s[k].frame : k \in DOMAIN s}

\* Each unit of s stands in its frame, of which s has all units in order.
UnitsStand(fs, s) ==
  \A k \in DOMAIN s :
    /\ s[k].frame \in DOMAIN fs
    /\ s[k].at \in 1 .. Full(fs, s[k].frame)
    /\ s[k].at <= k
    /\ k - s[k].at + Full(fs, s[k].frame) <= Len(s)
    /\ \A j \in 1 .. Full(fs, s[k].frame) :
         s[k - s[k].at + j].frame = s[k].frame /\ s[k - s[k].at + j].at = j

\* The frames come in order and once each, and s has the last ones.
FramesStand(fs, s) ==
  /\ \A k, l \in DOMAIN s : k <= l => s[k].frame <= s[l].frame
  /\ \A k, l \in DOMAIN s :
       s[k].frame = s[l].frame => k - s[k].at = l - s[l].at
  /\ \A i, j \in DOMAIN fs :
       i < j /\ j \notin FramesIn(s) => i \notin FramesIn(s)

\* A frame that is sent stands behind the others.
LEMMA FrameComes ==
  ASSUME NEW fs \in Seq(FrameType), NEW s \in Seq(Unit), NEW f \in FrameType,
         NEW w \in Seq(Unit), Len(w) = LenBytes + f.len,
         \A k \in 1 .. Len(w) : w[k].frame = Len(fs) + 1 /\ w[k].at = k,
         UnitsStand(fs, s), FramesStand(fs, s)
  PROVE  /\ UnitsStand(Append(fs, f), s \o w)
         /\ FramesStand(Append(fs, f), s \o w)
         /\ FramesIn(s \o w) = FramesIn(s) \cup {Len(fs) + 1}
         /\ FramesIn(s) \subseteq DOMAIN fs
<1> DEFINE gs == Append(fs, f)  t == s \o w  n == Len(fs) + 1
<1>1. /\ t \in Seq(Unit) /\ Len(t) = Len(s) + Len(w) /\ DOMAIN t = 1 .. Len(t)
      /\ \A k \in 1 .. Len(s) : t[k] = s[k]
      /\ \A k \in 1 .. Len(w) : t[Len(s) + k] = w[k]
  <2>1. \A k \in 1 .. Len(s) + Len(w) :
          t[k] = IF k <= Len(s) THEN s[k] ELSE w[k - Len(s)]
    BY ConcatProperties
  <2>2. t \in Seq(Unit) /\ Len(t) = Len(s) + Len(w)
    BY ConcatProperties
  <2>3. \A k \in 1 .. Len(s) : t[k] = s[k]
    BY <2>1
  <2>4. \A k \in 1 .. Len(w) :
          Len(s) + k \in 1 .. Len(s) + Len(w) /\ ~(Len(s) + k <= Len(s))
          /\ Len(s) + k - Len(s) = k
    OBVIOUS
  <2>5. \A k \in 1 .. Len(w) : t[Len(s) + k] = w[k]
    BY <2>1, <2>4
  <2> HIDE DEF t
  <2> QED BY <2>2, <2>3, <2>5
<1>2. /\ gs \in Seq(FrameType) /\ Len(gs) = n /\ gs[n] = f
      /\ DOMAIN gs = 1 .. n /\ DOMAIN fs = 1 .. n - 1 /\ n \in Nat
      /\ \A i \in 1 .. n - 1 : gs[i] = fs[i] /\ fs[i] \in FrameType
      /\ n \in DOMAIN gs
  OBVIOUS
<1>3. DOMAIN s = 1 .. Len(s) /\ Len(s) \in Nat /\ DOMAIN w = 1 .. Len(w)
      /\ Len(w) \in Nat /\ f.len \in Nat /\ LenBytes \in Nat /\ Len(w) > 0
  BY CodecAssumption DEF FrameType
<1> HIDE DEF gs, t, n
<1>4. ASSUME NEW i \in 1 .. n - 1
      PROVE  Full(gs, i) = Full(fs, i) /\ Full(fs, i) \in Nat /\ i \in DOMAIN gs
  <2>1. fs[i] \in FrameType /\ fs[i].len \in Nat
    BY <1>2 DEF FrameType
  <2> QED BY <1>2, <1>3, <2>1 DEF Full
<1>5. Full(gs, n) = Len(w)
  BY <1>2 DEF Full
<1>6. ASSUME NEW k \in 1 .. Len(s)
      PROVE  s[k].frame \in 1 .. n - 1 /\ s[k].at \in Nat
  <2>1. s[k] \in Unit /\ k \in DOMAIN s
    BY <1>3
  <2>2. s[k].frame \in 1 .. n - 1
    BY <1>2, <2>1 DEF UnitsStand
  <2> QED BY <2>1, <2>2 DEF Unit
<1>7. \A k \in 1 .. Len(w) : /\ t[Len(s) + k].frame = n
                           /\ t[Len(s) + k].at = k
  BY <1>1 DEF n
<1>8. ASSUME NEW k \in DOMAIN t
      PROVE  \/ k \in 1 .. Len(s)
             \/ \E l \in 1 .. Len(w) : k = Len(s) + l
  <2>1. CASE k > Len(s)
    <3>1. k - Len(s) \in 1 .. Len(w) /\ k = Len(s) + (k - Len(s))
      BY <1>1, <1>3, <2>1
    <3> QED BY <3>1
  <2> QED BY <1>1, <1>3, <2>1
<1>9. FramesIn(t) = FramesIn(s) \cup {n}
  <2>1. FramesIn(t) \subseteq FramesIn(s) \cup {n}
    <3> SUFFICES ASSUME NEW k \in DOMAIN t
                 PROVE  t[k].frame \in FramesIn(s) \cup {n}
      BY DEF FramesIn
    <3>1. CASE k \in 1 .. Len(s)
      BY <1>1, <1>3, <3>1 DEF FramesIn
    <3>2. ASSUME NEW l \in 1 .. Len(w), k = Len(s) + l
          PROVE  t[k].frame \in FramesIn(s) \cup {n}
      BY <1>7, <3>2
    <3> QED BY <1>8, <3>1, <3>2
  <2>2. FramesIn(s) \subseteq FramesIn(t)
    BY <1>1, <1>3 DEF FramesIn
  <2>3. Len(s) + 1 \in DOMAIN t /\ t[Len(s) + 1].frame = n
    <3>1. 1 \in 1 .. Len(w) /\ Len(s) + 1 \in 1 .. Len(t)
      BY <1>1, <1>3
    <3> QED BY <1>1, <1>7, <3>1
  <2> QED BY <2>1, <2>2, <2>3 DEF FramesIn
<1>10. FramesIn(s) \subseteq 1 .. n - 1
  BY <1>3, <1>6 DEF FramesIn
<1>11. UnitsStand(gs, t)
  <2> SUFFICES ASSUME NEW k \in DOMAIN t
               PROVE  /\ t[k].frame \in DOMAIN gs
                      /\ t[k].at \in 1 .. Full(gs, t[k].frame)
                      /\ t[k].at <= k
                      /\ k - t[k].at + Full(gs, t[k].frame) <= Len(t)
                      /\ \A j \in 1 .. Full(gs, t[k].frame) :
                           t[k - t[k].at + j].frame = t[k].frame /\ t[k - t[k].at + j].at = j
    BY DEF UnitsStand
  <2>1. CASE k \in 1 .. Len(s)
    <3> DEFINE i == s[k].frame  a == s[k].at  m == Full(fs, i)
    <3>1. /\ t[k] = s[k] /\ i \in 1 .. n - 1 /\ a \in 1 .. m
          /\ a <= k /\ k - a + m <= Len(s)
          /\ \A j \in 1 .. m : s[k - a + j].frame = i /\ s[k - a + j].at = j
      BY <1>1, <1>3, <1>6, <2>1 DEF UnitsStand
    <3>2. Full(gs, i) = m /\ m \in Nat /\ i \in DOMAIN gs
      BY <1>4, <3>1
    <3> HIDE DEF i, a, m
    <3>6. a <= k /\ k - a + m <= Len(s) /\ a \in 1 .. m
      BY <3>1
    <3>7. k \in Nat /\ a \in Nat
      BY <1>3, <2>1, <3>2, <3>6
    <3>8. Len(s) <= Len(t) /\ Len(t) \in Nat
      BY <1>1, <1>3
    <3>3. k - a + m <= Len(t)
      BY <1>3, <3>2, <3>6, <3>7, <3>8
    <3>4. \A j \in 1 .. m : k - a + j \in 1 .. Len(s)
      BY <1>3, <3>2, <3>6, <3>7
    <3>5. \A j \in 1 .. m : t[k - a + j].frame = i /\ t[k - a + j].at = j
      BY <1>1, <3>1, <3>4
    <3> QED BY <3>1, <3>2, <3>3, <3>5 DEF i, a
  <2>2. ASSUME NEW l \in 1 .. Len(w), k = Len(s) + l
        PROVE  /\ t[k].frame \in DOMAIN gs
               /\ t[k].at \in 1 .. Full(gs, t[k].frame)
               /\ t[k].at <= k
               /\ k - t[k].at + Full(gs, t[k].frame) <= Len(t)
               /\ \A j \in 1 .. Full(gs, t[k].frame) :
                    t[k - t[k].at + j].frame = t[k].frame /\ t[k - t[k].at + j].at = j
    <3>1. t[k].frame = n /\ t[k].at = l
      BY <1>7, <2>2
    <3>2. t[k].frame = n /\ t[k].at = l /\ k - l = Len(s) /\ l <= k
      BY <1>3, <2>2, <3>1
    <3>3. n \in DOMAIN gs
      BY <1>2
    <3>4. Len(s) + Len(w) <= Len(t)
      BY <1>1, <1>3
    <3> QED BY <1>5, <1>7, <3>2, <3>3, <3>4
  <2> QED BY <1>8, <2>1, <2>2
<1>12. ASSUME NEW k \in 1 .. Len(w)
       PROVE  /\ t[Len(s) + k].frame = n /\ t[Len(s) + k].at = k
              /\ Len(s) + k - k = Len(s)
  BY <1>3, <1>7
<1>13. ASSUME NEW k \in DOMAIN t
       PROVE  /\ k \notin 1 .. Len(s) => /\ t[k].frame = n
                                        /\ k - t[k].at = Len(s)
              /\ k \in 1 .. Len(s) => t[k].frame \in 1 .. n - 1 /\ t[k].frame # n
              /\ t[k].frame <= n
  <2>1. k \notin 1 .. Len(s) => t[k].frame = n /\ k - t[k].at = Len(s)
    <3> SUFFICES ASSUME k \notin 1 .. Len(s)
                 PROVE  t[k].frame = n /\ k - t[k].at = Len(s)
      OBVIOUS
    <3>1. PICK l \in 1 .. Len(w) : k = Len(s) + l
      BY <1>8
    <3>2. t[k].frame = n /\ t[k].at = l
      BY <1>12, <3>1
    <3>3. k - l = Len(s)
      BY <1>12, <3>1
    <3> QED BY <3>2, <3>3
  <2>2. k \in 1 .. Len(s) => t[k].frame \in 1 .. n - 1 /\ t[k].frame # n
    BY <1>1, <1>2, <1>6
  <2> QED BY <1>2, <2>1, <2>2
<1>14. FramesStand(gs, t)
  <2>1. ASSUME NEW k \in DOMAIN t, NEW l \in DOMAIN t, k <= l
        PROVE  t[k].frame <= t[l].frame
    <3>1. CASE l \in 1 .. Len(s)
      <4>1. k \in 1 .. Len(s)
        BY <1>1, <1>3, <2>1, <3>1
      <4> QED BY <1>1, <1>3, <2>1, <3>1, <4>1 DEF FramesStand
    <3>2. CASE l \notin 1 .. Len(s)
      <4>1. t[l].frame = n
        BY <1>13, <3>2
      <4>2. t[k].frame <= n
        BY <1>13
      <4> QED BY <4>1, <4>2
    <3> QED BY <3>1, <3>2
  <2>2. ASSUME NEW i \in DOMAIN gs, NEW j \in DOMAIN gs, i < j, j \notin FramesIn(t)
        PROVE  i \notin FramesIn(t)
    <3>1. i \in 1 .. n - 1 /\ j \in 1 .. n - 1
      BY <1>2, <1>9, <2>2
    <3>2. i \notin FramesIn(s)
      BY <1>2, <1>9, <2>2, <3>1 DEF FramesStand
    <3> QED BY <1>2, <1>9, <3>1, <3>2
  <2>3. ASSUME NEW k \in DOMAIN t, NEW l \in DOMAIN t, t[k].frame = t[l].frame
        PROVE  k - t[k].at = l - t[l].at
    <3>1. CASE t[k].frame = n
      BY <1>13, <2>3, <3>1
    <3>2. CASE t[k].frame # n
      <4>1. k \in 1 .. Len(s) /\ l \in 1 .. Len(s)
        BY <1>13, <2>3, <3>2
      <4> QED BY <1>1, <1>3, <2>3, <4>1 DEF FramesStand
    <3> QED BY <3>1, <3>2
  <2> QED BY <2>1, <2>2, <2>3 DEF FramesStand
<1> QED BY <1>2, <1>9, <1>10, <1>11, <1>14 DEF gs, t, n

\* retrieve() of the first frame leaves the others.
LEMMA FrameGoes ==
  ASSUME NEW fs \in Seq(FrameType), NEW s \in Seq(Unit), s # <<>>,
         UnitsStand(fs, s), FramesStand(fs, s)
  PROVE  LET i == s[1].frame  n == Full(fs, i)  t == SubSeq(s, n + 1, Len(s))
         IN /\ i \in DOMAIN fs /\ n \in 1 .. Len(s) /\ s[1].at = 1
            /\ \A j \in 1 .. n : s[j].frame = i /\ s[j].at = j
            /\ UnitsStand(fs, t) /\ FramesStand(fs, t)
            /\ FramesIn(t) = FramesIn(s) \ {i}
            /\ i \in FramesIn(s)
            /\ \A j \in FramesIn(s) : i <= j /\ j \in DOMAIN fs
<1> DEFINE i == s[1].frame  n == Full(fs, i)  t == SubSeq(s, n + 1, Len(s))
<1>1. Len(s) \in Nat /\ Len(s) > 0 /\ DOMAIN s = 1 .. Len(s) /\ 1 \in DOMAIN s
  OBVIOUS
<1>2. ASSUME NEW k \in DOMAIN fs PROVE Full(fs, k) \in Nat /\ Full(fs, k) > 0
  <2>1. fs[k] \in FrameType
    OBVIOUS
  <2> QED BY <2>1, CodecAssumption DEF Full, FrameType
<1>3. ASSUME NEW k \in DOMAIN s PROVE s[k].frame \in Nat /\ s[k].at \in Nat
  <2>1. s[k] \in Unit
    OBVIOUS
  <2> QED BY <2>1 DEF Unit
<1>4. /\ i \in DOMAIN fs /\ s[1].at = 1 /\ n \in 1 .. Len(s)
      /\ \A j \in 1 .. n : s[j].frame = i /\ s[j].at = j
  <2>1. /\ i \in DOMAIN fs /\ s[1].at \in 1 .. n /\ s[1].at <= 1
        /\ 1 - s[1].at + n <= Len(s)
        /\ \A j \in 1 .. n : s[1 - s[1].at + j].frame = i /\ s[1 - s[1].at + j].at = j
    BY <1>1 DEF UnitsStand
  <2>2. n \in Nat /\ n > 0
    BY <1>2, <2>1
  <2>3. s[1].at = 1
    BY <2>1, <2>2
  <2> HIDE DEF i, n
  <2>4. \A j \in 1 .. n : 1 - s[1].at + j = j
    BY <2>2, <2>3
  <2> QED BY <1>1, <2>1, <2>2, <2>3, <2>4
<1>5. /\ t \in Seq(Unit) /\ Len(t) = Len(s) - n /\ DOMAIN t = 1 .. Len(s) - n
      /\ \A k \in 1 .. Len(s) - n : t[k] = s[k + n]
  <2> HIDE DEF n, i
  <2>1. n \in Nat /\ n <= Len(s)
    BY <1>1, <1>4
  <2>2. /\ t \in Seq(Unit) /\ Len(t) = Len(s) - n
        /\ \A k \in 1 .. Len(s) - n : t[k] = s[n + 1 + k - 1]
    <3> DEFINE a == n + 1  z == Len(s)
    <3>1. a = n + 1 /\ z \in Nat /\ n \in Nat /\ n <= z
      BY <1>1, <2>1
    <3>2. \A k \in a .. z : s[k] \in Unit
      BY <1>1, <2>1
    <3> HIDE DEF a, z
    <3>6. a \in Int /\ z \in Int /\ z - a + 1 = z - n
      BY <3>1
    <3>7. ~(a <= z) => z - n = 0
      BY <3>1
    <3>3. /\ SubSeq(s, a, z) \in Seq(Unit)
          /\ Len(SubSeq(s, a, z)) = IF a <= z THEN z - a + 1 ELSE 0
          /\ \A k \in 1 .. z - a + 1 : SubSeq(s, a, z)[k] = s[a + k - 1]
      BY <3>2, <3>6, SubSeqProperties
    <3>4. Len(SubSeq(s, a, z)) = z - n
      BY <3>3, <3>6, <3>7
    <3>5. \A k \in 1 .. z - n : SubSeq(s, a, z)[k] = s[a + k - 1]
      BY <3>3, <3>6
    <3> QED BY <3>3, <3>4, <3>5 DEF a, z
  <2>3. \A k \in 1 .. Len(s) - n : n + 1 + k - 1 = k + n
    BY <1>1, <2>1
  <2> HIDE DEF t
  <2>4. \A k \in 1 .. Len(s) - n : t[k] = s[k + n]
    BY <2>2, <2>3
  <2>5. DOMAIN t = 1 .. Len(t)
    BY <2>2
  <2>6. DOMAIN t = 1 .. Len(s) - n
    BY <2>2, <2>5, Zenon
  <2> QED BY <2>2, <2>4, <2>6, Zenon
<1> HIDE DEF i, n, t
<1>6. n \in Nat /\ n > 0 /\ n <= Len(s) /\ i \in Nat
  BY <1>1, <1>3, <1>4 DEF i
<1>7. \A k \in DOMAIN t : k \in Nat /\ k > 0 /\ k + n \in DOMAIN s /\ t[k] = s[k + n]
  BY <1>1, <1>5, <1>6
<1>8. ASSUME NEW k \in DOMAIN s, k > n
      PROVE  /\ s[k].frame # i /\ s[k].at <= k - n /\ k - n \in DOMAIN t
             /\ t[k - n] = s[k]
  <2> DEFINE e == s[k].frame  b == k - s[k].at
  <2>1. /\ e \in DOMAIN fs /\ s[k].at \in 1 .. Full(fs, e) /\ s[k].at <= k
        /\ \A j \in 1 .. Full(fs, e) : s[b + j].frame = e /\ s[b + j].at = j
    BY DEF UnitsStand
  <2>2. k \in Nat /\ Full(fs, e) \in Nat /\ Full(fs, e) > 0 /\ b \in Nat
        /\ s[k].at \in Nat
    BY <1>1, <1>2, <1>3, <2>1
  <2>3. s[b + 1].frame = e /\ s[b + 1].at = 1
    <3>1. 1 \in 1 .. Full(fs, e)
      BY <2>2
    <3> HIDE DEF b, e
    <3> QED BY <2>1, <3>1, Zenon
  <2>4. b >= n
    <3> SUFFICES ASSUME b < n PROVE FALSE
      BY <1>6, <2>2
    <3>1. b + 1 \in 1 .. n
      BY <1>6, <2>2
    <3>2. s[b + 1].frame = i /\ s[b + 1].at = b + 1
      BY <1>4, <3>1
    <3>3. b + 1 = 1 /\ e = i
      BY <2>3, <3>2
    <3>4. s[k].at <= n /\ b = 0
      BY <2>1, <2>2, <3>3 DEF n
    <3> QED BY <1>6, <1>8, <2>2, <3>4
  <2>5. e # i
    <3> SUFFICES ASSUME e = i PROVE FALSE
      OBVIOUS
    <3>1. k - s[k].at = 1 - s[1].at
      BY <1>1 DEF FramesStand, i
    <3> QED BY <1>4, <1>6, <1>8, <2>2, <2>4, <3>1
  <2>6. k - n \in DOMAIN t /\ t[k - n] = s[k]
    <3>1. k - n \in DOMAIN t /\ k - n + n = k
      BY <1>1, <1>5, <1>6, <1>8, <2>2
    <3> QED BY <1>7, <3>1
  <2> QED BY <1>6, <2>2, <2>4, <2>5, <2>6
<1>9. FramesIn(t) = FramesIn(s) \ {i} /\ i \in FramesIn(s)
  <2>1. \A k \in DOMAIN t : t[k].frame \in FramesIn(s) \ {i}
    <3> SUFFICES ASSUME NEW k \in DOMAIN t PROVE t[k].frame \in FramesIn(s) \ {i}
      OBVIOUS
    <3>1. k + n \in DOMAIN s /\ k + n > n /\ t[k] = s[k + n]
      BY <1>6, <1>7
    <3> QED BY <1>8, <3>1 DEF FramesIn
  <2>2. \A k \in DOMAIN s : s[k].frame # i => s[k].frame \in FramesIn(t)
    <3> SUFFICES ASSUME NEW k \in DOMAIN s, s[k].frame # i
                 PROVE  s[k].frame \in FramesIn(t)
      OBVIOUS
    <3>1. k > n
      <4>1. ~(k \in 1 .. n)
        <5>1. \A j \in 1 .. n : s[j].frame = i
          BY <1>4
        <5> QED BY <5>1
      <4> QED BY <1>1, <1>6, <4>1
    <3> QED BY <1>8, <3>1 DEF FramesIn
  <2>3. i \in FramesIn(s)
    BY <1>1 DEF i, FramesIn
  <2> QED BY <2>1, <2>2, <2>3 DEF FramesIn
<1>10. \A j \in FramesIn(s) : i <= j /\ j \in DOMAIN fs
  <2>1. \A k \in DOMAIN s : 1 <= k
    BY <1>1
  <2> QED BY <1>1, <2>1 DEF FramesIn, UnitsStand, FramesStand, i
<1>11. UnitsStand(fs, t)
  <2> SUFFICES ASSUME NEW k \in DOMAIN t
               PROVE  /\ t[k].frame \in DOMAIN fs
                      /\ t[k].at \in 1 .. Full(fs, t[k].frame)
                      /\ t[k].at <= k
                      /\ k - t[k].at + Full(fs, t[k].frame) <= Len(t)
                      /\ \A j \in 1 .. Full(fs, t[k].frame) :
                           t[k - t[k].at + j].frame = t[k].frame /\ t[k - t[k].at + j].at = j
    BY DEF UnitsStand
  <2> DEFINE e == s[k + n].frame  a == s[k + n].at  m == Full(fs, e)
  <2>1. k \in Nat /\ k > 0 /\ k + n \in DOMAIN s /\ t[k] = s[k + n] /\ k + n > n
    BY <1>6, <1>7
  <2>2. /\ e \in DOMAIN fs /\ a \in 1 .. m /\ (k + n) - a + m <= Len(s)
        /\ \A j \in 1 .. m : s[(k + n) - a + j].frame = e /\ s[(k + n) - a + j].at = j
    <3> DEFINE h == k + n
    <3>1. h \in DOMAIN s
      BY <2>1
    <3> HIDE DEF h
    <3>2. /\ s[h].frame \in DOMAIN fs
          /\ s[h].at \in 1 .. Full(fs, s[h].frame)
          /\ h - s[h].at + Full(fs, s[h].frame) <= Len(s)
          /\ \A j \in 1 .. Full(fs, s[h].frame) :
               s[h - s[h].at + j].frame = s[h].frame /\ s[h - s[h].at + j].at = j
      BY <3>1 DEF UnitsStand
    <3>3. k + n = h
      BY DEF h
    <3> HIDE DEF h
    <3>4. e = s[h].frame /\ a = s[h].at /\ m = Full(fs, s[h].frame)
      BY <3>3
    <3> HIDE DEF e, a, m
    <3>5. \A j \in 1 .. m : (k + n) - a + j = h - a + j
      BY <3>3
    <3>6. (k + n) - a + m = h - a + m
      BY <3>3
    <3>7. e \in DOMAIN fs /\ a \in 1 .. m /\ h - a + m <= Len(s)
      BY <3>2, <3>4
    <3>8. \A j \in 1 .. m : s[h - a + j].frame = e /\ s[h - a + j].at = j
      BY <3>2, <3>4, Zenon
    <3>9. \A j \in 1 .. m : s[(k + n) - a + j].frame = e /\ s[(k + n) - a + j].at = j
      BY <3>3, <3>8, Zenon
    <3> QED BY <3>6, <3>7, <3>9, Zenon
  <2>3. m \in Nat /\ a \in Nat
    BY <1>2, <1>3, <2>1, <2>2
  <2>4. a <= (k + n) - n
    <3> DEFINE h == k + n
    <3>1. h \in DOMAIN s /\ h > n
      BY <2>1
    <3> HIDE DEF h
    <3>2. s[h].at <= h - n
      BY <1>8, <3>1
    <3>3. k + n = h
      BY DEF h
    <3>4. a = s[h].at
      BY <3>3
    <3> HIDE DEF a
    <3> QED BY <3>2, <3>3, <3>4, Zenon
  <2> HIDE DEF e, a, m
  <2>5. a <= k /\ k - a + m <= Len(t)
    BY <1>1, <1>5, <1>6, <2>1, <2>2, <2>3, <2>4
  <2>6. \A j \in 1 .. m : /\ k - a + j \in 1 .. Len(s) - n
                         /\ k - a + j + n = (k + n) - a + j
    <3> DEFINE z == Len(s) - n
    <3>1. z \in Int /\ k - a + m <= z /\ a <= k /\ k \in Nat /\ n \in Nat
      BY <1>1, <1>5, <1>6, <2>1, <2>5
    <3> HIDE DEF z
    <3>2. ASSUME NEW j \in 1 .. m
          PROVE  k - a + j \in 1 .. z /\ k - a + j + n = (k + n) - a + j
      <4>1. j \in Nat /\ j > 0 /\ j <= m
        BY <2>3
      <4>2. k - a + j \in 1 .. z
        <5> DEFINE q == k - a
        <5>1. q \in Nat /\ q + m <= z
          BY <2>3, <3>1
        <5> HIDE DEF q
        <5>2. q + j \in 1 .. z
          BY <2>3, <3>1, <4>1, <5>1
        <5> QED BY <5>2 DEF q
      <4>3. k - a + j + n = (k + n) - a + j
        BY <2>3, <3>1, <4>1
      <4> QED BY <4>2, <4>3
    <3> QED BY <3>2 DEF z
  <2>7. \A j \in 1 .. m : t[k - a + j].frame = e /\ t[k - a + j].at = j
    BY <1>5, <2>2, <2>6
  <2> QED BY <2>1, <2>2, <2>5, <2>7 DEF e, a, m
<1>12. FramesStand(fs, t)
  <2>1. ASSUME NEW k \in DOMAIN t, NEW l \in DOMAIN t
        PROVE  /\ k <= l => t[k].frame <= t[l].frame
               /\ t[k].frame = t[l].frame => k - t[k].at = l - t[l].at
    <3>1. /\ k + n \in DOMAIN s /\ l + n \in DOMAIN s
          /\ t[k] = s[k + n] /\ t[l] = s[l + n]
          /\ k \in Nat /\ l \in Nat
      BY <1>7
    <3> DEFINE g == k + n  h == l + n
    <3>2. k <= l => g <= h
      BY <1>6, <3>1
    <3>3. g \in DOMAIN s /\ h \in DOMAIN s /\ t[k] = s[g] /\ t[l] = s[h]
      BY <3>1
    <3> HIDE DEF g, h
    <3>4. /\ k <= l => s[g].frame <= s[h].frame
          /\ s[g].frame = s[h].frame => g - s[g].at = h - s[h].at
      BY <3>2, <3>3 DEF FramesStand
    <3>5. s[g].at \in Nat /\ s[h].at \in Nat
      BY <1>3, <3>3
    <3>7. g = k + n /\ h = l + n
      BY DEF g, h
    <3> DEFINE x == s[g].at  y == s[h].at
    <3>8. x \in Nat /\ y \in Nat
      BY <3>5
    <3> HIDE DEF x, y
    <3>10. k \in Int /\ l \in Int /\ n \in Int /\ x \in Int /\ y \in Int
      BY <1>6, <3>1, <3>8
    <3>9. g - x = h - y => k - x = l - y
      <4>1. (k + n) - x = (l + n) - y => k - x = l - y
        BY <3>10
      <4> QED BY <3>7, <4>1, Zenon
    <3>6. g - s[g].at = h - s[h].at => k - s[g].at = l - s[h].at
      BY <3>9 DEF x, y
    <3> QED BY <3>3, <3>4, <3>6
  <2>2. ASSUME NEW x \in DOMAIN fs, NEW y \in DOMAIN fs, x < y, y \notin FramesIn(t)
        PROVE  x \notin FramesIn(t)
    <3>1. CASE y = i
      BY <1>9, <1>10, <2>2, <3>1
    <3>2. CASE y # i
      BY <1>9, <2>2, <3>2 DEF FramesStand
    <3> QED BY <3>1, <3>2
  <2> QED BY <2>1, <2>2 DEF FramesStand
<1> QED BY <1>4, <1>9, <1>10, <1>11, <1>12 DEF i, n, t

\* What has been sent and not been taken out of the buffer.
Rest == inBuffer \o units

\* The frames that are gone were faultless, and the callback had those that
\* rawCb_ left to it; between two calls of onMessage() the frame at the start
\* is not whole or faulty.
CodecInv ==
  /\ codec \in {"lite", "example", "asio"}
  /\ frames \in Seq(FrameType)
  /\ \A i \in DOMAIN frames :
       frames[i].kind = "length" <=> frames[i].len \notin MinLen .. MaxLen
  /\ \A i \in DOMAIN frames : frames[i].kind = "length" => frames[i].raw
  /\ units \in Seq(Unit) /\ inBuffer \in Seq(Unit)
  /\ parsing \in BOOLEAN
  /\ UnitsStand(frames, Rest) /\ FramesStand(frames, Rest)
  /\ \A i \in DOMAIN frames \ FramesIn(Rest) : Faultless(frames[i])
  /\ messages \in Seq(Nat)
  /\ \A k, l \in DOMAIN messages : k < l => messages[k] < messages[l]
  /\ Range(messages) = {i \in DOMAIN frames \ FramesIn(Rest) : frames[i].raw}
  /\ ~parsing /\ inBuffer # <<>> => ~(Whole(First) /\ Faultless(frames[First]))

\* The buffer and what has not arrived, as one.
LEMMA RestIs ==
  ASSUME inBuffer \in Seq(Unit), units \in Seq(Unit)
  PROVE  /\ Rest \in Seq(Unit) /\ Len(Rest) = Len(inBuffer) + Len(units)
         /\ \A k \in DOMAIN inBuffer : k \in DOMAIN Rest /\ Rest[k] = inBuffer[k]
         /\ \A k \in DOMAIN units : /\ Len(inBuffer) + k \in DOMAIN Rest
                                   /\ Rest[Len(inBuffer) + k] = units[k]
         /\ \A k \in DOMAIN Rest : \/ k \in DOMAIN inBuffer
                                  \/ /\ k > Len(inBuffer)
                                     /\ k - Len(inBuffer) \in DOMAIN units
         /\ inBuffer # <<>> => /\ Rest # <<>> /\ inBuffer[1] = Rest[1]
                               /\ 1 \in DOMAIN inBuffer
<1> DEFINE r == inBuffer \o units
<1>1. r \in Seq(Unit) /\ Len(r) = Len(inBuffer) + Len(units)
  BY ConcatProperties
<1>2. \A k \in 1 .. Len(inBuffer) + Len(units) :
        r[k] = IF k <= Len(inBuffer) THEN inBuffer[k] ELSE units[k - Len(inBuffer)]
  BY ConcatProperties
<1> HIDE DEF r
<1>3. /\ DOMAIN inBuffer = 1 .. Len(inBuffer) /\ DOMAIN units = 1 .. Len(units)
      /\ DOMAIN r = 1 .. Len(r) /\ Len(inBuffer) \in Nat /\ Len(units) \in Nat
  BY <1>1
<1>4. \A k \in DOMAIN inBuffer : k \in DOMAIN r /\ r[k] = inBuffer[k]
  BY <1>1, <1>2, <1>3
<1>5. ASSUME NEW k \in DOMAIN units
      PROVE  Len(inBuffer) + k \in DOMAIN r /\ r[Len(inBuffer) + k] = units[k]
  <2>1. /\ Len(inBuffer) + k \in 1 .. Len(inBuffer) + Len(units)
        /\ ~(Len(inBuffer) + k <= Len(inBuffer))
        /\ (Len(inBuffer) + k) - Len(inBuffer) = k
    BY <1>3
  <2> QED BY <1>1, <1>2, <1>3, <2>1
<1>6. \A k \in DOMAIN r : \/ k \in DOMAIN inBuffer
                         \/ (k > Len(inBuffer) /\ k - Len(inBuffer) \in DOMAIN units)
  BY <1>1, <1>3
<1>7. inBuffer # <<>> => r # <<>> /\ inBuffer[1] = r[1] /\ 1 \in DOMAIN inBuffer
  <2> SUFFICES ASSUME inBuffer # <<>>
               PROVE  r # <<>> /\ inBuffer[1] = r[1] /\ 1 \in DOMAIN inBuffer
    OBVIOUS
  <2>1. 1 \in DOMAIN inBuffer
    BY <1>3
  <2>2. r[1] = inBuffer[1] /\ 1 \in DOMAIN r
    BY <1>4, <2>1
  <2> QED BY <2>1, <2>2
<1> QED BY <1>1, <1>4, <1>5, <1>6, <1>7 DEF Rest, r

LEMMA LeastLen ==
  ASSUME codec \in {"lite", "example", "asio"} PROVE MinLen \in Nat
BY CodecAssumption DEF MinLen

\* A frame the peer makes up is of a valid length or of kind "length".
LEMMA FramesTyped ==
  ASSUME codec \in {"lite", "example", "asio"}, NEW f \in FramesOf(codec)
  PROVE  /\ f \in FrameType
         /\ f.kind = "length" <=> f.len \notin MinLen .. MaxLen
         /\ f.kind = "length" => f.raw
<1> DEFINE least == MinLen
           kinds == {"good", "checksum", "type", "unparsable"}
           lens == ({least - 1} \cap Nat) \cup {MaxLen + 1}
<1>1. MinLen \in Nat /\ MaxLen \in Nat
  BY CodecAssumption DEF MinLen
<1>2. f \in [len : least .. MaxLen, kind : kinds, raw : BOOLEAN]
           \cup [len : lens, kind : {"length"}, raw : {TRUE}]
  <2>1. CASE codec = "lite"
    BY <2>1 DEF FramesOf, MinLen
  <2>2. CASE codec = "example"
    BY <2>2 DEF FramesOf, MinLen
  <2>3. CASE codec = "asio"
    BY <2>3 DEF FramesOf, MinLen
  <2> QED BY <2>1, <2>2, <2>3
<1>3. CASE f \in [len : least .. MaxLen, kind : kinds, raw : BOOLEAN]
  <2>1. f.len \in least .. MaxLen /\ f.kind \in kinds /\ f.raw \in BOOLEAN
    BY <1>3
  <2>2. f.len \in Nat
    BY <1>1, <2>1
  <2>3. f.kind \in FrameKinds /\ f.kind # "length"
    BY <2>1 DEF FrameKinds
  <2>4. f = [len |-> f.len, kind |-> f.kind, raw |-> f.raw]
    BY <1>3
  <2>5. f \in FrameType
    BY <2>1, <2>2, <2>3, <2>4 DEF FrameType
  <2> QED BY <2>1, <2>3, <2>5
<1>4. CASE f \in [len : lens, kind : {"length"}, raw : {TRUE}]
  <2>1. f.len \in lens /\ f.kind = "length" /\ f.raw = TRUE
    BY <1>4
  <2>2. f.len \in Nat /\ f.len \notin MinLen .. MaxLen
    BY <1>1, <2>1
  <2>3. f = [len |-> f.len, kind |-> f.kind, raw |-> f.raw]
    BY <1>4
  <2>4. f \in FrameType
    BY <2>1, <2>2, <2>3 DEF FrameType, FrameKinds
  <2> QED BY <2>1, <2>2, <2>4
<1> QED BY <1>2, <1>3, <1>4

\* The frame at the start of the buffer.
LEMMA FirstStands ==
  ASSUME CodecInv, inBuffer # <<>>
  PROVE  /\ First \in DOMAIN frames /\ inBuffer[1].at = 1
         /\ Full(frames, First) \in 1 .. Len(Rest)
         /\ First \in FramesIn(Rest)
         /\ \A j \in FramesIn(Rest) : First <= j
         /\ Whole(First) <=> Complete
<1> DEFINE n == Full(frames, First)
<1>1. /\ Rest \in Seq(Unit) /\ Rest # <<>> /\ inBuffer[1] = Rest[1]
      /\ Len(Rest) = Len(inBuffer) + Len(units)
      /\ frames \in Seq(FrameType)
      /\ UnitsStand(frames, Rest) /\ FramesStand(frames, Rest)
  BY RestIs DEF CodecInv
<1>2. /\ First \in DOMAIN frames /\ n \in 1 .. Len(Rest)
      /\ inBuffer[1].at = 1
      /\ \A j \in 1 .. n : Rest[j].frame = First /\ Rest[j].at = j
      /\ FramesIn(SubSeq(Rest, n + 1, Len(Rest))) = FramesIn(Rest) \ {First}
      /\ First \in FramesIn(Rest)
      /\ \A j \in FramesIn(Rest) : First <= j
  <2> DEFINE s == Rest
  <2>1. s \in Seq(Unit) /\ s # <<>> /\ frames \in Seq(FrameType)
        /\ UnitsStand(frames, s) /\ FramesStand(frames, s)
    BY <1>1
  <2>2. First = s[1].frame
    BY <1>1 DEF First
  <2>3. inBuffer[1].at = s[1].at
    BY <1>1
  <2> HIDE DEF s
  <2> DEFINE i == s[1].frame  m == Full(frames, i)
             t == SubSeq(s, m + 1, Len(s))
  <2>4. /\ i \in DOMAIN frames /\ m \in 1 .. Len(s) /\ s[1].at = 1
        /\ \A j \in 1 .. m : s[j].frame = i /\ s[j].at = j
        /\ FramesIn(t) = FramesIn(s) \ {i}
        /\ i \in FramesIn(s)
        /\ \A j \in FramesIn(s) : i <= j /\ j \in DOMAIN frames
    BY <2>1, FrameGoes, Zenon
  <2> QED BY <2>2, <2>3, <2>4 DEF s
<1>3. units \in Seq(Unit) /\ inBuffer \in Seq(Unit)
  BY DEF CodecInv
<1>4. Complete <=> n <= Len(inBuffer)
  BY <1>1, <1>2, <1>3 DEF Complete, Full
<1>5. Whole(First) => n <= Len(inBuffer)
  <2> SUFFICES ASSUME ~(n <= Len(inBuffer)) PROVE ~Whole(First)
    OBVIOUS
  <2>1. n \in DOMAIN Rest /\ n \in 1 .. n /\ n \notin DOMAIN inBuffer
    BY <1>1, <1>2, <1>3
  <2>2. n - Len(inBuffer) \in DOMAIN units
    BY <2>1, <1>3, RestIs
  <2>3. Len(inBuffer) + (n - Len(inBuffer)) = n
    BY <1>1, <1>2, <1>3
  <2>4. units[n - Len(inBuffer)] = Rest[n]
    BY <2>2, <2>3, <1>3, RestIs
  <2> QED BY <1>2, <2>1, <2>2, <2>4 DEF Whole
<1>6. n <= Len(inBuffer) => Whole(First)
  <2> SUFFICES ASSUME n <= Len(inBuffer), NEW k \in DOMAIN units,
                      units[k].frame = First
               PROVE  FALSE
    BY DEF Whole
  <2> DEFINE m == Len(inBuffer) + k  t == SubSeq(Rest, n + 1, Len(Rest))
  <2>1. m \in DOMAIN Rest /\ Rest[m].frame = First
    BY <1>3, RestIs
  <2>2. 1 \in DOMAIN Rest /\ Rest[1].frame = First /\ Rest[1].at = 1
    BY <1>1, <1>2 DEF First
  <2>3. m - Rest[m].at = 1 - 1
    BY <1>1, <2>1, <2>2 DEF FramesStand
  <2>4. Rest[m] \in Unit /\ Rest[m].at \in Nat
    <3>1. Rest[m] \in Unit
      BY <1>1, <2>1
    <3> QED BY <3>1 DEF Unit
  <2>5. Rest[m].at \in 1 .. n
    BY <1>1, <2>1 DEF UnitsStand
  <2>6. m \in Nat /\ m > n
    BY <1>1, <1>2, <1>3
  <2> HIDE DEF m, n
  <2> QED BY <1>2, <2>3, <2>4, <2>5, <2>6
<1> QED BY <1>2, <1>4, <1>5, <1>6

\* The peer's next frame.
LEMMA PeerSendsInv ==
  ASSUME CodecInv, NEW frame \in FramesOf(codec), PeerSends(frame)
  PROVE  CodecInv'
<1> DEFINE n == Len(frames) + 1  w == UnitsOf(n, frame)
<1>1. /\ frame \in FrameType
      /\ frame.kind = "length" <=> frame.len \notin MinLen .. MaxLen
      /\ frame.kind = "length" => frame.raw
  BY FramesTyped DEF CodecInv
<1>2. frames' = Append(frames, frame) /\ units' = units \o w
  <2>1. frames' = Append(frames, frame) /\ Len(frames') = n
    BY DEF PeerSends, CodecInv
  <2> QED BY <2>1 DEF PeerSends
<1>3. UNCHANGED <<codec, inBuffer, parsing, messages>> /\ MinLen' = MinLen
  BY DEF PeerSends, MinLen
<1>4. /\ w \in Seq(Unit) /\ Len(w) = LenBytes + frame.len
      /\ \A k \in 1 .. Len(w) : w[k].frame = n /\ w[k].at = k
  <2>1. n \in Nat /\ LenBytes + frame.len \in Nat
    BY <1>1, CodecAssumption DEF CodecInv, FrameType
  <2>2. w = [k \in 1 .. LenBytes + frame.len |-> [frame |-> n, at |-> k]]
    BY DEF UnitsOf
  <2> HIDE DEF w, n
  <2>3. \A k \in 1 .. LenBytes + frame.len : [frame |-> n, at |-> k] \in Unit
    BY <2>1 DEF Unit
  <2> QED BY <2>1, <2>2, <2>3
<1>5. Rest' = Rest \o w /\ Rest \in Seq(Unit)
  <2>1. units \in Seq(Unit) /\ inBuffer \in Seq(Unit)
    BY DEF CodecInv
  <2>2. inBuffer \o (units \o w) = (inBuffer \o units) \o w
    BY <1>4, <2>1, ConcatAssociative
  <2> HIDE DEF w
  <2> QED BY <1>2, <1>3, <2>1, <2>2, RestIs DEF Rest
<1>6. /\ UnitsStand(frames, Rest)' /\ FramesStand(frames, Rest)'
      /\ FramesIn(Rest)' = FramesIn(Rest) \cup {n}
      /\ FramesIn(Rest) \subseteq DOMAIN frames
  <2>1. frames \in Seq(FrameType) /\ UnitsStand(frames, Rest)
        /\ FramesStand(frames, Rest)
    BY DEF CodecInv
  <2> HIDE DEF w
  <2>2. /\ UnitsStand(Append(frames, frame), Rest \o w)
        /\ FramesStand(Append(frames, frame), Rest \o w)
        /\ FramesIn(Rest \o w) = FramesIn(Rest) \cup {n}
        /\ FramesIn(Rest) \subseteq DOMAIN frames
    BY <1>1, <1>4, <1>5, <2>1, FrameComes
  <2>3. /\ UnitsStand(frames', Rest') /\ FramesStand(frames', Rest')
        /\ FramesIn(Rest') = FramesIn(Rest) \cup {n}
    BY <1>2, <1>5, <2>2
  <2> QED BY <2>2, <2>3
<1>7. /\ frames' \in Seq(FrameType) /\ DOMAIN frames' = DOMAIN frames \cup {n}
      /\ \A i \in DOMAIN frames : frames'[i] = frames[i] /\ i # n
      /\ frames'[n] = frame
  <2>1. frames \in Seq(FrameType)
    BY DEF CodecInv
  <2> QED BY <1>1, <1>2, <2>1
<1>8. DOMAIN frames' \ FramesIn(Rest)' = DOMAIN frames \ FramesIn(Rest)
  BY <1>6, <1>7
<1>9. units' \in Seq(Unit) /\ \A k \in DOMAIN units : k \in DOMAIN units'
                                                  /\ units'[k] = units[k]
  <2>1. units \in Seq(Unit)
    BY DEF CodecInv
  <2> HIDE DEF w
  <2> QED BY <1>2, <1>4, <2>1, ConcatProperties
<1> HIDE DEF n, w
<1>10. \A i \in DOMAIN frames' \ FramesIn(Rest)' : Faultless(frames[i])'
  BY <1>7, <1>8 DEF CodecInv, Faultless
<1>11. Range(messages)' = {i \in DOMAIN frames' \ FramesIn(Rest)' : frames'[i].raw}
  BY <1>3, <1>7, <1>8 DEF CodecInv
<1>12. (~parsing /\ inBuffer # <<>> => ~(Whole(First) /\ Faultless(frames[First])))'
  <2> SUFFICES ASSUME ~parsing, inBuffer # <<>>, Whole(First)',
                      Faultless(frames[First])'
               PROVE  FALSE
    BY <1>3
  <2>1. First' = First
    BY <1>3 DEF First
  <2>2. First \in DOMAIN frames
    BY FirstStands
  <2>3. Whole(First)
    BY <1>9, <2>1 DEF Whole
  <2>4. Faultless(frames[First])
    BY <1>7, <2>1, <2>2 DEF Faultless
  <2> QED BY <2>3, <2>4 DEF CodecInv
<1>13. /\ codec' \in {"lite", "example", "asio"} /\ inBuffer' \in Seq(Unit)
       /\ parsing' \in BOOLEAN /\ messages' \in Seq(Nat)
       /\ \A k, l \in DOMAIN messages' : k < l => messages'[k] < messages'[l]
  BY <1>3 DEF CodecInv
<1>14. /\ \A i \in DOMAIN frames' :
            frames'[i].kind = "length" <=> frames'[i].len \notin MinLen .. MaxLen
       /\ \A i \in DOMAIN frames' : frames'[i].kind = "length" => frames'[i].raw
  BY <1>1, <1>7 DEF CodecInv
<1> QED BY <1>3, <1>6, <1>7, <1>9, <1>10, <1>11, <1>12, <1>13, <1>14 DEF CodecInv

\* A piece of the stream arrives.
LEMMA OnMessageInv ==
  ASSUME CodecInv, NEW n \in 1 .. Len(units), OnMessage(n)
  PROVE  CodecInv'
<1>1. /\ UNCHANGED <<codec, frames, messages>> /\ MinLen' = MinLen
      /\ parsing' = TRUE
      /\ inBuffer' = inBuffer \o SubSeq(units, 1, n)
      /\ units' = SubSeq(units, n + 1, Len(units))
  BY DEF OnMessage, MinLen
<1>2. units \in Seq(Unit) /\ inBuffer \in Seq(Unit)
  BY DEF CodecInv
<1>3. n \in 0 .. Len(units)
  BY <1>2
<1>4. /\ SubSeq(units, 1, n) \in Seq(Unit)
      /\ SubSeq(units, n + 1, Len(units)) \in Seq(Unit)
      /\ SubSeq(units, 1, n) \o SubSeq(units, n + 1, Len(units)) = units
  BY <1>2, <1>3, SplitAt
<1> DEFINE a == SubSeq(units, 1, n)  b == SubSeq(units, n + 1, Len(units))
<1>5. a \in Seq(Unit) /\ b \in Seq(Unit) /\ a \o b = units
  BY <1>4
<1>6. inBuffer' = inBuffer \o a /\ units' = b
  BY <1>1
<1> HIDE DEF a, b
<1>7. Rest' = Rest
  <2>1. (inBuffer \o a) \o b = inBuffer \o (a \o b)
    <3>1. inBuffer \in Seq(Unit) /\ a \in Seq(Unit) /\ b \in Seq(Unit)
      BY <1>2, <1>5
    <3> QED BY <3>1, ConcatAssociative
  <2>2. Rest' = inBuffer' \o units' /\ Rest = inBuffer \o units
    BY DEF Rest
  <2> QED BY <1>5, <1>6, <2>1, <2>2, Zenon
<1>8. units' \in Seq(Unit) /\ inBuffer' \in Seq(Unit)
  BY <1>2, <1>5, <1>6, ConcatProperties
<1> QED BY <1>1, <1>7, <1>8 DEF CodecInv, Faultless

\* The loop ends.
LEMMA LoopEndsInv ==
  ASSUME CodecInv, WaitForMore \/ ReportError
  PROVE  CodecInv'
<1>1. UNCHANGED <<codec, frames, messages, units, inBuffer>> /\ parsing' = FALSE
  BY DEF WaitForMore, ReportError, AfterError
<1>2. MinLen' = MinLen /\ Rest' = Rest /\ First' = First
  BY <1>1 DEF MinLen, Rest, First
<1>3. inBuffer # <<>> => ~(Whole(First) /\ Faultless(frames[First]))
  <2> SUFFICES ASSUME inBuffer # <<>>, Whole(First), Faultless(frames[First])
               PROVE  FALSE
    OBVIOUS
  <2>1. First \in DOMAIN frames /\ Complete
    BY FirstStands
  <2>2. ValidLen
    BY <2>1 DEF ValidLen, CodecInv, Faultless
  <2>3. EnoughBytes
    <3>1. MinLen \in Nat /\ LenBytes \in Nat /\ MaxLen \in Nat
      BY CodecAssumption, LeastLen DEF CodecInv
    <3>2. Len(inBuffer) \in Nat
      BY DEF CodecInv
    <3> QED BY <2>1, <2>2, <3>1, <3>2 DEF EnoughBytes, ValidLen, Complete
  <2> QED BY <2>1, <2>2, <2>3 DEF WaitForMore, ReportError, Parses, Faultless
<1> QED BY <1>1, <1>2, <1>3 DEF CodecInv, Faultless, Whole

\* The first frame has been dealt with; the callback got it if rawCb_ had not.
LEMMA FrameDoneInv ==
  ASSUME CodecInv, SkipRaw \/ Deliver
  PROVE  CodecInv'
<1> DEFINE n == Full(frames, First)
<1>1. /\ UNCHANGED <<codec, frames, units, parsing>> /\ MinLen' = MinLen
      /\ parsing /\ EnoughBytes /\ ValidLen /\ Complete
      /\ inBuffer' = SubSeq(inBuffer, n + 1, Len(inBuffer))
  BY DEF SkipRaw, Deliver, RetrieveFrame, Full, MinLen
<1>2. inBuffer # <<>>
  <2>1. MinLen \in Nat /\ LenBytes \in Nat /\ LenBytes > 0
    BY CodecAssumption, LeastLen DEF CodecInv
  <2>2. Len(inBuffer) > 0
    <3>1. Len(inBuffer) >= MinLen + LenBytes /\ Len(inBuffer) \in Nat
      BY <1>1 DEF EnoughBytes, CodecInv
    <3> QED BY <2>1, <3>1
  <2> QED BY <2>2
<1>3. /\ First \in DOMAIN frames /\ n \in 1 .. Len(Rest)
      /\ First \in FramesIn(Rest)
      /\ \A j \in FramesIn(Rest) : First <= j
      /\ Whole(First) <=> Complete
  BY <1>2, FirstStands
<1>4. units \in Seq(Unit) /\ inBuffer \in Seq(Unit) /\ frames \in Seq(FrameType)
  BY DEF CodecInv
<1>5. n \in 0 .. Len(inBuffer)
  BY <1>1, <1>3, <1>4 DEF Complete, Full
<1> DEFINE a == SubSeq(inBuffer, 1, n)
           b == SubSeq(inBuffer, n + 1, Len(inBuffer))
<1>6. a \in Seq(Unit) /\ b \in Seq(Unit) /\ a \o b = inBuffer /\ Len(a) = n
  <2>1. a \in Seq(Unit) /\ b \in Seq(Unit) /\ a \o b = inBuffer
    BY <1>4, <1>5, SplitAt
  <2> HIDE DEF n
  <2>2. Len(a) = n
    BY <1>4, <1>5
  <2> QED BY <2>1, <2>2
<1>7. inBuffer' = b /\ inBuffer' \in Seq(Unit)
  BY <1>1, <1>6
<1> HIDE DEF n, a, b
<1>8. Rest' = SubSeq(Rest, n + 1, Len(Rest))
  <2> DEFINE c == b \o units
  <2>1. Rest = a \o c /\ Rest' = c /\ c \in Seq(Unit)
    <3>1. c \in Seq(Unit)
      BY <1>4, <1>6, ConcatProperties
    <3>2. (a \o b) \o units = a \o (b \o units)
      <4>1. units \in Seq(Unit) /\ a \in Seq(Unit) /\ b \in Seq(Unit)
        BY <1>4, <1>6
      <4> QED BY <4>1, ConcatAssociative
    <3>3. Rest' = inBuffer' \o units' /\ Rest = inBuffer \o units
      BY DEF Rest
    <3> QED BY <1>1, <1>6, <1>7, <3>1, <3>2, <3>3, Zenon
  <2> HIDE DEF c
  <2>2. SubSeq(a \o c, Len(a) + 1, Len(a \o c)) = c
    BY <1>6, <2>1, SuffixOf
  <2> QED BY <1>6, <2>1, <2>2
<1>9. /\ UnitsStand(frames, Rest)' /\ FramesStand(frames, Rest)'
      /\ FramesIn(Rest)' = FramesIn(Rest) \ {First}
  <2> DEFINE s == Rest
  <2>1. s \in Seq(Unit) /\ s # <<>> /\ UnitsStand(frames, s)
        /\ FramesStand(frames, s) /\ First = s[1].frame
    BY <1>2, <1>4, RestIs DEF CodecInv, First
  <2>2. n = Full(frames, s[1].frame)
    BY <2>1 DEF n
  <2>3. Rest' = SubSeq(s, Full(frames, s[1].frame) + 1, Len(s))
    BY <1>8, <2>2
  <2> HIDE DEF s
  <2> DEFINE i == s[1].frame  t == SubSeq(s, Full(frames, i) + 1, Len(s))
  <2>4. UnitsStand(frames, t) /\ FramesStand(frames, t)
        /\ FramesIn(t) = FramesIn(s) \ {i}
    BY <1>4, <2>1, FrameGoes, Zenon
  <2>5. Rest' = t /\ First = i
    BY <2>1, <2>3
  <2> HIDE DEF t, i
  <2>6. UnitsStand(frames, Rest') /\ FramesStand(frames, Rest')
        /\ FramesIn(Rest') = FramesIn(s) \ {First}
    BY <2>4, <2>5
  <2>7. frames' = frames
    BY <1>1
  <2> QED BY <2>6, <2>7 DEF s
<1>10. DOMAIN frames \ FramesIn(Rest)' = (DOMAIN frames \ FramesIn(Rest)) \cup {First}
  BY <1>3, <1>9
<1>11. Faultless(frames[First]) /\ (frames[First].raw => Deliver)
       /\ (~frames[First].raw => SkipRaw)
  <2>1. frames[First].kind # "length"
    BY <1>1, <1>3 DEF CodecInv, ValidLen
  <2> QED BY <2>1 DEF Faultless, SkipRaw, Deliver, Parses
<1>12. \A i \in DOMAIN frames' \ FramesIn(Rest)' : Faultless(frames[i])'
  BY <1>1, <1>10, <1>11 DEF CodecInv, Faultless
<1>13. /\ messages' \in Seq(Nat)
       /\ \A k, l \in DOMAIN messages' : k < l => messages'[k] < messages'[l]
       /\ Range(messages)' = {i \in DOMAIN frames' \ FramesIn(Rest)' : frames'[i].raw}
  <2>1. CASE ~frames[First].raw
    <3>1. messages' = messages
      BY <1>11, <2>1 DEF SkipRaw
    <3> QED BY <1>1, <1>10, <2>1, <3>1 DEF CodecInv
  <2>2. CASE frames[First].raw
    <3> DEFINE i == First
    <3>1. messages' = Append(messages, i) /\ messages \in Seq(Nat) /\ i \in Nat
      BY <1>3, <1>4, <1>11, <2>2 DEF Deliver, CodecInv
    <3>2. ASSUME NEW j \in Range(messages) PROVE j < i
      <4>1. j \in DOMAIN frames \ FramesIn(Rest)
        BY <3>2 DEF CodecInv
      <4>2. ~(i < j) /\ i # j
        BY <1>3, <4>1 DEF CodecInv, FramesStand
      <4>3. j \in Nat
        BY <1>4, <4>1
      <4> QED BY <3>1, <4>2, <4>3
    <3> HIDE DEF i
    <3>3. /\ DOMAIN messages' = 1 .. Len(messages) + 1
          /\ DOMAIN messages = 1 .. Len(messages) /\ Len(messages) \in Nat
          /\ messages'[Len(messages) + 1] = i
          /\ \A k \in 1 .. Len(messages) : messages'[k] = messages[k]
      BY <3>1
    <3>4. \A k \in 1 .. Len(messages) : messages[k] < i
      BY <3>2, <3>3 DEF Range
    <3>5. \A k, l \in DOMAIN messages' : k < l => messages'[k] < messages'[l]
      <4> SUFFICES ASSUME NEW k \in DOMAIN messages', NEW l \in DOMAIN messages',
                          k < l
                   PROVE  messages'[k] < messages'[l]
        OBVIOUS
      <4>1. k \in 1 .. Len(messages)
        BY <3>3
      <4>2. CASE l = Len(messages) + 1
        BY <3>3, <3>4, <4>1, <4>2
      <4>3. CASE l # Len(messages) + 1
        <5>1. l \in 1 .. Len(messages)
          BY <3>3, <4>3
        <5> QED BY <3>3, <4>1, <5>1 DEF CodecInv
      <4> QED BY <4>2, <4>3
    <3>6. Range(messages') = Range(messages) \cup {i}
      BY <3>1, RangeAppend
    <3>7. messages' \in Seq(Nat)
      BY <3>1
    <3> QED BY <1>1, <1>10, <2>2, <3>5, <3>6, <3>7 DEF CodecInv, i
  <2>3. frames[First].raw \in BOOLEAN
    <3>1. frames[First] \in FrameType
      BY <1>3, <1>4
    <3> QED BY <3>1 DEF FrameType
  <2> QED BY <2>1, <2>2, <2>3
<1> QED BY <1>1, <1>4, <1>7, <1>9, <1>12, <1>13 DEF CodecInv

\* However the stream is cut into pieces, each codec gives the callback each
\* message once, in order, as soon as its last byte has arrived, and none from
\* behind a faulty frame (ProtobufCodecLite.cc:70).
THEOREM MessagesAlwaysCut == CodecSpec => []MessagesCut
<1>1. CodecInit => CodecInv
  <2> SUFFICES ASSUME CodecInit PROVE CodecInv
    OBVIOUS
  <2>1. /\ frames = <<>> /\ units = <<>> /\ inBuffer = <<>> /\ messages = <<>>
        /\ parsing = FALSE /\ codec \in {"lite", "example", "asio"}
    BY DEF CodecInit
  <2>2. Rest = <<>>
    BY <2>1 DEF Rest
  <2>3. UnitsStand(frames, Rest) /\ FramesStand(frames, Rest)
    BY <2>1, <2>2 DEF UnitsStand, FramesStand
  <2>4. DOMAIN frames = {} /\ Range(messages) = {}
    BY <2>1 DEF Range
  <2>5. frames \in Seq(FrameType) /\ units \in Seq(Unit) /\ inBuffer \in Seq(Unit)
        /\ messages \in Seq(Nat)
    <3>1. /\ <<>> \in Seq(FrameType) /\ <<>> \in Seq(Unit)
          /\ <<>> \in Seq(Nat)
      OBVIOUS
    <3> QED BY <2>1, <3>1
  <2>6. DOMAIN messages = {}
    BY <2>1
  <2>7. parsing \in BOOLEAN
    BY <2>1, Zenon
  <2> QED BY <2>1, <2>3, <2>4, <2>5, <2>6, <2>7 DEF CodecInv
<1>2. CodecInv /\ [CodecNext]_codecVars => CodecInv'
  <2> SUFFICES ASSUME CodecInv, [CodecNext]_codecVars PROVE CodecInv'
    OBVIOUS
  <2>1. CASE UNCHANGED codecVars
    <3>1. UNCHANGED <<codec, frames, units, inBuffer, parsing, messages>>
      BY <2>1 DEF codecVars
    <3>2. MinLen' = MinLen /\ Rest' = Rest /\ First' = First
      BY <3>1 DEF MinLen, Rest, First
    <3> QED BY <3>1, <3>2 DEF CodecInv, Faultless, Whole
  <2> QED BY <2>1, PeerSendsInv, OnMessageInv, LoopEndsInv, FrameDoneInv
          DEF CodecNext
<1>3. CodecInv => MessagesCut
  <2> SUFFICES ASSUME CodecInv PROVE MessagesCut
    OBVIOUS
  <2>1. ASSUME NEW i \in DOMAIN frames \ FramesIn(Rest), NEW j \in 1 .. i
        PROVE  j \in DOMAIN frames \ FramesIn(Rest) /\ Whole(j)
    <3>1. frames \in Seq(FrameType)
      BY DEF CodecInv
    <3>2. j \in DOMAIN frames /\ (j = i \/ j < i)
      BY <3>1
    <3>3. j \notin FramesIn(Rest)
      BY <3>2 DEF CodecInv, FramesStand
    <3>4. \A k \in DOMAIN units : units[k].frame \in FramesIn(Rest)
      BY RestIs DEF CodecInv, FramesIn
    <3> QED BY <3>2, <3>3, <3>4 DEF Whole
  <2>2. Range(messages) \subseteq Expected
    BY <2>1 DEF CodecInv, Expected
  <2>3. ASSUME NEW i \in Expected, i \in FramesIn(Rest)
        PROVE  parsing
    <3>1. i \in DOMAIN frames /\ Whole(i) /\ frames \in Seq(FrameType)
          /\ \A j \in 1 .. i : Whole(j) /\ Faultless(frames[j])
      BY DEF Expected, CodecInv
    <3>2. PICK k \in DOMAIN Rest : Rest[k].frame = i
      BY <2>3 DEF FramesIn
    <3>3. k \in DOMAIN inBuffer
      <4> SUFFICES ASSUME k \notin DOMAIN inBuffer PROVE FALSE
        OBVIOUS
      <4>1. k - Len(inBuffer) \in DOMAIN units
        BY RestIs DEF CodecInv
      <4>2. Rest[Len(inBuffer) + (k - Len(inBuffer))] = units[k - Len(inBuffer)]
        BY <4>1, RestIs DEF CodecInv
      <4>3. Len(inBuffer) + (k - Len(inBuffer)) = k
        BY RestIs DEF CodecInv
      <4> QED BY <3>1, <3>2, <4>1, <4>2, <4>3 DEF Whole
    <3>4. inBuffer # <<>>
      BY <3>3 DEF CodecInv
    <3>5. First \in DOMAIN frames /\ First <= i
      BY <2>3, <3>4, FirstStands
    <3>6. First \in 1 .. i
      BY <3>1, <3>5
    <3> QED BY <3>1, <3>4, <3>6 DEF CodecInv
  <2>4. ASSUME NEW i \in Expected, i \notin FramesIn(Rest)
        PROVE  i \in Range(messages)
    BY <2>4 DEF Expected, CodecInv
  <2>5. ASSUME NEW i \in Expected, NEW j \in Range(messages), i < j
        PROVE  i \in Range(messages)
    <3>1. i \in DOMAIN frames /\ j \in DOMAIN frames \ FramesIn(Rest)
      BY DEF CodecInv, Expected
    <3>2. i \notin FramesIn(Rest)
      BY <2>5, <3>1 DEF CodecInv, FramesStand
    <3> QED BY <2>4, <3>2
  <2>6. inBuffer # <<>> => inBuffer[1].at = 1
    BY FirstStands
  <2>7. \A k, l \in DOMAIN messages : k < l => messages[k] < messages[l]
    BY DEF CodecInv
  <2> QED BY <2>2, <2>3, <2>4, <2>5, <2>6, <2>7 DEF MessagesCut
<1> QED BY <1>1, <1>2, <1>3, PTL DEF CodecSpec

-----------------------------------------------------------------------------
(* Http: requests in a stream.                                             *)

LinePlace == [of : Nat, at : Nat]

\* The lines the parser has not had.
Ahead == input \o coming

\* The request the parser is at.
Current == IF Ahead = <<>> THEN Len(httpAsked) + 1 ELSE Ahead[1].of

\* Each line is one of a request, and the next one follows it, to the end of
\* the last request.
LinesStand(rs, s) ==
  /\ \A k \in DOMAIN s :
       /\ s[k].of \in DOMAIN rs
       /\ s[k].at \in 1 .. LinesIn(rs[s[k].of])
       /\ k = Len(s) =>
            s[k].of = Len(rs) /\ s[k].at = LinesIn(rs[s[k].of])
       /\ k < Len(s) =>
            \/ /\ s[k].at < LinesIn(rs[s[k].of])
               /\ s[k + 1].of = s[k].of /\ s[k + 1].at = s[k].at + 1
            \/ /\ s[k].at = LinesIn(rs[s[k].of])
               /\ s[k + 1].of = s[k].of + 1 /\ s[k + 1].at = 1
  /\ \A k, l \in DOMAIN s : k < l =>
       \/ s[k].of < s[l].of
       \/ s[k].of = s[l].of /\ s[k].at < s[l].at

\* What addHeader() has made of the first k headers.
ConnectionAfter(r, k) ==
  IF k = 0 THEN ""
  ELSE IF r.headers[k] = "Connection: close" THEN "close" ELSE "Keep-Alive"
VersionOf(r) == IF r.line = "GET 1.1" THEN "kHttp11" ELSE "kHttp10"

\* The context is that of the lines before the next.
ContextInv ==
  /\ parseState = "kExpectRequestLine" =>
       /\ Ahead # <<>> => Ahead[1].at = 1
       /\ request.version = "kUnknown" /\ request.connection = ""
  /\ parseState = "kExpectHeaders" =>
       /\ Ahead # <<>> /\ Ahead[1].at > 1
       /\ GoodRequestLine(httpAsked[Current].line)
       /\ request.version = VersionOf(httpAsked[Current])
       /\ request.connection = ConnectionAfter(httpAsked[Current], Ahead[1].at - 2)

\* While the connection is open every request before the current one has had
\* its answer, which kept it open; the last answer shut it down otherwise.
AnswersInv ==
  /\ \A i \in DOMAIN responses :
       /\ i \in DOMAIN httpAsked
       /\ responses[i] = AnswerTo(httpAsked[i])
       /\ i < Len(responses) => responses[i] = "keep"
       /\ \/ i < Current
          \/ i = Current /\ responses[i] = "400" /\ input # <<>>
  /\ httpConn = "connected" =>
       /\ Len(responses) = Current - 1
       /\ \A i \in DOMAIN responses : responses[i] = "keep"
  /\ httpConn = "disconnecting" =>
       /\ responses # <<>> /\ responses[Len(responses)] # "keep"

HttpInv ==
  /\ httpAsked \in Seq(Requests)
  /\ input \in Seq(LinePlace) /\ coming \in Seq(LinePlace)
  /\ parseState \in {"kExpectRequestLine", "kExpectHeaders"}
  /\ request \in HttpRequestType
  /\ parsingHttp \in BOOLEAN /\ pipelined \in BOOLEAN
  /\ httpConn \in {"connected", "disconnecting"}
  /\ responses \in Seq({"400", "keep", "close"})
  /\ LinesStand(httpAsked, Ahead)
  /\ ContextInv /\ AnswersInv
  /\ ~pipelined => Len(httpAsked) <= Len(responses) + 1
  /\ ~pipelined /\ ~parsingHttp /\ httpConn = "connected" => input = <<>>

\* What the client makes up.
LEMMA RequestsTyped ==
  ASSUME NEW r \in Requests
  PROVE  /\ r.headers \in Seq(HeaderLines) /\ Len(r.headers) \in Nat
         /\ r.line \in RequestLines /\ r.end \in EndLines
         /\ LinesIn(r) \in Nat /\ LinesIn(r) >= 2
<1>1. PICK n \in 0 .. MaxHeaders : r.headers \in [1 .. n -> HeaderLines]
  BY DEF Requests
<1>2. n \in Nat
  BY HttpAssumption
<1>3. r.headers \in Seq(HeaderLines) /\ Len(r.headers) = n
  BY <1>1, <1>2
<1>4. r.line \in RequestLines /\ r.end \in EndLines
  BY DEF Requests
<1> QED BY <1>2, <1>3, <1>4 DEF LinesIn

\* A request that is sent stands behind the others.
LEMMA RequestComes ==
  ASSUME NEW rs \in Seq(Requests), NEW s \in Seq(LinePlace), NEW r \in Requests,
         LinesStand(rs, s)
  PROVE  LET n == Len(rs) + 1  t == s \o LinesOf(n, r)
         IN /\ t \in Seq(LinePlace) /\ t # <<>>
            /\ LinesStand(Append(rs, r), t)
            /\ s # <<>> => t[1] = s[1]
            /\ s = <<>> => t[1].of = n /\ t[1].at = 1
<1> DEFINE n == Len(rs) + 1  w == LinesOf(n, r)  t == s \o w  qs == Append(rs, r)
<1>1. LinesIn(r) \in Nat /\ LinesIn(r) >= 2
  BY RequestsTyped
<1>2. /\ qs \in Seq(Requests) /\ Len(qs) = n /\ qs[n] = r /\ n \in DOMAIN qs
      /\ n \in Nat /\ DOMAIN rs = 1 .. n - 1 /\ DOMAIN qs = 1 .. n
      /\ \A i \in DOMAIN rs : qs[i] = rs[i] /\ rs[i] \in Requests /\ i < n
  OBVIOUS
<1>3. /\ w \in Seq(LinePlace) /\ Len(w) = LinesIn(r)
      /\ \A k \in 1 .. Len(w) : w[k].of = n /\ w[k].at = k
  <2>1. w = [k \in 1 .. LinesIn(r) |-> [of |-> n, at |-> k]]
    BY DEF LinesOf
  <2> HIDE DEF w, n
  <2>2. \A k \in 1 .. LinesIn(r) : [of |-> n, at |-> k] \in LinePlace
    BY <1>1, <1>2 DEF LinePlace
  <2> QED BY <1>1, <2>1, <2>2
<1> HIDE DEF w
<1>4. /\ t \in Seq(LinePlace) /\ Len(t) = Len(s) + Len(w)
      /\ \A k \in 1 .. Len(s) + Len(w) :
           t[k] = IF k <= Len(s) THEN s[k] ELSE w[k - Len(s)]
  BY <1>3, ConcatProperties
<1> HIDE DEF t, qs, n
<1>5. DOMAIN t = 1 .. Len(s) + Len(w) /\ Len(s) \in Nat /\ DOMAIN s = 1 .. Len(s)
      /\ Len(w) \in Nat /\ Len(w) >= 2
  BY <1>1, <1>3, <1>4
<1>6. \A k \in DOMAIN s : k \in DOMAIN t /\ t[k] = s[k]
  BY <1>4, <1>5
<1>7. ASSUME NEW k \in DOMAIN t, k \notin DOMAIN s
      PROVE  k > Len(s) /\ t[k].of = n /\ t[k].at = k - Len(s)
             /\ k - Len(s) \in 1 .. Len(w)
  <2>1. k - Len(s) \in 1 .. Len(w) /\ ~(k <= Len(s)) /\ k \in 1 .. Len(s) + Len(w)
    BY <1>5, <1>7
  <2>2. t[k] = w[k - Len(s)]
    BY <1>4, <2>1
  <2> QED BY <1>3, <2>1, <2>2
<1>8. ASSUME NEW k \in DOMAIN s
      PROVE  /\ s[k].of \in DOMAIN rs /\ s[k].of \in DOMAIN qs /\ s[k].of < n
             /\ LinesIn(qs[s[k].of]) = LinesIn(rs[s[k].of])
             /\ s[k].of \in Nat /\ s[k].at \in Nat
  <2>1. s[k] \in LinePlace
    OBVIOUS
  <2>2. s[k].of \in DOMAIN rs
    BY DEF LinesStand
  <2> QED BY <1>2, <2>1, <2>2 DEF LinePlace
<1>9. ASSUME NEW k \in DOMAIN t
      PROVE  /\ t[k].of \in DOMAIN qs
             /\ t[k].at \in 1 .. LinesIn(qs[t[k].of])
             /\ k = Len(t) =>
                  t[k].of = Len(qs) /\ t[k].at = LinesIn(qs[t[k].of])
             /\ k < Len(t) =>
                  \/ /\ t[k].at < LinesIn(qs[t[k].of])
                     /\ t[k + 1].of = t[k].of /\ t[k + 1].at = t[k].at + 1
                  \/ /\ t[k].at = LinesIn(qs[t[k].of])
                     /\ t[k + 1].of = t[k].of + 1 /\ t[k + 1].at = 1
  <2>1. CASE k \in DOMAIN s /\ k < Len(s)
    <3>1. k + 1 \in DOMAIN s /\ t[k] = s[k] /\ t[k + 1] = s[k + 1]
          /\ k < Len(t) /\ k # Len(t)
      BY <1>4, <1>5, <1>6, <2>1
    <3> QED BY <1>8, <2>1, <3>1 DEF LinesStand
  <2>2. CASE k = Len(s) /\ k \in DOMAIN s
    <3>1. /\ t[k] = s[k] /\ s[k].of = Len(rs)
          /\ s[k].at = LinesIn(rs[s[k].of])
          /\ s[k].at \in 1 .. LinesIn(rs[s[k].of])
      BY <1>6, <2>2 DEF LinesStand
    <3>2. k \in Nat /\ Len(t) \in Nat /\ Len(t) = Len(s) + Len(w) /\ k = Len(s)
      BY <1>4, <1>5, <2>2
    <3>5. (k + 1) - Len(s) = 1 /\ k < Len(t) /\ k # Len(t)
      <4> DEFINE a == Len(s)  b == Len(t)  c == Len(w)
      <4>1. a \in Nat /\ k = a /\ b = a + c /\ c \in Nat /\ c >= 2
        BY <1>5, <3>2
      <4> HIDE DEF a, b, c
      <4>2. (k + 1) - a = 1 /\ k < b /\ k # b
        BY <4>1
      <4> QED BY <4>2 DEF a, b
    <3>6. k + 1 \in DOMAIN t /\ k + 1 \notin DOMAIN s
      BY <1>5, <3>2
    <3>3. t[k + 1].of = n /\ t[k + 1].at = 1
      BY <1>7, <3>5, <3>6
    <3>4. Len(rs) + 1 = n
      BY DEF n
    <3> QED BY <1>8, <2>2, <3>1, <3>3, <3>4, <3>5
  <2>3. CASE k \notin DOMAIN s
    <3> DEFINE j == k - Len(s)
    <3>1. t[k].of = n /\ t[k].at = j /\ j \in 1 .. Len(w) /\ k > Len(s)
      BY <1>7, <2>3
    <3>2. LinesIn(qs[n]) = Len(w)
      BY <1>2, <1>3
    <3>3. k = Len(t) => j = Len(w)
      BY <1>4, <1>5
    <3>4. ASSUME k < Len(t)
          PROVE  t[k + 1].of = n /\ t[k + 1].at = j + 1 /\ j < Len(w)
      <4>1. k + 1 \in DOMAIN t /\ k + 1 \notin DOMAIN s /\ (k + 1) - Len(s) = j + 1
            /\ j < Len(w)
        BY <1>4, <1>5, <3>1, <3>4
      <4> QED BY <1>7, <4>1
    <3> QED BY <1>2, <3>1, <3>2, <3>3, <3>4
  <2> QED BY <1>5, <2>1, <2>2, <2>3
<1>10. ASSUME NEW k \in DOMAIN t, NEW l \in DOMAIN t, k < l
       PROVE  \/ t[k].of < t[l].of
              \/ t[k].of = t[l].of /\ t[k].at < t[l].at
  <2>1. CASE l \in DOMAIN s
    <3>1. k \in DOMAIN s
      BY <1>5, <1>10, <2>1
    <3> QED BY <1>6, <1>10, <2>1, <3>1 DEF LinesStand
  <2>2. CASE k \in DOMAIN s /\ l \notin DOMAIN s
    BY <1>6, <1>7, <1>8, <2>2
  <2>3. CASE k \notin DOMAIN s /\ l \notin DOMAIN s
    <3>1. /\ t[k].of = n /\ t[k].at = k - Len(s)
          /\ t[l].of = n /\ t[l].at = l - Len(s)
      BY <1>7, <2>3
    <3>2. k - Len(s) < l - Len(s)
      BY <1>5, <1>10
    <3> QED BY <3>1, <3>2
  <2>4. CASE k \notin DOMAIN s /\ l \in DOMAIN s
    BY <1>5, <1>10, <2>4
  <2> QED BY <2>1, <2>2, <2>3, <2>4
<1>11. 1 \in DOMAIN t /\ t # <<>>
  BY <1>4, <1>5
<1>12. s # <<>> => t[1] = s[1]
  BY <1>5, <1>6
<1>13. s = <<>> => t[1].of = n /\ t[1].at = 1
  <2> SUFFICES ASSUME s = <<>> PROVE t[1].of = n /\ t[1].at = 1
    OBVIOUS
  <2>1. 1 \notin DOMAIN s /\ 1 - Len(s) = 1
    OBVIOUS
  <2> QED BY <1>7, <1>11, <2>1
<1>14. LinesStand(qs, t)
  BY <1>9, <1>10 DEF LinesStand
<1> QED BY <1>4, <1>11, <1>12, <1>13, <1>14 DEF n, w, t, qs

\* The parser has had a line.
LEMMA LineGoes ==
  ASSUME NEW rs \in Seq(Requests), NEW s \in Seq(LinePlace), s # <<>>,
         LinesStand(rs, s)
  PROVE  LET i == s[1].of  t == Tail(s)
         IN /\ i \in DOMAIN rs /\ s[1].at \in 1 .. LinesIn(rs[i])
            /\ t \in Seq(LinePlace) /\ LinesStand(rs, t)
            /\ s[1].at < LinesIn(rs[i]) =>
                 t # <<>> /\ t[1].of = i /\ t[1].at = s[1].at + 1
            /\ s[1].at = LinesIn(rs[i]) /\ t = <<>> => i = Len(rs)
            /\ s[1].at = LinesIn(rs[i]) /\ t # <<>> =>
                 t[1].of = i + 1 /\ t[1].at = 1 /\ i + 1 \in DOMAIN rs
<1> DEFINE i == s[1].of  t == Tail(s)
<1>1. Len(s) \in Nat /\ Len(s) > 0 /\ DOMAIN s = 1 .. Len(s) /\ 1 \in DOMAIN s
  OBVIOUS
<1>2. /\ t \in Seq(LinePlace) /\ Len(t) = Len(s) - 1
      /\ \A k \in 1 .. Len(t) : t[k] = s[k + 1]
  BY HeadTailProperties
<1> HIDE DEF t
<1>3. DOMAIN t = 1 .. Len(s) - 1 /\ (t = <<>> <=> Len(s) = 1)
  BY <1>1, <1>2
<1>4. ASSUME NEW k \in DOMAIN t
      PROVE  /\ k \in Nat /\ k + 1 \in DOMAIN s /\ t[k] = s[k + 1]
             /\ (k = Len(t) <=> k + 1 = Len(s)) /\ (k < Len(t) <=> k + 1 < Len(s))
             /\ k < Len(t) => k + 1 \in DOMAIN t /\ t[k + 1] = s[(k + 1) + 1]
  <2>1. k \in 1 .. Len(s) - 1 /\ k \in 1 .. Len(t) /\ Len(t) = Len(s) - 1
    BY <1>1, <1>2, <1>3
  <2>2. t[k] = s[k + 1]
    BY <1>2, <2>1
  <2>3. k < Len(t) => k + 1 \in 1 .. Len(t)
    BY <1>1, <2>1
  <2>4. k < Len(t) => t[k + 1] = s[(k + 1) + 1]
    BY <1>2, <2>3
  <2>5. k \in Nat /\ k + 1 \in DOMAIN s /\ (k = Len(t) <=> k + 1 = Len(s))
        /\ (k < Len(t) <=> k + 1 < Len(s))
    BY <1>1, <2>1
  <2>6. k < Len(t) => k + 1 \in DOMAIN t
    BY <2>1, <2>3, <1>3
  <2> QED BY <2>2, <2>4, <2>5, <2>6
<1>5. LinesStand(rs, t)
  <2>1. ASSUME NEW k \in DOMAIN t
        PROVE  /\ t[k].of \in DOMAIN rs
               /\ t[k].at \in 1 .. LinesIn(rs[t[k].of])
               /\ k = Len(t) =>
                    t[k].of = Len(rs) /\ t[k].at = LinesIn(rs[t[k].of])
               /\ k < Len(t) =>
                    \/ /\ t[k].at < LinesIn(rs[t[k].of])
                       /\ t[k + 1].of = t[k].of /\ t[k + 1].at = t[k].at + 1
                    \/ /\ t[k].at = LinesIn(rs[t[k].of])
                       /\ t[k + 1].of = t[k].of + 1 /\ t[k + 1].at = 1
    <3> DEFINE h == k + 1
    <3>1. h \in DOMAIN s /\ t[k] = s[h] /\ (k = Len(t) <=> h = Len(s))
          /\ (k < Len(t) <=> h < Len(s)) /\ (k < Len(t) => t[k + 1] = s[h + 1])
      BY <1>4
    <3> HIDE DEF h
    <3> QED BY <3>1 DEF LinesStand
  <2>2. ASSUME NEW k \in DOMAIN t, NEW l \in DOMAIN t, k < l
        PROVE  \/ t[k].of < t[l].of
               \/ t[k].of = t[l].of /\ t[k].at < t[l].at
    <3> DEFINE g == k + 1  h == l + 1
    <3>1. g \in DOMAIN s /\ t[k] = s[g] /\ h \in DOMAIN s /\ t[l] = s[h]
      BY <1>4
    <3>2. g < h
      BY <1>4, <2>2
    <3> HIDE DEF g, h
    <3> QED BY <3>1, <3>2 DEF LinesStand
  <2> QED BY <2>1, <2>2 DEF LinesStand
<1>6. /\ i \in DOMAIN rs /\ s[1].at \in 1 .. LinesIn(rs[i])
      /\ 1 = Len(s) => i = Len(rs) /\ s[1].at = LinesIn(rs[i])
      /\ 1 < Len(s) =>
           \/ /\ s[1].at < LinesIn(rs[i])
              /\ s[1 + 1].of = i /\ s[1 + 1].at = s[1].at + 1
           \/ /\ s[1].at = LinesIn(rs[i])
              /\ s[1 + 1].of = i + 1 /\ s[1 + 1].at = 1
  BY <1>1 DEF LinesStand
<1>7. t # <<>> => /\ 1 < Len(s) /\ 1 \in DOMAIN t /\ t[1] = s[1 + 1]
                  /\ t[1].of \in DOMAIN rs
  <2> SUFFICES ASSUME t # <<>>
               PROVE  /\ 1 < Len(s) /\ 1 \in DOMAIN t /\ t[1] = s[1 + 1]
                      /\ t[1].of \in DOMAIN rs
    OBVIOUS
  <2>1. 1 < Len(s) /\ 1 \in DOMAIN t
    BY <1>1, <1>3
  <2>2. t[1] = s[1 + 1]
    BY <1>4, <2>1
  <2>3. t[1].of \in DOMAIN rs
    BY <1>5, <2>1 DEF LinesStand
  <2> QED BY <2>1, <2>2, <2>3
<1>8. LinesIn(rs[i]) \in Nat
  <2>1. rs[i] \in Requests
    BY <1>6
  <2> QED BY <2>1, RequestsTyped
<1> HIDE DEF i
<1>9. s[1].at < LinesIn(rs[i]) =>
        t # <<>> /\ t[1].of = i /\ t[1].at = s[1].at + 1
  BY <1>1, <1>3, <1>6, <1>7, <1>8
<1>10. s[1].at = LinesIn(rs[i]) /\ t = <<>> => i = Len(rs)
  BY <1>3, <1>6
<1>11. s[1].at = LinesIn(rs[i]) /\ t # <<>> =>
         t[1].of = i + 1 /\ t[1].at = 1 /\ i + 1 \in DOMAIN rs
  BY <1>6, <1>7, <1>8
<1> QED BY <1>2, <1>5, <1>6, <1>9, <1>10, <1>11 DEF i, t

\* Where the parser is.
LEMMA HttpFacts ==
  ASSUME HttpInv
  PROVE  /\ Ahead \in Seq(LinePlace) /\ Len(httpAsked) \in Nat
         /\ DOMAIN httpAsked = 1 .. Len(httpAsked)
         /\ Len(responses) \in Nat /\ DOMAIN responses = 1 .. Len(responses)
         /\ Current \in 1 .. Len(httpAsked) + 1 /\ Current \in Nat
         /\ Ahead = <<>> => Current = Len(httpAsked) + 1
         /\ Ahead # <<>> =>
              /\ Current \in DOMAIN httpAsked /\ httpAsked[Current] \in Requests
              /\ Ahead[1].of = Current /\ 1 \in DOMAIN Ahead
              /\ Ahead[1].at \in 1 .. LinesIn(httpAsked[Current])
         /\ input # <<>> => Ahead # <<>>
<1>1. input \in Seq(LinePlace) /\ coming \in Seq(LinePlace)
  BY DEF HttpInv
<1>2. Ahead \in Seq(LinePlace) /\ (input # <<>> => Ahead # <<>>)
  BY <1>1, ConcatProperties, ConcatHeadTail DEF Ahead
<1>3. /\ Len(httpAsked) \in Nat /\ DOMAIN httpAsked = 1 .. Len(httpAsked)
      /\ httpAsked \in Seq(Requests)
      /\ Len(responses) \in Nat /\ DOMAIN responses = 1 .. Len(responses)
  <2>1. httpAsked \in Seq(Requests) /\ responses \in Seq({"400", "keep", "close"})
    BY DEF HttpInv
  <2> QED BY <2>1
<1>4. ASSUME Ahead # <<>>
      PROVE  /\ Current \in DOMAIN httpAsked /\ httpAsked[Current] \in Requests
             /\ Ahead[1].of = Current /\ 1 \in DOMAIN Ahead
             /\ Ahead[1].at \in 1 .. LinesIn(httpAsked[Current])
  <2>1. 1 \in DOMAIN Ahead
    BY <1>2, <1>4
  <2>2. Current = Ahead[1].of
    BY <1>4 DEF Current
  <2>3. LinesStand(httpAsked, Ahead)
    BY DEF HttpInv
  <2>4. Current \in DOMAIN httpAsked /\ Ahead[1].at \in 1 .. LinesIn(httpAsked[Current])
    BY <2>1, <2>2, <2>3 DEF LinesStand
  <2> QED BY <1>3, <2>1, <2>2, <2>4
<1>5. Ahead = <<>> => Current = Len(httpAsked) + 1
  BY DEF Current
<1>6. Current \in 1 .. Len(httpAsked) + 1 /\ Current \in Nat
  BY <1>3, <1>4, <1>5
<1> QED BY <1>2, <1>3, <1>4, <1>5, <1>6

\* The line the parser reads.
LEMMA HttpLine ==
  ASSUME HttpInv, HasLine
  PROVE  /\ Ahead # <<>> /\ Text = TextAt(httpAsked[Current], Ahead[1].at)
         /\ RetrieveLine /\ coming' = coming =>
              Ahead' = Tail(Ahead) /\ input' \in Seq(LinePlace)
         /\ UNCHANGED <<input, coming>> => Ahead' = Ahead
<1>1. input \in Seq(LinePlace) /\ coming \in Seq(LinePlace) /\ input # <<>>
  BY DEF HttpInv, HasLine
<1>2. /\ Ahead # <<>> /\ Head(Ahead) = Head(input)
      /\ Tail(Ahead) = Tail(input) \o coming
  BY <1>1, ConcatHeadTail DEF Ahead
<1>3. Ahead[1] = Head(input)
  BY <1>2, HttpFacts
<1>4. Current = Ahead[1].of
  BY <1>2 DEF Current
<1>5. Text = TextAt(httpAsked[Current], Ahead[1].at)
  BY <1>3, <1>4 DEF Text
<1>6. Tail(input) \in Seq(LinePlace)
  BY <1>1
<1> QED BY <1>2, <1>5, <1>6 DEF RetrieveLine, Ahead

\* Which line of a request a text can be.
LEMMA TextIs ==
  ASSUME NEW r \in Requests, NEW k \in 1 .. LinesIn(r)
  PROVE  /\ LinesIn(r) \in Nat /\ LinesIn(r) >= 2 /\ k \in Nat
         /\ k = 1 => TextAt(r, k) = r.line
         /\ k > 1 /\ k < LinesIn(r) =>
              /\ TextAt(r, k) = r.headers[k - 1] /\ k - 1 \in DOMAIN r.headers
              /\ HasColon(TextAt(r, k))
         /\ k > 1 /\ k = LinesIn(r) => ~HasColon(TextAt(r, k))
<1>1. /\ r.headers \in Seq(HeaderLines) /\ Len(r.headers) \in Nat
      /\ r.end \in EndLines /\ LinesIn(r) \in Nat /\ LinesIn(r) >= 2
  BY RequestsTyped
<1>2. LinesIn(r) = Len(r.headers) + 2 /\ k \in Nat
  BY <1>1 DEF LinesIn
<1>3. ASSUME k > 1, k < LinesIn(r)
      PROVE  /\ TextAt(r, k) = r.headers[k - 1] /\ k - 1 \in DOMAIN r.headers
             /\ HasColon(TextAt(r, k))
  <2>1. k # 1 /\ k # LinesIn(r) /\ k - 1 \in 1 .. Len(r.headers)
    BY <1>1, <1>2, <1>3
  <2>2. TextAt(r, k) = r.headers[k - 1]
    BY <2>1 DEF TextAt
  <2>3. r.headers[k - 1] \in HeaderLines /\ k - 1 \in DOMAIN r.headers
    BY <1>1, <2>1
  <2> QED BY <2>2, <2>3 DEF HasColon
<1>4. ASSUME k > 1, k = LinesIn(r) PROVE ~HasColon(TextAt(r, k))
  <2>1. TextAt(r, k) = r.end
    BY <1>2, <1>4 DEF TextAt
  <2> QED BY <1>1, <2>1 DEF HasColon, EndLines, HeaderLines
<1>5. k = 1 => TextAt(r, k) = r.line
  BY DEF TextAt
<1> QED BY <1>1, <1>2, <1>3, <1>4, <1>5

\* The answer onRequest() makes of the context is the one that was asked for.
LEMMA AnswerIs ==
  ASSUME NEW r \in Requests, GoodRequestLine(r.line), NEW q,
         q.version = VersionOf(r),
         q.connection = ConnectionAfter(r, Len(r.headers))
  PROVE  AnswerTo(r) = IF CloseAfter(q) THEN "close" ELSE "keep"
<1> DEFINE n == Len(r.headers)
<1>1. r.headers \in Seq(HeaderLines) /\ n \in Nat
  BY RequestsTyped
<1>2. r.line = "GET 1.1" \/ r.line = "GET 1.0"
  BY DEF GoodRequestLine
<1>3. CASE n = 0
  <2>1. r.headers = <<>>
    BY <1>1, <1>3, EmptySeq
  <2>2. ConnectionWanted(r) = "" /\ q.connection = ""
    <3>1. ConnectionWanted(r) = ""
      BY <2>1 DEF ConnectionWanted
    <3>2. ConnectionAfter(r, 0) = ""
      BY DEF ConnectionAfter
    <3> QED BY <1>3, <3>1, <3>2
  <2> QED BY <1>2, <2>2 DEF AnswerTo, CloseAfter, VersionOf
<1>4. CASE n # 0
  <2>1. n > 0 /\ n \in DOMAIN r.headers /\ r.headers # <<>>
    BY <1>1, <1>4
  <2>2. ConnectionWanted(r) = r.headers[n] /\ r.headers[n] \in HeaderLines
    BY <1>1, <2>1 DEF ConnectionWanted
  <2>3. CASE r.headers[n] = "Connection: close"
    <3>1. q.connection = "close"
      BY <1>4, <2>1, <2>3 DEF ConnectionAfter
    <3> QED BY <1>2, <2>2, <2>3, <3>1 DEF AnswerTo, CloseAfter, VersionOf
  <2>4. CASE r.headers[n] = "Connection: Keep-Alive"
    <3>1. q.connection = "Keep-Alive"
      BY <1>4, <2>1, <2>4 DEF ConnectionAfter
    <3> QED BY <1>2, <2>2, <2>4, <3>1 DEF AnswerTo, CloseAfter, VersionOf
  <2> QED BY <2>2, <2>3, <2>4 DEF HeaderLines
<1> QED BY <1>3, <1>4

\* The answers given stay right when the parser stays where it is.
LEMMA AnswersStay ==
  ASSUME HttpInv, UNCHANGED <<responses, httpConn>>,
         \/ Current' = Current
         \/ Current' = Current + 1 /\ httpConn = "disconnecting",
         \A i \in DOMAIN httpAsked : i \in DOMAIN httpAsked' /\ httpAsked'[i] = httpAsked[i],
         \/ input # <<>> => input' # <<>>
         \/ GoodRequestLine(httpAsked[Current].line)
  PROVE  AnswersInv'
<1>1. ASSUME NEW i \in DOMAIN responses
      PROVE  /\ i \in DOMAIN httpAsked' /\ responses[i] = AnswerTo(httpAsked'[i])
             /\ i < Len(responses) => responses[i] = "keep"
             /\ \/ i < Current'
                \/ i = Current' /\ responses[i] = "400" /\ input' # <<>>
  <2>1. /\ i \in DOMAIN httpAsked /\ responses[i] = AnswerTo(httpAsked[i])
        /\ i < Len(responses) => responses[i] = "keep"
        /\ \/ i < Current
           \/ i = Current /\ responses[i] = "400" /\ input # <<>>
    BY DEF HttpInv, AnswersInv
  <2>2. i \in Nat /\ Current \in Nat
    BY HttpFacts
  <2>3. CASE i < Current
    <3>1. i < Current'
      BY <2>2, <2>3
    <3> QED BY <2>1, <3>1
  <2>4. CASE i = Current /\ responses[i] = "400" /\ input # <<>>
    <3>1. CASE Current' = Current + 1
      <4>1. i < Current'
        BY <2>2, <2>4, <3>1
      <4> QED BY <2>1, <4>1
    <3>2. CASE Current' = Current
      <4>1. ~GoodRequestLine(httpAsked[Current].line)
        BY <2>1, <2>4 DEF AnswerTo, GoodRequestLine
      <4> QED BY <2>1, <2>4, <3>2, <4>1
    <3> QED BY <3>1, <3>2
  <2> QED BY <2>1, <2>3, <2>4
<1>2. httpConn = "connected" =>
        /\ Len(responses) = Current' - 1
        /\ \A i \in DOMAIN responses : responses[i] = "keep"
  BY DEF HttpInv, AnswersInv
<1>3. httpConn = "disconnecting" =>
        responses # <<>> /\ responses[Len(responses)] # "keep"
  BY DEF HttpInv, AnswersInv
<1> QED BY <1>1, <1>2, <1>3 DEF AnswersInv

\* The answer to the request the parser is at is sent, unless the connection
\* has been shut down.
LEMMA AnswerGiven ==
  ASSUME HttpInv, UNCHANGED httpAsked, Current \in DOMAIN httpAsked,
         NEW x, x = AnswerTo(httpAsked[Current]), x \in {"400", "keep", "close"},
         Send(x), ShutdownIf(x # "keep"),
         \/ Current' = Current + 1
         \/ Current' = Current /\ x = "400" /\ input # <<>> /\ UNCHANGED input
  PROVE  /\ AnswersInv' /\ responses' \in Seq({"400", "keep", "close"})
         /\ httpConn' \in {"connected", "disconnecting"}
         /\ Len(responses') >= Len(responses) /\ Len(responses') \in Nat
         /\ httpConn' = "connected" => httpConn = "connected" /\ x = "keep"
<1>1. httpConn \in {"connected", "disconnecting"}
      /\ responses \in Seq({"400", "keep", "close"})
  BY DEF HttpInv
<1>2. Len(responses) \in Nat /\ DOMAIN responses = 1 .. Len(responses)
      /\ Current \in Nat
  BY HttpFacts
<1>3. CASE httpConn = "disconnecting"
  <2>1. responses' = responses /\ httpConn' = httpConn
    BY <1>3 DEF Send, ShutdownIf
  <2>2. ASSUME NEW i \in DOMAIN responses
        PROVE  \/ i < Current'
               \/ i = Current' /\ responses[i] = "400" /\ input' # <<>>
    <3>1. \/ i < Current
          \/ i = Current /\ responses[i] = "400" /\ input # <<>>
      BY DEF HttpInv, AnswersInv
    <3> QED BY <1>2, <3>1
  <2>3. AnswersInv'
    BY <1>3, <2>1, <2>2 DEF HttpInv, AnswersInv
  <2> QED BY <1>1, <1>2, <1>3, <2>1, <2>3
<1>4. CASE httpConn = "connected"
  <2> DEFINE rs == responses'
  <2>1. /\ rs = Append(responses, x)
        /\ httpConn' = IF x # "keep" THEN "disconnecting" ELSE "connected"
    BY <1>4 DEF Send, ShutdownIf
  <2>2. /\ rs \in Seq({"400", "keep", "close"}) /\ Len(rs) = Len(responses) + 1
        /\ \A i \in 1 .. Len(responses) : rs[i] = responses[i]
        /\ rs[Len(responses) + 1] = x
    BY <1>1, <2>1, AppendProperties
  <2>3. Len(responses) = Current - 1
        /\ \A i \in DOMAIN responses : responses[i] = "keep"
    BY <1>4 DEF HttpInv, AnswersInv
  <2> HIDE DEF rs
  <2>4. Len(rs) = Current /\ rs[Current] = x /\ DOMAIN rs = 1 .. Current
        /\ Len(responses) + 1 = Current
    BY <1>2, <2>2, <2>3
  <2>5. ASSUME NEW i \in DOMAIN rs, i # Current
        PROVE  i \in DOMAIN responses /\ rs[i] = responses[i] /\ i < Current
    <3>1. i \in 1 .. Len(responses) /\ i < Current
      BY <1>2, <2>3, <2>4, <2>5
    <3> QED BY <1>2, <2>2, <3>1
  <2>6. ASSUME NEW i \in DOMAIN rs
        PROVE  /\ i \in DOMAIN httpAsked /\ rs[i] = AnswerTo(httpAsked[i])
               /\ i < Len(rs) => rs[i] = "keep"
               /\ \/ i < Current'
                  \/ i = Current' /\ rs[i] = "400" /\ input' # <<>>
    <3>1. CASE i = Current
      <4>1. i < Current + 1 /\ ~(i < Current)
        BY <1>2, <3>1
      <4> QED BY <2>4, <3>1, <4>1
    <3>2. CASE i # Current
      <4>1. i \in DOMAIN responses /\ rs[i] = responses[i] /\ i < Current
        BY <2>5, <3>2
      <4>2. i \in DOMAIN httpAsked /\ responses[i] = AnswerTo(httpAsked[i])
        BY <4>1 DEF HttpInv, AnswersInv
      <4>3. i < Current'
        BY <1>2, <4>1
      <4> QED BY <2>3, <4>1, <4>2, <4>3
    <3> QED BY <3>1, <3>2
  <2>7. httpConn' = "connected" =>
          /\ Len(rs) = Current' - 1 /\ x = "keep"
          /\ \A i \in DOMAIN rs : rs[i] = "keep"
    <3> SUFFICES ASSUME x = "keep"
                 PROVE  /\ Len(rs) = Current' - 1
                        /\ \A i \in DOMAIN rs : rs[i] = "keep"
      BY <2>1
    <3>1. Len(rs) = Current' - 1
      BY <1>2, <2>4
    <3>2. \A i \in DOMAIN rs : rs[i] = "keep"
      BY <2>3, <2>4, <2>5
    <3> QED BY <3>1, <3>2
  <2>8. rs # <<>>
    BY <1>2, <2>2
  <2>9. httpConn' = "disconnecting" => rs # <<>> /\ rs[Len(rs)] # "keep"
    BY <2>1, <2>4, <2>8
  <2>10. AnswersInv'
    BY <2>6, <2>7, <2>9 DEF AnswersInv, rs
  <2>11. Len(rs) >= Len(responses) /\ Len(rs) \in Nat
    BY <1>2, <2>2
  <2> QED BY <1>4, <2>1, <2>2, <2>7, <2>10, <2>11 DEF rs
<1> QED BY <1>1, <1>3, <1>4

LEMMA ClientAsksInv ==
  ASSUME HttpInv, NEW r \in Requests, ClientAsks(r)
  PROVE  HttpInv'
<1> DEFINE n == Len(httpAsked) + 1
<1>1. /\ httpAsked \in Seq(Requests) /\ coming \in Seq(LinePlace)
      /\ input \in Seq(LinePlace) /\ LinesStand(httpAsked, Ahead)
  BY DEF HttpInv
<1>2. /\ Ahead \in Seq(LinePlace) /\ Len(httpAsked) \in Nat
      /\ DOMAIN httpAsked = 1 .. Len(httpAsked) /\ Len(responses) \in Nat
      /\ Ahead = <<>> => Current = Len(httpAsked) + 1
      /\ Ahead # <<>> => Current \in DOMAIN httpAsked /\ Ahead[1].of = Current
  BY HttpFacts
<1>3. /\ httpAsked' = Append(httpAsked, r) /\ httpAsked' \in Seq(Requests) /\ Len(httpAsked') = n
      /\ \A i \in DOMAIN httpAsked : i \in DOMAIN httpAsked' /\ httpAsked'[i] = httpAsked[i]
  BY <1>1, <1>2, AppendProperties DEF ClientAsks
<1>4. coming' = coming \o LinesOf(n, r) /\ input' = input
  BY <1>3 DEF ClientAsks
<1>5. LinesOf(n, r) \in Seq(LinePlace)
  <2>1. LinesIn(r) \in Nat
    BY RequestsTyped
  <2>2. LinesOf(n, r) = [k \in 1 .. LinesIn(r) |-> [of |-> n, at |-> k]]
    BY DEF LinesOf
  <2>3. n \in Nat
    BY <1>2
  <2> HIDE DEF n
  <2>4. \A k \in 1 .. LinesIn(r) : [of |-> n, at |-> k] \in LinePlace
    BY <2>1, <2>3 DEF LinePlace
  <2> QED BY <2>1, <2>2, <2>4
<1>6. Ahead' = Ahead \o LinesOf(n, r)
  <2>1. (input \o coming) \o LinesOf(n, r) = input \o (coming \o LinesOf(n, r))
    BY <1>1, <1>5, ConcatAssociative
  <2> QED BY <1>4, <2>1 DEF Ahead
<1>7. coming' \in Seq(LinePlace)
  BY <1>1, <1>4, <1>5, ConcatProperties
<1>8. /\ Ahead' # <<>> /\ LinesStand(httpAsked', Ahead')
      /\ Ahead # <<>> => Ahead'[1] = Ahead[1]
      /\ Ahead = <<>> => Ahead'[1].of = n /\ Ahead'[1].at = 1
  BY <1>1, <1>2, <1>3, <1>6, RequestComes
<1>9. Current' = Current
  <2>1. Current' = Ahead'[1].of
    BY <1>8 DEF Current
  <2> QED BY <1>2, <1>8, <2>1
<1>10. ContextInv'
  <2>1. ContextInv /\ UNCHANGED <<parseState, request>>
    BY DEF HttpInv, ClientAsks
  <2>2. CASE Ahead = <<>>
    <3>1. parseState # "kExpectHeaders"
      BY <2>1, <2>2 DEF ContextInv
    <3> QED BY <1>8, <2>1, <2>2, <3>1 DEF ContextInv
  <2>3. CASE Ahead # <<>>
    <3>1. httpAsked'[Current] = httpAsked[Current]
      BY <1>2, <1>3, <2>3
    <3> QED BY <1>8, <1>9, <2>1, <2>3, <3>1 DEF ContextInv
  <2> QED BY <2>2, <2>3
<1>11. AnswersInv'
  <2>1. UNCHANGED <<responses, httpConn>>
    BY DEF ClientAsks
  <2> QED BY <1>3, <1>4, <1>9, <2>1, AnswersStay
<1>12. ~pipelined' => ~pipelined /\ Len(httpAsked) = Len(responses)
  BY DEF ClientAsks
<1>13. ~pipelined' => Len(httpAsked') <= Len(responses') + 1
  BY <1>2, <1>3, <1>12 DEF ClientAsks
<1>14. ~pipelined' /\ ~parsingHttp' /\ httpConn' = "connected" => input' = <<>>
  BY <1>12 DEF HttpInv, ClientAsks
<1>15. /\ UNCHANGED <<parseState, request, parsingHttp, httpConn, responses>>
       /\ pipelined' \in BOOLEAN
  BY DEF HttpInv, ClientAsks
<1>16. /\ parseState' \in {"kExpectRequestLine", "kExpectHeaders"}
       /\ request' \in HttpRequestType
       /\ parsingHttp' \in BOOLEAN /\ httpConn' \in {"connected", "disconnecting"}
       /\ responses' \in Seq({"400", "keep", "close"})
  BY <1>15 DEF HttpInv
<1> QED BY <1>1, <1>3, <1>4, <1>7, <1>8, <1>10, <1>11, <1>13, <1>14, <1>15, <1>16
        DEF HttpInv

LEMMA OnHttpMessageInv ==
  ASSUME HttpInv, NEW n \in 0 .. Len(coming), OnHttpMessage(n)
  PROVE  HttpInv'
<1> DEFINE a == SubSeq(coming, 1, n)  b == SubSeq(coming, n + 1, Len(coming))
<1>1. coming \in Seq(LinePlace) /\ input \in Seq(LinePlace)
  BY DEF HttpInv
<1>2. /\ a \in Seq(LinePlace) /\ b \in Seq(LinePlace) /\ a \o b = coming
  BY <1>1, SplitAt
<1>3. input' = input \o a /\ coming' = b
  BY DEF OnHttpMessage
<1> HIDE DEF a, b
<1>4. Ahead' = Ahead
  <2>1. input \in Seq(LinePlace) /\ a \in Seq(LinePlace) /\ b \in Seq(LinePlace)
    BY <1>1, <1>2
  <2>2. (input \o a) \o b = input \o (a \o b)
    <3> HIDE DEF a, b
    <3> DEFINE T == Seq(LinePlace)
    <3>1. \A x, y, z \in T : (x \o y) \o z = x \o (y \o z)
      BY ConcatAssociative
    <3>2. input \in T /\ a \in T /\ b \in T
      BY <2>1
    <3> HIDE DEF T
    <3> QED BY <3>1, <3>2, Zenon
  <2> QED BY <1>2, <1>3, <2>2 DEF Ahead
<1>5. /\ input' \in Seq(LinePlace) /\ coming' \in Seq(LinePlace)
      /\ input # <<>> => input' # <<>>
  BY <1>1, <1>2, <1>3, ConcatProperties, ConcatHeadTail
<1>6. /\ UNCHANGED <<httpAsked, parseState, request, httpConn, responses, pipelined>>
      /\ parsingHttp' = TRUE
  BY DEF OnHttpMessage
<1>7. Current' = Current
  BY <1>4, <1>6 DEF Current
<1>8. AnswersInv'
  BY <1>5, <1>6, <1>7, AnswersStay
<1>9. ContextInv'
  BY <1>4, <1>6, <1>7 DEF HttpInv, ContextInv
<1>10. LinesStand(httpAsked', Ahead')
  BY <1>4, <1>6 DEF HttpInv
<1> QED BY <1>5, <1>6, <1>8, <1>9, <1>10 DEF HttpInv

LEMMA NoLineInv ==
  ASSUME HttpInv, NoLine
  PROVE  HttpInv'
<1>1. /\ UNCHANGED <<httpAsked, coming, input, parseState, request, httpConn, responses,
                     pipelined>>
      /\ input = <<>> /\ parsingHttp' = FALSE
  BY DEF NoLine
<1>2. Ahead' = Ahead /\ Current' = Current
  BY <1>1 DEF Ahead, Current
<1> QED BY <1>1, <1>2 DEF HttpInv, ContextInv, AnswersInv

\* The parser takes a line of the current request that is not its last.
LEMMA LineTaken ==
  ASSUME HttpInv, HasLine, GoodRequestLine(httpAsked[Current].line), RetrieveLine,
         UNCHANGED <<httpAsked, coming, parsingHttp, httpConn, responses, pipelined>>,
         Ahead[1].at < LinesIn(httpAsked[Current]),
         parseState' = "kExpectHeaders",
         request' \in HttpRequestType,
         request'.version = VersionOf(httpAsked[Current]),
         request'.connection = ConnectionAfter(httpAsked[Current], Ahead[1].at - 1)
  PROVE  HttpInv'
<1>1. /\ Ahead # <<>> /\ Ahead' = Tail(Ahead) /\ input' \in Seq(LinePlace)
  BY HttpLine
<1>2. /\ Ahead \in Seq(LinePlace) /\ Current \in DOMAIN httpAsked
      /\ httpAsked[Current] \in Requests /\ Ahead[1].of = Current
      /\ Ahead[1].at \in 1 .. LinesIn(httpAsked[Current])
  BY <1>1, HttpFacts
<1>3. httpAsked \in Seq(Requests) /\ LinesStand(httpAsked, Ahead)
  BY DEF HttpInv
<1>4. /\ LinesStand(httpAsked, Ahead') /\ Ahead' # <<>>
      /\ Ahead'[1].of = Current /\ Ahead'[1].at = Ahead[1].at + 1
  BY <1>1, <1>2, <1>3, LineGoes
<1>5. Current' = Current
  BY <1>4 DEF Current
<1>6. AnswersInv'
  BY <1>5, AnswersStay
<1>7. ContextInv'
  <2> DEFINE k == Ahead[1].at  l == Ahead'[1].at
  <2>1. k \in Nat /\ k >= 1
    <3>1. LinesIn(httpAsked[Current]) \in Nat
      BY <1>2, RequestsTyped
    <3> QED BY <1>2, <3>1
  <2>2. l > 1 /\ l - 2 = k - 1
    <3>1. l = k + 1
      BY <1>4
    <3> HIDE DEF k, l
    <3> QED BY <2>1, <3>1
  <2> QED BY <1>4, <1>5, <2>2 DEF ContextInv
<1>8. parsingHttp' = TRUE /\ parsingHttp' \in BOOLEAN /\ pipelined' \in BOOLEAN
  BY DEF HttpInv, HasLine
<1>9. LinesStand(httpAsked', Ahead')
  BY <1>4
<1>10. /\ httpAsked' \in Seq(Requests) /\ coming' \in Seq(LinePlace)
       /\ parseState' \in {"kExpectRequestLine", "kExpectHeaders"}
       /\ httpConn' \in {"connected", "disconnecting"}
       /\ responses' \in Seq({"400", "keep", "close"})
       /\ ~pipelined' => Len(httpAsked') <= Len(responses') + 1
  BY DEF HttpInv
<1> QED BY <1>1, <1>6, <1>7, <1>8, <1>9, <1>10 DEF HttpInv

LEMMA TakeRequestLineInv ==
  ASSUME HttpInv, TakeRequestLine
  PROVE  HttpInv'
<1> DEFINE r == httpAsked[Current]
<1>1. /\ HasLine /\ parseState = "kExpectRequestLine" /\ GoodRequestLine(Text)
      /\ request' = ProcessRequestLine(Text, request) /\ RetrieveLine
      /\ parseState' = "kExpectHeaders"
      /\ UNCHANGED <<httpAsked, coming, parsingHttp, httpConn, responses, pipelined>>
  BY DEF TakeRequestLine
<1>2. Ahead # <<>> /\ Text = TextAt(r, Ahead[1].at)
  BY <1>1, HttpLine
<1>3. r \in Requests
  BY <1>2, HttpFacts
<1>4. Ahead[1].at = 1 /\ request.connection = ""
  BY <1>1, <1>2 DEF HttpInv, ContextInv
<1>5. Text = r.line /\ Ahead[1].at < LinesIn(r) /\ Ahead[1].at - 1 = 0
  <2>1. LinesIn(r) \in Nat /\ LinesIn(r) >= 2
    BY <1>3, RequestsTyped
  <2>2. TextAt(r, 1) = r.line
    BY DEF TextAt
  <2>3. Text = r.line
    BY <1>2, <1>4, <2>2, Zenon
  <2>4. Ahead[1].at < LinesIn(r) /\ Ahead[1].at - 1 = 0
    <3> DEFINE k == Ahead[1].at  z == LinesIn(r)
    <3>1. k = 1 /\ z \in Nat /\ z >= 2
      BY <1>4, <2>1
    <3> HIDE DEF k, z
    <3>2. k < z /\ k - 1 = 0
      BY <3>1
    <3> QED BY <3>2 DEF k, z
  <2> QED BY <2>3, <2>4
<1>6. request \in HttpRequestType
  BY DEF HttpInv
<1>7. /\ request' \in HttpRequestType
      /\ request'.version = VersionOf(r) /\ request'.connection = ""
  BY <1>1, <1>4, <1>5, <1>6 DEF HttpRequestType, ProcessRequestLine, GoodRequestLine, VersionOf
<1>8. request'.connection = ConnectionAfter(r, Ahead[1].at - 1)
  BY <1>5, <1>7 DEF ConnectionAfter
<1>9. GoodRequestLine(r.line)
  BY <1>1, <1>5
<1> QED BY <1>1, <1>5, <1>7, <1>8, <1>9, LineTaken

LEMMA TakeHeaderInv ==
  ASSUME HttpInv, TakeHeader
  PROVE  HttpInv'
<1> DEFINE r == httpAsked[Current]  k == Ahead[1].at
<1>1. /\ HasLine /\ parseState = "kExpectHeaders" /\ HasColon(Text)
      /\ request' = AddHeader(Text, request) /\ RetrieveLine
      /\ UNCHANGED <<httpAsked, coming, parseState, parsingHttp, httpConn, responses,
                     pipelined>>
  BY DEF TakeHeader
<1>2. Ahead # <<>> /\ Text = TextAt(r, k)
  BY <1>1, HttpLine
<1>3. r \in Requests /\ k \in 1 .. LinesIn(r)
  BY <1>2, HttpFacts
<1>4. /\ k > 1 /\ GoodRequestLine(r.line) /\ request.version = VersionOf(r)
  BY <1>1 DEF HttpInv, ContextInv
<1> HIDE DEF r, k
<1>5. k < LinesIn(r) /\ Text = r.headers[k - 1] /\ k \in Nat
  BY <1>1, <1>2, <1>3, <1>4, TextIs
<1>6. request \in HttpRequestType
  BY DEF HttpInv
<1>7. Text = "Connection: close" \/ Text = "Connection: Keep-Alive"
  BY <1>1 DEF HasColon, HeaderLines
<1>8. /\ request' \in HttpRequestType
      /\ request'.version = VersionOf(r)
      /\ request'.connection = IF Text = "Connection: close" THEN "close"
                               ELSE "Keep-Alive"
  BY <1>1, <1>4, <1>6, <1>7 DEF AddHeader, HttpRequestType
<1>9. request'.connection = ConnectionAfter(r, k - 1)
  <2>1. k - 1 # 0
    BY <1>4, <1>5
  <2> QED BY <1>5, <1>8, <2>1 DEF ConnectionAfter
<1>10. parseState' = "kExpectHeaders"
  BY <1>1
<1> QED BY <1>1, <1>4, <1>5, <1>8, <1>9, <1>10, LineTaken DEF r, k

LEMMA BadRequestLineInv ==
  ASSUME HttpInv, BadRequestLine
  PROVE  HttpInv'
<1> DEFINE r == httpAsked[Current]
<1>1. /\ HasLine /\ parseState = "kExpectRequestLine" /\ ~GoodRequestLine(Text)
      /\ request' = ProcessRequestLine(Text, request)
      /\ parsingHttp' = FALSE /\ Send("400") /\ ShutdownIf(TRUE)
      /\ UNCHANGED <<httpAsked, coming, input, parseState, pipelined>>
  BY DEF BadRequestLine
<1>2. Ahead # <<>> /\ Text = TextAt(r, Ahead[1].at) /\ Ahead' = Ahead
  BY <1>1, HttpLine
<1>3. Current \in DOMAIN httpAsked
  BY <1>2, HttpFacts
<1>4. Ahead[1].at = 1 /\ request.connection = "" /\ request.version = "kUnknown"
  BY <1>1, <1>2 DEF HttpInv, ContextInv
<1>5. Text = r.line
  BY <1>2, <1>4 DEF TextAt
<1>6. AnswerTo(r) = "400"
  BY <1>1, <1>5 DEF GoodRequestLine, AnswerTo
<1>7. Current' = Current /\ input # <<>>
  BY <1>1, <1>2 DEF Current, HasLine
<1>8. /\ AnswersInv' /\ responses' \in Seq({"400", "keep", "close"})
      /\ httpConn' \in {"connected", "disconnecting"}
      /\ Len(responses') >= Len(responses) /\ Len(responses') \in Nat
      /\ httpConn' = "connected" => httpConn = "connected" /\ "400" = "keep"
  <2>1. ShutdownIf("400" # "keep")
    BY <1>1 DEF ShutdownIf
  <2> QED BY <1>1, <1>3, <1>6, <1>7, <2>1, AnswerGiven
<1>9. request \in HttpRequestType
  BY DEF HttpInv
<1>10. /\ request' \in HttpRequestType
       /\ request'.version = "kUnknown" /\ request'.connection = ""
  BY <1>1, <1>4, <1>9 DEF HttpRequestType, ProcessRequestLine, GoodRequestLine
<1>11. ContextInv'
  BY <1>1, <1>2, <1>4, <1>10 DEF ContextInv
<1>12. ~pipelined' => Len(httpAsked') <= Len(responses') + 1
  <2>1. ~pipelined => Len(httpAsked) <= Len(responses) + 1
    BY DEF HttpInv
  <2>2. Len(httpAsked) \in Nat /\ Len(responses) \in Nat
    BY HttpFacts
  <2> QED BY <1>1, <1>8, <2>1, <2>2
<1>13. httpConn' # "connected"
  BY <1>8
<1> QED BY <1>1, <1>2, <1>8, <1>10, <1>11, <1>12, <1>13 DEF HttpInv

LEMMA GotAllInv ==
  ASSUME HttpInv, GotAll
  PROVE  HttpInv'
<1> DEFINE r == httpAsked[Current]  k == Ahead[1].at
           x == IF CloseAfter(request) THEN "close" ELSE "keep"
<1>1. /\ HasLine /\ parseState = "kExpectHeaders" /\ ~HasColon(Text)
      /\ RetrieveLine /\ parsingHttp' = FALSE
      /\ Send(x) /\ ShutdownIf(CloseAfter(request))
      /\ parseState' = "kExpectRequestLine" /\ request' = EmptyRequest
      /\ UNCHANGED <<httpAsked, coming, pipelined>>
  BY DEF GotAll, ResetContext
<1>2. /\ Ahead # <<>> /\ Text = TextAt(r, k)
      /\ Ahead' = Tail(Ahead) /\ input' \in Seq(LinePlace)
  BY <1>1, HttpLine
<1>3. /\ Ahead \in Seq(LinePlace) /\ Current \in DOMAIN httpAsked /\ r \in Requests
      /\ Ahead[1].of = Current /\ k \in 1 .. LinesIn(r) /\ Current \in Nat
      /\ Len(httpAsked) \in Nat /\ DOMAIN httpAsked = 1 .. Len(httpAsked)
      /\ Len(responses) \in Nat
  BY <1>2, HttpFacts
<1>4. /\ k > 1 /\ GoodRequestLine(r.line) /\ request.version = VersionOf(r)
      /\ request.connection = ConnectionAfter(r, k - 2)
  BY <1>1 DEF HttpInv, ContextInv
<1>5. k = LinesIn(r)
  <2> HIDE DEF r, k
  <2>1. LinesIn(r) \in Nat /\ k \in Nat /\ ~(k > 1 /\ k < LinesIn(r))
    BY <1>1, <1>2, <1>3, TextIs
  <2> QED BY <1>3, <1>4, <2>1
<1>6. httpAsked \in Seq(Requests) /\ LinesStand(httpAsked, Ahead)
  BY DEF HttpInv
<1>7. /\ LinesStand(httpAsked, Ahead')
      /\ Ahead' = <<>> => Current = Len(httpAsked)
      /\ Ahead' # <<>> =>
           Ahead'[1].of = Current + 1 /\ Ahead'[1].at = 1
           /\ Current + 1 \in DOMAIN httpAsked
  BY <1>2, <1>3, <1>5, <1>6, LineGoes
<1>8. Current' = Current + 1
  <2>1. httpAsked' = httpAsked
    BY <1>1
  <2> QED BY <1>7, <2>1 DEF Current
<1>9. x = AnswerTo(r)
  <2>1. k - 2 = Len(r.headers)
    <3>1. LinesIn(r) = Len(r.headers) + 2 /\ Len(r.headers) \in Nat
      BY <1>3, RequestsTyped DEF LinesIn
    <3> HIDE DEF k
    <3> QED BY <1>5, <3>1
  <2> HIDE DEF r
  <2> QED BY <1>3, <1>4, <2>1, AnswerIs
<1>10. /\ AnswersInv' /\ responses' \in Seq({"400", "keep", "close"})
       /\ httpConn' \in {"connected", "disconnecting"}
       /\ Len(responses') >= Len(responses) /\ Len(responses') \in Nat
       /\ httpConn' = "connected" => httpConn = "connected"
  <2>1. ShutdownIf(x # "keep") /\ x \in {"400", "keep", "close"}
    BY <1>1 DEF ShutdownIf
  <2> HIDE DEF x
  <2> QED BY <1>1, <1>3, <1>8, <1>9, <2>1, AnswerGiven
<1>11. ContextInv'
  BY <1>1, <1>7 DEF ContextInv, EmptyRequest
<1>12. ~pipelined => Len(httpAsked) <= Len(responses) + 1
  BY DEF HttpInv
<1>13. ~pipelined' => Len(httpAsked') <= Len(responses') + 1
  BY <1>1, <1>3, <1>10, <1>12
<1>14. ~pipelined' /\ httpConn' = "connected" => input' = <<>>
  <2> SUFFICES ASSUME ~pipelined, httpConn = "connected" PROVE input' = <<>>
    BY <1>1, <1>10
  <2>1. Len(responses) = Current - 1
    BY DEF HttpInv, AnswersInv
  <2>2. Current = Len(httpAsked)
    BY <1>3, <1>12, <2>1
  <2>3. Ahead' = <<>>
    BY <1>3, <1>7, <2>2
  <2>4. input' \in Seq(LinePlace) /\ coming' \in Seq(LinePlace)
    BY <1>1, <1>2 DEF HttpInv
  <2> QED BY <2>3, <2>4, ConcatEqualIffEmpty DEF Ahead
<1>15. request' \in HttpRequestType
  BY <1>1 DEF HttpRequestType, EmptyRequest
<1>16. /\ httpAsked' \in Seq(Requests) /\ coming' \in Seq(LinePlace)
       /\ pipelined' \in BOOLEAN /\ parsingHttp' \in BOOLEAN
       /\ LinesStand(httpAsked', Ahead')
       /\ parseState' \in {"kExpectRequestLine", "kExpectHeaders"}
  BY <1>1, <1>7 DEF HttpInv
<1> QED BY <1>2, <1>10, <1>11, <1>13, <1>14, <1>15, <1>16 DEF HttpInv

\* What HttpInv says of the answers.
LEMMA HttpInvRight ==
  ASSUME HttpInv
  PROVE  HttpRight
<1>1. /\ input \in Seq(LinePlace) /\ coming \in Seq(LinePlace)
      /\ LinesStand(httpAsked, Ahead)
  BY DEF HttpInv
<1>2. /\ Ahead \in Seq(LinePlace) /\ Len(httpAsked) \in Nat
      /\ DOMAIN httpAsked = 1 .. Len(httpAsked)
      /\ Len(responses) \in Nat /\ DOMAIN responses = 1 .. Len(responses)
      /\ Current \in Nat
      /\ Ahead # <<>> =>
              /\ Current \in DOMAIN httpAsked /\ httpAsked[Current] \in Requests
              /\ Ahead[1].of = Current /\ 1 \in DOMAIN Ahead
              /\ Ahead[1].at \in 1 .. LinesIn(httpAsked[Current])
      /\ input # <<>> => Ahead # <<>>
      /\ Ahead = <<>> => Current = Len(httpAsked) + 1
  BY HttpFacts
<1>3. /\ Len(Ahead) = Len(input) + Len(coming)
      /\ Len(input) \in Nat /\ Len(coming) \in Nat
      /\ \A k \in 1 .. Len(input) + Len(coming) :
           Ahead[k] = IF k <= Len(input) THEN input[k] ELSE coming[k - Len(input)]
  BY <1>1, ConcatProperties DEF Ahead
<1>4. ASSUME NEW k \in DOMAIN coming
      PROVE  LET m == Len(input) + k
             IN m \in DOMAIN Ahead /\ Ahead[m] = coming[k] /\ m \in Nat /\ m >= 1
                /\ (input # <<>> => m > 1)
  <2> DEFINE m == Len(input) + k
  <2>1. k \in 1 .. Len(coming) /\ k \in Nat
    BY <1>1
  <2>2. m \in 1 .. Len(input) + Len(coming) /\ ~(m <= Len(input)) /\ m - Len(input) = k
        /\ m \in Nat /\ m >= 1
    BY <1>3, <2>1
  <2>3. Ahead[m] = coming[k]
    BY <1>3, <2>2
  <2>4. m \in DOMAIN Ahead
    BY <1>2, <1>3, <2>2
  <2>5. input # <<>> => m > 1
    <3>1. input # <<>> => Len(input) > 0
      BY <1>1, <1>3, EmptySeq
    <3> QED BY <1>3, <2>1, <3>1
  <2> QED BY <2>2, <2>3, <2>4, <2>5
<1>5. ASSUME NEW m \in DOMAIN Ahead
      PROVE  Ahead[m].of \in Nat /\ Ahead[m].at \in Nat
  <2>1. Ahead[m] \in LinePlace
    BY <1>2
  <2> QED BY <2>1 DEF LinePlace
<1>6. ASSUME NEW m \in DOMAIN Ahead, m > 1
      PROVE  /\ Ahead[m].of >= Current
             /\ Ahead[m].of = Current => Ahead[m].at > 1
  <2>1. Ahead # <<>> /\ 1 \in DOMAIN Ahead /\ Ahead[1].of = Current
        /\ Ahead[1].at \in 1 .. LinesIn(httpAsked[Current])
    BY <1>2
  <2>2. \/ Current < Ahead[m].of
        \/ Current = Ahead[m].of /\ Ahead[1].at < Ahead[m].at
    BY <1>1, <1>6, <2>1 DEF LinesStand
  <2>3. Ahead[1].at \in Nat /\ Ahead[1].at >= 1
    BY <1>5, <2>1
  <2> DEFINE p == Ahead[1].at  q == Ahead[m].at  e == Ahead[m].of
  <2>4. p \in Nat /\ p >= 1 /\ q \in Nat /\ e \in Nat
    BY <1>5, <2>3
  <2>5. Current < e \/ (Current = e /\ p < q)
    BY <2>2
  <2> HIDE DEF p, q, e
  <2>6. e >= Current /\ (e = Current => q > 1)
    BY <1>2, <2>4, <2>5
  <2> QED BY <2>6 DEF q, e
<1>7. ASSUME NEW m \in DOMAIN Ahead PROVE Ahead[m].of >= Current
  <2>1. m \in Nat /\ m >= 1
    BY <1>2
  <2>2. CASE m = 1
    <3>1. Ahead # <<>>
      BY <1>2
    <3>2. Ahead[m].of = Current
      BY <1>2, <2>2, <3>1
    <3> QED BY <1>2, <3>2
  <2>3. CASE m > 1
    BY <1>6, <2>3
  <2> QED BY <2>1, <2>2, <2>3
<1>8. ASSUME NEW i \in DOMAIN responses
      PROVE  /\ i \in DOMAIN httpAsked /\ HasArrived(i)
             /\ responses[i] = AnswerTo(httpAsked[i])
             /\ i < Len(responses) => responses[i] = "keep"
  <2>1. /\ i \in DOMAIN httpAsked /\ responses[i] = AnswerTo(httpAsked[i])
        /\ i < Len(responses) => responses[i] = "keep"
        /\ \/ i < Current
           \/ i = Current /\ responses[i] = "400" /\ input # <<>>
    BY DEF HttpInv, AnswersInv
  <2>2. ASSUME NEW k \in DOMAIN coming, coming[k].of = i
        PROVE  AnswerTo(httpAsked[i]) = "400" /\ coming[k].at > 1
    <3> DEFINE m == Len(input) + k
    <3>1. m \in DOMAIN Ahead /\ Ahead[m] = coming[k] /\ (input # <<>> => m > 1)
      BY <1>4
    <3> HIDE DEF m
    <3>2. i >= Current /\ i \in Nat
      BY <1>2, <1>7, <2>2, <3>1
    <3>3. ~(i < Current)
      BY <1>2, <3>2
    <3>4. i = Current /\ responses[i] = "400" /\ m > 1
      BY <2>1, <3>1, <3>3
    <3> QED BY <1>6, <2>1, <2>2, <3>1, <3>4
  <2> QED BY <2>1, <2>2 DEF HasArrived
<1>9. ASSUME ~pipelined, ~parsingHttp, NEW i \in DOMAIN httpAsked, HasArrived(i),
             \A j \in 1 .. i - 1 : AnswerTo(httpAsked[j]) = "keep",
             i \notin DOMAIN responses
      PROVE  FALSE
  <2>1. Len(httpAsked) <= Len(responses) + 1
    BY <1>9 DEF HttpInv
  <2>2. i = Len(httpAsked) /\ Len(responses) = i - 1 /\ i \in Nat
    BY <1>2, <1>9, <2>1
  <2>3. httpConn = "connected"
    <3> SUFFICES ASSUME httpConn = "disconnecting" PROVE FALSE
      BY DEF HttpInv
    <3>1. responses # <<>> /\ responses[Len(responses)] # "keep"
      BY DEF HttpInv, AnswersInv
    <3>2. Len(responses) > 0
      <4>1. responses \in Seq({"400", "keep", "close"})
        BY DEF HttpInv
      <4> QED BY <1>2, <3>1, <4>1, EmptySeq
    <3>3. Len(responses) \in 1 .. i - 1 /\ Len(responses) \in DOMAIN responses
      BY <1>2, <2>2, <3>2
    <3>4. responses[Len(responses)] = AnswerTo(httpAsked[Len(responses)])
      BY <3>3 DEF HttpInv, AnswersInv
    <3> QED BY <1>9, <3>1, <3>3, <3>4
  <2>4. Current = i /\ input = <<>>
    <3>1. input = <<>>
      BY <1>9, <2>3 DEF HttpInv
    <3>2. Len(responses) = Current - 1
      BY <2>3 DEF HttpInv, AnswersInv
    <3>3. Current \in Nat /\ Len(responses) \in Nat
      BY <1>2
    <3>4. Current = i
      BY <2>2, <3>2, <3>3
    <3> QED BY <3>1, <3>4
  <2>5. Ahead = coming
    BY <1>1, <2>4, ConcatEmptySeq DEF Ahead
  <2>6. Ahead # <<>>
    <3>1. Current # Len(httpAsked) + 1
      BY <2>2, <2>4
    <3> QED BY <1>2, <3>1
  <2>7. /\ 1 \in DOMAIN coming /\ coming[1].of = i
    BY <1>2, <2>4, <2>5, <2>6
  <2>8. AnswerTo(httpAsked[i]) = "400" /\ Ahead[1].at > 1
    BY <1>9, <2>5, <2>7 DEF HasArrived
  <2>9. parseState # "kExpectRequestLine"
    <3> SUFFICES ASSUME parseState = "kExpectRequestLine" PROVE FALSE
      OBVIOUS
    <3>1. Ahead[1].at = 1
      BY <2>6 DEF HttpInv, ContextInv
    <3> QED BY <2>8, <3>1
  <2>10. GoodRequestLine(httpAsked[i].line)
    BY <2>4, <2>9 DEF HttpInv, ContextInv
  <2> QED BY <2>8, <2>10 DEF AnswerTo, GoodRequestLine
<1> QED BY <1>8, <1>9 DEF HttpRight

\* HttpServer and HttpContext answer the requests of a connection in their
\* order, each from its own lines, wherever the stream is cut: for any number of
\* requests and headers.
THEOREM HttpAlwaysRight == HttpSpec => []HttpRight
<1>1. HttpInit => HttpInv
  <2> SUFFICES ASSUME HttpInit PROVE HttpInv
    OBVIOUS
  <2>1. /\ httpAsked = <<>> /\ coming = <<>> /\ input = <<>> /\ responses = <<>>
        /\ parseState = "kExpectRequestLine" /\ request = EmptyRequest
        /\ parsingHttp = FALSE /\ httpConn = "connected" /\ pipelined = FALSE
    BY DEF HttpInit
  <2>2. Ahead = <<>>
    BY <2>1, ConcatEmptySeq DEF Ahead
  <2>3. /\ Len(httpAsked) = 0 /\ Len(responses) = 0 /\ DOMAIN responses = {}
        /\ DOMAIN Ahead = {}
    BY <2>1, <2>2
  <2>4. Current = 1
    BY <2>2, <2>3 DEF Current
  <2>5. LinesStand(httpAsked, Ahead)
    BY <2>3 DEF LinesStand
  <2>6. ContextInv
    BY <2>1, <2>2 DEF ContextInv, EmptyRequest
  <2>7. AnswersInv
    BY <2>1, <2>3, <2>4 DEF AnswersInv
  <2>8. request \in HttpRequestType
    BY <2>1 DEF EmptyRequest, HttpRequestType
  <2>9. /\ httpAsked \in Seq(Requests) /\ input \in Seq(LinePlace)
        /\ coming \in Seq(LinePlace) /\ responses \in Seq({"400", "keep", "close"})
    BY <2>1
  <2>10. Len(httpAsked) <= Len(responses) + 1
    BY <2>3
  <2>11. /\ parsingHttp \in BOOLEAN /\ pipelined \in BOOLEAN
         /\ parseState \in {"kExpectRequestLine", "kExpectHeaders"}
         /\ httpConn \in {"connected", "disconnecting"}
    BY <2>1
  <2> QED BY <2>1, <2>5, <2>6, <2>7, <2>8, <2>9, <2>10, <2>11 DEF HttpInv
<1>2. HttpInv /\ [HttpNext]_httpVars => HttpInv'
  <2> SUFFICES ASSUME HttpInv, [HttpNext]_httpVars PROVE HttpInv'
    OBVIOUS
  <2>1. CASE UNCHANGED httpVars
    <3>1. /\ UNCHANGED <<httpAsked, coming, input, parseState, request, parsingHttp,
                         httpConn, responses, pipelined>>
      BY <2>1 DEF httpVars
    <3>2. Ahead' = Ahead /\ Current' = Current
      BY <3>1 DEF Ahead, Current
    <3> QED BY <3>1, <3>2 DEF HttpInv, ContextInv, AnswersInv
  <2>2. CASE HttpNext
    BY <2>2, ClientAsksInv, OnHttpMessageInv, NoLineInv, TakeRequestLineInv,
       TakeHeaderInv, BadRequestLineInv, GotAllInv DEF HttpNext
  <2> QED BY <2>1, <2>2
<1>3. HttpInv => HttpRight
  BY HttpInvRight
<1> QED BY <1>1, <1>2, <1>3, PTL DEF HttpSpec

-----------------------------------------------------------------------------
(* Messages: how bytes are read, one field after the other.                *)

\* The states of the loop, a field of bytes b after the other from p on.
ReadSteps(g, p, b, n) ==
  g = [k \in 0..n |-> IF k = 0 THEN p ELSE ReadField(g[k - 1], b[k])]

LEMMA ReadStepsIs ==
  ASSUME NEW p, NEW b, NEW n \in Nat
  PROVE  \E g : ReadSteps(g, p, b, n)
<1> DEFINE N == {m \in Nat : \E g : ReadSteps(g, p, b, m)}
<1>1. 0 \in N
  <2> DEFINE g == [k \in 0..0 |-> p]
  <2>1. g = [k \in 0..0 |-> IF k = 0 THEN p ELSE ReadField(g[k - 1], b[k])]
    OBVIOUS
  <2>2. ReadSteps(g, p, b, 0)
    BY <2>1 DEF ReadSteps
  <2> HIDE DEF g
  <2> QED BY <2>2
<1>2. ASSUME NEW m \in 1..n, m - 1 \in N PROVE m \in N
  <2>1. PICK g : ReadSteps(g, p, b, m - 1)
    BY <1>2
  <2> DEFINE h == [k \in 0..m |-> IF k = 0 THEN p ELSE ReadField(g[k - 1], b[k])]
  <2>2. \A k \in 0..m - 1 : h[k] = g[k]
    BY <2>1 DEF ReadSteps
  <2>3. \A k \in 1..m : k - 1 \in 0..m - 1 /\ h[k] = ReadField(g[k - 1], b[k])
    OBVIOUS
  <2>4. h[0] = p /\ h = [k \in 0..m |-> h[k]]
    OBVIOUS
  <2> HIDE DEF h
  <2>5. \A k \in 0..m : h[k] = IF k = 0 THEN p ELSE ReadField(h[k - 1], b[k])
    <3> TAKE k \in 0..m
    <3>1. CASE k = 0
      BY <2>4, <3>1
    <3>2. CASE k \in 1..m
      <4>1. k # 0 /\ k - 1 \in 0..m - 1
        BY <3>2
      <4>2. h[k] = ReadField(g[k - 1], b[k]) /\ h[k - 1] = g[k - 1]
        BY <2>2, <2>3, <3>2, <4>1
      <4> QED BY <4>1, <4>2
    <3> QED BY <3>1, <3>2
  <2>6. ReadSteps(h, p, b, m)
    BY <2>4, <2>5 DEF ReadSteps
  <2> QED BY <2>6
<1>3. 0..n \subseteq N
  <2>1. N \in SUBSET Nat
    OBVIOUS
  <2> HIDE DEF N
  <2> QED BY <1>1, <1>2, <2>1, UpTo
<1> QED BY <1>3

LEMMA ReadStepsSame ==
  ASSUME NEW p, NEW b, NEW c, NEW n \in Nat, NEW m \in 0..n,
         \A k \in 1..m : b[k] = c[k],
         NEW g, ReadSteps(g, p, b, n), NEW h, ReadSteps(h, p, c, m)
  PROVE  g[m] = h[m]
<1> DEFINE N == {k \in Nat : k <= m => g[k] = h[k]}
<1>1. 0 \in N
  BY DEF ReadSteps
<1>2. ASSUME NEW k \in 1..m, k - 1 \in N PROVE k \in N
  <2>1. g[k - 1] = h[k - 1] /\ b[k] = c[k]
    BY <1>2
  <2>2. g[k] = ReadField(g[k - 1], b[k])
    BY DEF ReadSteps
  <2>3. h[k] = ReadField(h[k - 1], c[k])
    BY DEF ReadSteps
  <2> QED BY <2>1, <2>2, <2>3
<1>3. 0..m \subseteq N
  <2>1. N \in SUBSET Nat
    OBVIOUS
  <2> HIDE DEF N
  <2> QED BY <1>1, <1>2, <2>1, UpTo
<1> QED BY <1>3

\* Reads() is the last of such states.
LEMMA ReadsIs ==
  ASSUME NEW p, NEW b, Len(b) \in Nat
  PROVE  \E g : ReadSteps(g, p, b, Len(b)) /\ Reads(p, b) = g[Len(b)]
<1> DEFINE g == CHOOSE f : ReadSteps(f, p, b, Len(b))
<1>1. ReadSteps(g, p, b, Len(b))
  BY ReadStepsIs
<1>2. g = CHOOSE f : f = [k \in 0..Len(b) |->
                            IF k = 0 THEN p ELSE ReadField(f[k - 1], b[k])]
  BY DEF ReadSteps
<1>3. Reads(p, b) = g[Len(b)]
  BY <1>2 DEF Reads
<1> QED BY <1>1, <1>3

LEMMA ReadsNone ==
  ASSUME NEW p
  PROVE  Reads(p, <<>>) = p
<1>1. PICK g : ReadSteps(g, p, <<>>, Len(<<>>)) /\ Reads(p, <<>>) = g[Len(<<>>)]
  BY ReadsIs
<1> QED BY <1>1 DEF ReadSteps

LEMMA ReadsAppend ==
  ASSUME NEW p, NEW S, NEW b \in Seq(S), NEW e \in S
  PROVE  Reads(p, Append(b, e)) = ReadField(Reads(p, b), e)
<1> DEFINE a == Append(b, e)
           n == Len(b)
<1>3. n \in Nat /\ Len(a) = n + 1 /\ a[n + 1] = e /\ \A k \in 1..n : a[k] = b[k]
  OBVIOUS
<1> HIDE DEF a
<1>4. PICK g : ReadSteps(g, p, a, n + 1) /\ Reads(p, a) = g[n + 1]
  BY <1>3, ReadsIs
<1>5. PICK h : ReadSteps(h, p, b, n) /\ Reads(p, b) = h[n]
  BY <1>3, ReadsIs
<1>6. g[n + 1] = ReadField(g[n], e)
  BY <1>3, <1>4 DEF ReadSteps
<1>7. g[n] = h[n]
  BY <1>3, <1>4, <1>5, ReadStepsSame
<1> QED BY <1>4, <1>5, <1>6, <1>7 DEF a

\* Bytes behind others go on where these have ended.
LEMMA ReadsConcat ==
  ASSUME NEW p, NEW S, NEW a \in Seq(S), NEW b \in Seq(S)
  PROVE  Reads(p, a \o b) = Reads(Reads(p, a), b)
<1> DEFINE T == {c \in Seq(S) : Reads(p, a \o c) = Reads(Reads(p, a), c)}
<1>1. <<>> \in T
  <2>1. a \o <<>> = a /\ <<>> \in Seq(S)
    OBVIOUS
  <2> QED BY <2>1, ReadsNone
<1>2. ASSUME NEW c \in Seq(S), NEW e \in S, c \in T PROVE Append(c, e) \in T
  <2>1. a \o Append(c, e) = Append(a \o c, e) /\ a \o c \in Seq(S)
        /\ Append(c, e) \in Seq(S)
    OBVIOUS
  <2>2. Reads(p, Append(a \o c, e)) = ReadField(Reads(p, a \o c), e)
    <3> DEFINE d == a \o c
    <3>1. d \in Seq(S)
      BY <2>1
    <3> HIDE DEF d
    <3>2. Reads(p, Append(d, e)) = ReadField(Reads(p, d), e)
      BY <3>1, ReadsAppend
    <3> QED BY <3>2 DEF d
  <2>3. Reads(Reads(p, a), Append(c, e)) = ReadField(Reads(Reads(p, a), c), e)
    BY ReadsAppend
  <2>4. Reads(p, a \o c) = Reads(Reads(p, a), c)
    BY <1>2
  <2>5. Reads(p, a \o Append(c, e)) = Reads(Reads(p, a), Append(c, e))
    BY <2>1, <2>2, <2>3, <2>4
  <2> QED BY <2>1, <2>5
<1> HIDE DEF T
<1>3. b \in T
  BY <1>1, <1>2, SeqByAppend
<1> QED BY <1>3 DEF T

-----------------------------------------------------------------------------
(* Messages: the length that is counted.                                   *)

SumSteps(g, s, n) ==
  g = [k \in 0..n |-> IF k = 0 THEN 0 ELSE g[k - 1] + s[k]]

LEMMA SumStepsIs ==
  ASSUME NEW s, NEW n \in Nat
  PROVE  \E g : SumSteps(g, s, n)
<1> DEFINE N == {m \in Nat : \E g : SumSteps(g, s, m)}
<1>1. 0 \in N
  <2> DEFINE g == [k \in 0..0 |-> 0]
  <2>1. g = [k \in 0..0 |-> IF k = 0 THEN 0 ELSE g[k - 1] + s[k]]
    OBVIOUS
  <2>2. SumSteps(g, s, 0)
    BY <2>1 DEF SumSteps
  <2> HIDE DEF g
  <2> QED BY <2>2
<1>2. ASSUME NEW m \in 1..n, m - 1 \in N PROVE m \in N
  <2>1. PICK g : SumSteps(g, s, m - 1)
    BY <1>2
  <2> DEFINE h == [k \in 0..m |-> IF k = 0 THEN 0 ELSE g[k - 1] + s[k]]
  <2>2. \A k \in 0..m - 1 : h[k] = g[k]
    BY <2>1 DEF SumSteps
  <2>3. \A k \in 1..m : k - 1 \in 0..m - 1 /\ h[k] = g[k - 1] + s[k]
    OBVIOUS
  <2>4. h[0] = 0 /\ h = [k \in 0..m |-> h[k]]
    OBVIOUS
  <2> HIDE DEF h
  <2>5. \A k \in 0..m : h[k] = IF k = 0 THEN 0 ELSE h[k - 1] + s[k]
    <3> TAKE k \in 0..m
    <3>1. CASE k = 0
      BY <2>4, <3>1
    <3>2. CASE k \in 1..m
      <4>1. k # 0 /\ k - 1 \in 0..m - 1
        BY <3>2
      <4>2. h[k] = g[k - 1] + s[k] /\ h[k - 1] = g[k - 1]
        BY <2>2, <2>3, <3>2, <4>1
      <4> QED BY <4>1, <4>2
    <3> QED BY <3>1, <3>2
  <2>6. SumSteps(h, s, m)
    BY <2>4, <2>5 DEF SumSteps
  <2> QED BY <2>6
<1>3. 0..n \subseteq N
  <2>1. N \in SUBSET Nat
    OBVIOUS
  <2> HIDE DEF N
  <2> QED BY <1>1, <1>2, <2>1, UpTo
<1> QED BY <1>3

LEMMA SumStepsSame ==
  ASSUME NEW b, NEW c, NEW n \in Nat, NEW m \in 0..n, \A k \in 1..m : b[k] = c[k],
         NEW g, SumSteps(g, b, n), NEW h, SumSteps(h, c, m)
  PROVE  g[m] = h[m]
<1> DEFINE N == {k \in Nat : k <= m => g[k] = h[k]}
<1>1. 0 \in N
  BY DEF SumSteps
<1>2. ASSUME NEW k \in 1..m, k - 1 \in N PROVE k \in N
  <2>1. g[k - 1] = h[k - 1] /\ b[k] = c[k]
    BY <1>2
  <2>2. g[k] = g[k - 1] + b[k]
    BY DEF SumSteps
  <2>3. h[k] = h[k - 1] + c[k]
    BY DEF SumSteps
  <2> QED BY <2>1, <2>2, <2>3
<1>3. 0..m \subseteq N
  <2>1. N \in SUBSET Nat
    OBVIOUS
  <2> HIDE DEF N
  <2> QED BY <1>1, <1>2, <2>1, UpTo
<1> QED BY <1>3

LEMMA SumOfIs ==
  ASSUME NEW b, Len(b) \in Nat
  PROVE  \E g : SumSteps(g, b, Len(b)) /\ SumOf(b) = g[Len(b)]
<1> DEFINE g == CHOOSE f : SumSteps(f, b, Len(b))
<1>1. SumSteps(g, b, Len(b))
  BY SumStepsIs
<1>2. g = CHOOSE f : f = [k \in 0..Len(b) |-> IF k = 0 THEN 0 ELSE f[k - 1] + b[k]]
  BY DEF SumSteps
<1>3. SumOf(b) = g[Len(b)]
  BY <1>2 DEF SumOf
<1> QED BY <1>1, <1>3

LEMMA SumAppend ==
  /\ SumOf(<<>>) = 0
  /\ \A b \in Seq(Int), e \in Int : SumOf(Append(b, e)) = SumOf(b) + e
<1>1. SumOf(<<>>) = 0
  <2>1. PICK g : SumSteps(g, <<>>, Len(<<>>)) /\ SumOf(<<>>) = g[Len(<<>>)]
    BY SumOfIs
  <2> QED BY <2>1 DEF SumSteps
<1>2. ASSUME NEW b \in Seq(Int), NEW e \in Int
      PROVE  SumOf(Append(b, e)) = SumOf(b) + e
  <2> DEFINE a == Append(b, e)
             n == Len(b)
  <2>1. n \in Nat /\ Len(a) = n + 1 /\ a[n + 1] = e /\ \A k \in 1..n : a[k] = b[k]
    OBVIOUS
  <2> HIDE DEF a
  <2>2. PICK g : SumSteps(g, a, n + 1) /\ SumOf(a) = g[n + 1]
    BY <2>1, SumOfIs
  <2>3. PICK h : SumSteps(h, b, n) /\ SumOf(b) = h[n]
    BY <2>1, SumOfIs
  <2>4. g[n + 1] = g[n] + e
    BY <2>1, <2>2 DEF SumSteps
  <2>5. g[n] = h[n]
    <3>1. n + 1 \in Nat /\ n \in 0..n + 1 /\ SumSteps(h, b, n) /\ SumSteps(g, a, n + 1)
      BY <2>1, <2>2, <2>3
    <3> HIDE DEF n
    <3> QED BY <2>1, <3>1, SumStepsSame
  <2> QED BY <2>2, <2>3, <2>4, <2>5 DEF a
<1> QED BY <1>1, <1>2

LEMMA SumIsInt == \A b \in Seq(Int) : SumOf(b) \in Int
<1> DEFINE T == {b \in Seq(Int) : SumOf(b) \in Int}
<1>1. <<>> \in T
  BY SumAppend
<1>2. ASSUME NEW c \in Seq(Int), NEW e \in Int, c \in T PROVE Append(c, e) \in T
  <2>1. SumOf(Append(c, e)) = SumOf(c) + e /\ Append(c, e) \in Seq(Int)
    BY SumAppend
  <2> QED BY <1>2, <2>1
<1>3. Seq(Int) \subseteq T
  <2> HIDE DEF T
  <2> QED BY <1>1, <1>2, SeqByAppend
<1> QED BY <1>3

LEMMA SumConcat ==
  ASSUME NEW a \in Seq(Int), NEW b \in Seq(Int)
  PROVE  SumOf(a \o b) = SumOf(a) + SumOf(b)
<1> DEFINE T == {c \in Seq(Int) : SumOf(a \o c) = SumOf(a) + SumOf(c)}
<1>1. <<>> \in T
  <2>1. a \o <<>> = a /\ SumOf(<<>>) = 0 /\ SumOf(a) \in Int
    BY SumAppend, SumIsInt
  <2> QED BY <2>1
<1>2. ASSUME NEW c \in Seq(Int), NEW e \in Int, c \in T PROVE Append(c, e) \in T
  <2>1. a \o c \in Seq(Int) /\ Append(c, e) \in Seq(Int)
    OBVIOUS
  <2>2. a \o Append(c, e) = Append(a \o c, e)
    BY ConcatAppend
  <2>3. SumOf(Append(a \o c, e)) = SumOf(a \o c) + e
    BY <2>1, SumAppend
  <2>4. SumOf(Append(c, e)) = SumOf(c) + e
    BY SumAppend
  <2>5. SumOf(a) \in Int /\ SumOf(c) \in Int /\ SumOf(a \o c) = SumOf(a) + SumOf(c)
    BY <1>2, SumIsInt
  <2>6. SumOf(a \o Append(c, e)) = SumOf(a) + SumOf(Append(c, e))
    BY <2>2, <2>3, <2>4, <2>5
  <2> QED BY <2>1, <2>6
<1>3. Seq(Int) \subseteq T
  <2> HIDE DEF T
  <2> QED BY <1>1, <1>2, SeqByAppend
<1> QED BY <1>3

-----------------------------------------------------------------------------
(* Messages: what each class is, and how it is written.                    *)

Types == {"Query", "Answer", "Empty"}
Singular(t) == Class(t).singular
Known(t) == DOMAIN Class(t).cases

\* The tag of field f, the only number among the fields being the first.
TagOf(f) == IF f = 1 THEN 8 ELSE 8 * f + 2

\* The elements of a stream; those with a whole value that fits its tag.
Elements == [tag : Nat, value : Int]
Fits(e) == e.value \in (IF e.tag % 8 = LENGTH_DELIMITED THEN Strings ELSE Ints)
Streamed == {e \in Elements : e.value # NoValue => Fits(e)}
WholeFields == {e \in Elements : Fits(e)}
Foreign(t) == {e \in WholeFields : e.tag \notin Known(t) /\ e.tag % 8 # END_GROUP}

\* What a message of each class is.
Right(m) ==
  /\ m.type \in Types
  /\ m = [type |-> m.type, has |-> m.has, value |-> m.value, items |-> m.items,
          unknown |-> m.unknown]
  /\ m.has \subseteq Singular(m.type)
  /\ m.value = [f \in Singular(m.type) |-> m.value[f]]
  /\ \A f \in Singular(m.type) :
       m.value[f] \in ValuesOf(m, f) /\ (f \notin m.has => m.value[f] = 0)
  /\ m.items \in Seq(Strings) /\ (Class(m.type).repeated = 0 => m.items = <<>>)
  /\ m.unknown \in Seq(Foreign(m.type))

Small(m) == Len(m.items) <= MaxExtra /\ Len(m.unknown) <= MaxExtra

MessagesInv ==
  /\ msg = [i \in {1, 2} |-> msg[i]]
  /\ <<msg[1].type, msg[2].type>> \in {<<"Query", "Query">>, <<"Answer", "Empty">>}
  /\ \A i \in {1, 2} : Right(msg[i]) /\ Small(msg[i])
  /\ read \in {"success", "failure"}

LEMMA ClassIs ==
  ASSUME NEW t \in Types
  PROVE  /\ Singular(t) = IF t = "Empty" THEN {1} ELSE IF t = "Query" THEN {1, 2}
                          ELSE {1, 2, 3}
         /\ Class(t).repeated = IF t = "Empty" THEN 0 ELSE IF t = "Query" THEN 3 ELSE 4
         /\ Class(t).sized = Singular(t) /\ Class(t).merged = Singular(t)
         /\ Class(t).cleared = Singular(t) /\ Class(t).swapped = Singular(t)
         /\ Known(t) = IF t = "Empty" THEN {8} ELSE IF t = "Query" THEN {8, 18, 26}
                       ELSE {8, 18, 26, 34}
         /\ Class(t).array = Class(t).writes
         /\ \A e \in Known(t) : LET f == Class(t).cases[e]
                                IN /\ e = TagOf(f) /\ f \in 1..4
                                   /\ f \in Singular(t) \cup {Class(t).repeated}
         /\ \A f \in Singular(t) : TagOf(f) \in Known(t) /\ Class(t).cases[TagOf(f)] = f
         /\ LET f == Class(t).repeated
            IN f # 0 => TagOf(f) \in Known(t) /\ Class(t).cases[TagOf(f)] = f
<1>1. CASE t = "Query"
  <2>1. Class(t) = QueryClass
    BY <1>1 DEF Class
  <2>2. /\ Class(t).cases = QueryCases /\ Class(t).repeated = 3 /\ Singular(t) = {1, 2}
        /\ Known(t) = {8, 18, 26}
        /\ Class(t).array = QueryToArray /\ Class(t).writes = QueryWrites
        /\ Class(t).sized = {1, 2} /\ Class(t).merged = {1, 2}
        /\ Class(t).cleared = {1, 2} /\ Class(t).swapped = {1, 2}
    BY <2>1 DEF QueryClass, QueryCases, QueryFields, QuerySized, QueryMerged,
      QueryCleared, QuerySwapped, Singular, Known
  <2>3. /\ QueryCases[8] = 1 /\ QueryCases[18] = 2 /\ QueryCases[26] = 3
        /\ TagOf(1) = 8 /\ TagOf(2) = 18 /\ TagOf(3) = 26 /\ QueryToArray = QueryWrites
    BY DEF QueryCases, TagOf, QueryToArray, QueryWrites
  <2> QED BY <1>1, <2>2, <2>3
<1>2. CASE t = "Answer"
  <2>1. Class(t) = AnswerClass
    BY <1>2 DEF Class
  <2> QED BY <1>2, <2>1 DEF AnswerClass, AnswerCases, AnswerWrites, AnswerToArray,
        AnswerFields, AnswerSized, AnswerMerged, AnswerCleared, AnswerSwapped, Singular,
        Known, TagOf
<1>3. CASE t = "Empty"
  <2>1. Class(t) = EmptyClass
    BY <1>3 DEF Class
  <2> QED BY <1>3, <2>1 DEF EmptyClass, EmptyCases, EmptyWrites, EmptyToArray, EmptyFields,
        EmptySized, EmptyMerged, EmptyCleared, EmptySwapped, Singular, Known, TagOf
<1> QED BY <1>1, <1>2, <1>3 DEF Types

\* A singular field and the items as they are written.
One(m, f) == IF f \in m.has THEN <<Element(TagOf(f), m.value[f])>> ELSE <<>>
Items(m) == [k \in 1..Len(m.items) |->
               Element(TagOf(Class(m.type).repeated), m.items[k])]
Behind(m) == One(m, 2) \o (One(m, 3) \o (Items(m) \o m.unknown))

LEMMA OneIs ==
  ASSUME NEW m, Right(m), NEW f \in 1..3
  PROVE  One(m, f) \in Seq(WholeFields)
<1>1. CASE f \notin m.has
  BY <1>1 DEF One
<1>2. CASE f \in m.has
  <2>1. f \in Singular(m.type) /\ m.value[f] \in ValuesOf(m, f)
    BY <1>2 DEF Right
  <2>2. /\ TagOf(f) \in Nat
        /\ TagOf(f) % 8 = IF f = 1 THEN 0 ELSE 2
    BY DEF TagOf
  <2>3. m.value[f] \in IF f = 1 THEN Ints ELSE Strings
    BY <2>1, MessagesAssumption DEF ValuesOf
  <2>4. Element(TagOf(f), m.value[f]) \in WholeFields
    <3> DEFINE g == TagOf(f)
               v == m.value[f]
               e == Element(g, v)
    <3>1. e.tag = g /\ e.value = v /\ e = [tag |-> g, value |-> v]
      BY DEF Element
    <3>2. g \in Nat /\ v \in IF g % 8 = 2 THEN Strings ELSE Ints
      BY <2>2, <2>3
    <3>3. v \in Int
      <4>1. Strings \subseteq Int /\ Ints \subseteq Int
        BY MessagesAssumption DEF Strings
      <4> HIDE DEF v, g
      <4> QED BY <3>2, <4>1
    <3> HIDE DEF e, g, v
    <3>4. e \in Elements
      BY <3>1, <3>2, <3>3 DEF Elements
    <3>5. Fits(e)
      BY <3>1, <3>2 DEF Fits, LENGTH_DELIMITED
    <3> QED BY <3>4, <3>5 DEF WholeFields, e, g, v
  <2> QED BY <1>2, <2>4 DEF One
<1> QED BY <1>1, <1>2

LEMMA ItemsAre ==
  ASSUME NEW m, Right(m)
  PROVE  Items(m) \in Seq(WholeFields)
<1>1. CASE Class(m.type).repeated = 0
  BY <1>1 DEF Right, Items
<1>2. CASE Class(m.type).repeated # 0
  <2> DEFINE g == TagOf(Class(m.type).repeated)
  <2>1. g \in Nat /\ g % 8 = 2
    BY <1>2, ClassIs DEF Right, TagOf
  <2>2. Len(m.items) \in Nat /\ \A k \in 1..Len(m.items) : m.items[k] \in Strings
    BY DEF Right
  <2> HIDE DEF g
  <2>3. \A k \in 1..Len(m.items) : Element(g, m.items[k]) \in WholeFields
    BY <2>1, <2>2 DEF Element, WholeFields, Elements, Fits, LENGTH_DELIMITED, Strings
  <2> QED BY <2>2, <2>3 DEF Items, g
<1> QED BY <1>1, <1>2

LEMMA UnknownIs ==
  ASSUME NEW m, Right(m)
  PROVE  m.unknown \in Seq(WholeFields)
<1>1. Foreign(m.type) \subseteq WholeFields
  BY DEF Foreign
<1> QED BY <1>1 DEF Right

\* What is written, whatever the class.
LEMMA SerializeIs ==
  ASSUME NEW m, Right(m)
  PROVE  /\ Serialize(m) = One(m, 1) \o Behind(m)
         /\ SerializeToArray(m) = Serialize(m)
         /\ Behind(m) \in Seq(WholeFields) /\ Serialize(m) \in Seq(WholeFields)
<1> DEFINE w == Class(m.type).writes
           a == WrittenField(m, w, 1)
           b == WrittenField(m, w, 2)
           c == WrittenField(m, w, 3)
           d == WrittenField(m, w, 4)
           p == One(m, 1)
           q == One(m, 2)
           r == One(m, 3)
           i == Items(m)
           u == m.unknown
<1>1. /\ p \in Seq(WholeFields) /\ q \in Seq(WholeFields) /\ r \in Seq(WholeFields)
      /\ i \in Seq(WholeFields) /\ u \in Seq(WholeFields)
  BY OneIs, ItemsAre, UnknownIs
<1>2. SerializeToArray(m) = Serialize(m)
  BY ClassIs DEF SerializeToArray, Serialize, Right
<1>3. Serialize(m) = a \o (b \o (c \o (d \o u)))
  BY DEF Serialize, Written
<1>4. a = p /\ b \o (c \o (d \o u)) = q \o (r \o (i \o u))
  <2>1. CASE m.type = "Query"
    <3>1. w = QueryWrites /\ Class(m.type).repeated = 3
      BY <2>1 DEF Class, QueryClass
    <3>2. 3 \notin m.has
      BY <2>1, ClassIs DEF Right, Types
    <3>3. a = p /\ b = q /\ c = i /\ d = <<>> /\ r = <<>>
      BY <3>1, <3>2 DEF WrittenField, QueryWrites, One, Items, Tag, TagOf, VARINT, LENGTH_DELIMITED
    <3> HIDE DEF a, b, c, d, p, q, r, i, w, u
    <3>4. i \o u \in Seq(WholeFields)
      BY <1>1
    <3>5. <<>> \o u = u /\ <<>> \o (i \o u) = i \o u
      BY <1>1, <3>4
    <3> QED BY <3>3, <3>5
  <2>2. CASE m.type = "Answer"
    <3>1. w = AnswerWrites /\ Class(m.type).repeated = 4
      BY <2>2 DEF Class, AnswerClass
    <3>2. a = p /\ b = q /\ c = r /\ d = i
      BY <3>1 DEF WrittenField, AnswerWrites, One, Items, Tag, TagOf, VARINT, LENGTH_DELIMITED
    <3> HIDE DEF a, b, c, d, p, q, r, i, w, u
    <3> QED BY <3>2
  <2>3. CASE m.type = "Empty"
    <3>1. w = EmptyWrites /\ Class(m.type).repeated = 0
      BY <2>3 DEF Class, EmptyClass
    <3>2. 2 \notin m.has /\ 3 \notin m.has /\ m.items = <<>>
      BY <2>3, <3>1, ClassIs DEF Right, Types
    <3>3. a = p /\ b = <<>> /\ c = <<>> /\ d = <<>> /\ q = <<>> /\ r = <<>> /\ i = <<>>
      BY <3>1, <3>2 DEF WrittenField, EmptyWrites, One, Items, Tag, TagOf, VARINT, LENGTH_DELIMITED
    <3> HIDE DEF a, b, c, d, p, q, r, i, w, u
    <3> QED BY <3>3
  <2> QED BY <2>1, <2>2, <2>3 DEF Right, Types
<1>5. Behind(m) = q \o (r \o (i \o u))
  BY DEF Behind
<1> HIDE DEF a, b, c, d, p, q, r, i, u
<1>6. Behind(m) \in Seq(WholeFields)
  <2>1. i \o u \in Seq(WholeFields)
    BY <1>1
  <2>2. r \o (i \o u) \in Seq(WholeFields)
    BY <1>1, <2>1, ConcatProperties
  <2> QED BY <1>1, <1>5, <2>2, ConcatProperties
<1>7. Serialize(m) = p \o Behind(m)
  BY <1>3, <1>4, <1>5
<1>8. p \o Behind(m) \in Seq(WholeFields)
  BY <1>1, <1>6, ConcatProperties
<1> QED BY <1>2, <1>6, <1>7, <1>8 DEF p

-----------------------------------------------------------------------------
\* What each member makes of a message.
IsMessage(m) == m = [type |-> m.type, has |-> m.has, value |-> m.value, items |-> m.items,
                     unknown |-> m.unknown]

LEMMA SetFieldIs ==
  ASSUME NEW m, IsMessage(m), NEW f, NEW v
  PROVE  LET n == SetField(m, f, v)
         IN /\ IsMessage(n) /\ n.type = m.type /\ n.has = m.has \cup {f}
            /\ n.value = [g \in DOMAIN m.value |-> IF g = f THEN v ELSE m.value[g]]
            /\ n.items = m.items /\ n.unknown = m.unknown
<1> DEFINE h == m.has \cup {f}
           w == [g \in DOMAIN m.value |-> IF g = f THEN v ELSE m.value[g]]
           q == [m EXCEPT !.has = h]
           n == SetField(m, f, v)
<1>1. PICK a, b, c, d, e : m = [type |-> a, has |-> b, value |-> c, items |-> d, unknown |-> e]
  BY DEF IsMessage
<1>2. m.type = a /\ m.has = b /\ m.value = c /\ m.items = d /\ m.unknown = e
  BY <1>1
<1>3. n = [q EXCEPT !.value = w]
  <2>1. q.value = m.value
    BY <1>1
  <2>2. n = [q EXCEPT !.value = [m.value EXCEPT ![f] = v]]
    BY <2>1 DEF SetField
  <2>3. [m.value EXCEPT ![f] = v] = w
    OBVIOUS
  <2> QED BY <2>2, <2>3
<1> HIDE DEF h, w, n
<1>4. q = [type |-> a, has |-> h, value |-> c, items |-> d, unknown |-> e]
  BY <1>1
<1> HIDE DEF q
<1>5. n = [type |-> a, has |-> h, value |-> w, items |-> d, unknown |-> e]
  BY <1>3, <1>4
<1>6. IsMessage(n) /\ n.type = a /\ n.has = h /\ n.value = w /\ n.items = d /\ n.unknown = e
  BY <1>5 DEF IsMessage
<1> QED BY <1>2, <1>6 DEF h, w, n

LEMMA ClearFieldIs ==
  ASSUME NEW m, IsMessage(m), NEW f
  PROVE  LET n == ClearField(m, f)
         IN /\ IsMessage(n) /\ n.type = m.type /\ n.has = m.has \ {f}
            /\ n.value = [g \in DOMAIN m.value |-> IF g = f THEN 0 ELSE m.value[g]]
            /\ n.items = m.items /\ n.unknown = m.unknown
<1> DEFINE h == m.has \ {f}
           w == [g \in DOMAIN m.value |-> IF g = f THEN 0 ELSE m.value[g]]
           q == [m EXCEPT !.has = h]
           n == ClearField(m, f)
<1>1. PICK a, b, c, d, e : m = [type |-> a, has |-> b, value |-> c, items |-> d, unknown |-> e]
  BY DEF IsMessage
<1>2. m.type = a /\ m.has = b /\ m.value = c /\ m.items = d /\ m.unknown = e
  BY <1>1
<1>3. n = [q EXCEPT !.value = w]
  <2>1. q.value = m.value
    BY <1>1
  <2>2. n = [q EXCEPT !.value = [m.value EXCEPT ![f] = 0]]
    BY <2>1 DEF ClearField
  <2>3. [m.value EXCEPT ![f] = 0] = w
    OBVIOUS
  <2> QED BY <2>2, <2>3
<1> HIDE DEF h, w, n
<1>4. q = [type |-> a, has |-> h, value |-> c, items |-> d, unknown |-> e]
  BY <1>1
<1> HIDE DEF q
<1>5. n = [type |-> a, has |-> h, value |-> w, items |-> d, unknown |-> e]
  BY <1>3, <1>4
<1>6. IsMessage(n) /\ n.type = a /\ n.has = h /\ n.value = w /\ n.items = d /\ n.unknown = e
  BY <1>5 DEF IsMessage
<1> QED BY <1>2, <1>6 DEF h, w, n

LEMMA AppendedIs ==
  ASSUME NEW m, IsMessage(m), NEW v
  PROVE  /\ LET n == AddItem(m, v)
            IN /\ IsMessage(n) /\ n.type = m.type /\ n.has = m.has /\ n.value = m.value
               /\ n.items = Append(m.items, v) /\ n.unknown = m.unknown
         /\ LET n == [m EXCEPT !.unknown = Append(@, v)]
            IN /\ IsMessage(n) /\ n.type = m.type /\ n.has = m.has /\ n.value = m.value
               /\ n.items = m.items /\ n.unknown = Append(m.unknown, v)
<1> DEFINE i == Append(m.items, v)
           u == Append(m.unknown, v)
           n == AddItem(m, v)
           q == [m EXCEPT !.unknown = Append(@, v)]
<1>1. PICK a, b, c, d, e : m = [type |-> a, has |-> b, value |-> c, items |-> d, unknown |-> e]
  BY DEF IsMessage
<1>2. m.type = a /\ m.has = b /\ m.value = c /\ m.items = d /\ m.unknown = e
  BY <1>1
<1>3. n = [m EXCEPT !.items = i] /\ q = [m EXCEPT !.unknown = u]
  BY <1>1 DEF AddItem
<1> HIDE DEF i, u, n, q
<1>4. n = [type |-> a, has |-> b, value |-> c, items |-> i, unknown |-> e]
  BY <1>1, <1>3
<1>5. q = [type |-> a, has |-> b, value |-> c, items |-> d, unknown |-> u]
  BY <1>1, <1>3
<1>6. IsMessage(n) /\ n.type = a /\ n.has = b /\ n.value = c /\ n.items = i /\ n.unknown = e
  BY <1>4 DEF IsMessage
<1>7. IsMessage(q) /\ q.type = a /\ q.has = b /\ q.value = c /\ q.items = d /\ q.unknown = u
  BY <1>5 DEF IsMessage
<1> QED BY <1>2, <1>6, <1>7 DEF i, u, n, q

-----------------------------------------------------------------------------
\* A message that is being read, and no end yet.
Going(m) == [m |-> m, end |-> "no"]

LEMMA ReadsElement ==
  ASSUME NEW p, NEW e
  PROVE  Reads(p, <<e>>) = ReadField(p, e)
<1>1. <<>> \in Seq({e}) /\ e \in {e} /\ Append(<<>>, e) = <<e>>
  OBVIOUS
<1>2. \A b \in Seq({e}) : Reads(p, Append(b, e)) = ReadField(Reads(p, b), e)
  BY <1>1, ReadsAppend
<1>3. Reads(p, Append(<<>>, e)) = ReadField(Reads(p, <<>>), e)
  BY <1>1, <1>2, Zenon
<1> QED BY <1>1, <1>3, ReadsNone

\* A field that is known goes to its place.
LEMMA ReadsKnown ==
  ASSUME NEW x, x.type \in Types, NEW f \in 1..4,
         f \in Singular(x.type) \/ f = Class(x.type).repeated,
         NEW v, v # NoValue
  PROVE  ReadField(Going(x), Element(TagOf(f), v)) =
           Going(IF f = Class(x.type).repeated
                   THEN AddItem(x, IF x.type = "Empty" THEN v % Int32Mod ELSE v)
                 ELSE SetField(x, f, IF x.type = "Empty" THEN v % Int32Mod ELSE v))
<1> DEFINE c == Class(x.type)
           g == TagOf(f)
           e == Element(g, v)
           p == Going(x)
<1>1. g \in DOMAIN c.cases /\ c.cases[g] = f
  BY ClassIs DEF Known
<1>2. e.tag = g /\ e.value = v /\ p.m = x /\ p.end = "no"
  BY DEF Element, Going
<1> HIDE DEF g, e, p
<1>3. Class(p.m.type) = c /\ c.cases[e.tag] = f /\ e.tag \in DOMAIN c.cases /\ e.value # NoValue
  BY <1>1, <1>2
<1>4. ReadField(p, e) =
        [m |-> IF f = c.repeated THEN AddItem(x, IF x.type = "Empty" THEN v % Int32Mod ELSE v)
               ELSE SetField(x, f, IF x.type = "Empty" THEN v % Int32Mod ELSE v),
         end |-> "no"]
  BY <1>2, <1>3 DEF ReadField
<1> QED BY <1>4 DEF Going, p, e, g

\* One that is not is kept as it came.
LEMMA ReadsForeign ==
  ASSUME NEW x, x.type \in Types, NEW e \in Foreign(x.type)
  PROVE  ReadField(Going(x), e) = Going([x EXCEPT !.unknown = Append(@, e)])
<1>1. e.tag \notin DOMAIN Class(x.type).cases /\ e.tag % 8 # END_GROUP /\ e.value # NoValue
  BY MessagesAssumption DEF Foreign, Known, WholeFields, Fits, Strings, NoValue
<1> DEFINE p == Going(x)
<1>2. p.m = x /\ p.end = "no" /\ p = [m |-> x, end |-> "no"]
  BY DEF Going
<1> HIDE DEF p
<1>3. ReadField(p, e) = [p EXCEPT !.m.unknown = Append(@, e)]
  BY <1>1, <1>2 DEF ReadField
<1>4. [p EXCEPT !.m.unknown = Append(@, e)]
        = [m |-> [x EXCEPT !.unknown = Append(@, e)], end |-> "no"]
  BY <1>2
<1> QED BY <1>3, <1>4 DEF p, Going

\* Reading a singular field sets it.
LEMMA ReadsOne ==
  ASSUME NEW x, x.type \in Types, NEW m, Right(m), m.type = x.type, NEW f \in 1..3
  PROVE  Reads(Going(x), One(m, f)) =
           Going(IF f \in m.has THEN SetField(x, f, m.value[f]) ELSE x)
<1>1. CASE f \notin m.has
  BY <1>1, ReadsNone DEF One
<1>2. CASE f \in m.has
  <2> DEFINE v == m.value[f]
  <2>1. f \in Singular(x.type) /\ v \in ValuesOf(m, f)
    BY <1>2 DEF Right
  <2>2. f # Class(x.type).repeated
    BY <2>1, ClassIs
  <2>3. v # NoValue
    BY <2>1, MessagesAssumption DEF ValuesOf, NoValue, Strings
  <2>4. (IF x.type = "Empty" THEN v % Int32Mod ELSE v) = v
    <3>1. CASE x.type = "Empty"
      <4>1. f = 1
        BY <2>1, <3>1, ClassIs
      <4>2. v \in 0..Int32Mod - 1
        BY <2>1, <3>1, <4>1 DEF ValuesOf
      <4> HIDE DEF v
      <4> QED BY <3>1, <4>2, MessagesAssumption
    <3>2. CASE x.type # "Empty"
      BY <3>2
    <3> QED BY <3>1, <3>2
  <2> HIDE DEF v
  <2>5. ReadField(Going(x), Element(TagOf(f), v)) = Going(SetField(x, f, v))
    BY <2>1, <2>2, <2>3, <2>4, ReadsKnown
  <2>6. Reads(Going(x), <<Element(TagOf(f), v)>>) = Going(SetField(x, f, v))
    BY <2>5, ReadsElement
  <2> QED BY <1>2, <2>6 DEF One, v
<1> QED BY <1>1, <1>2

\* Reading the items adds them.
LEMMA ReadsItems ==
  ASSUME NEW x, x.type \in Types, NEW r, r # 0, r = Class(x.type).repeated,
         x.items \in Seq(Strings), NEW items \in Seq(Strings),
         x = [type |-> x.type, has |-> x.has, value |-> x.value, items |-> x.items,
              unknown |-> x.unknown]
  PROVE  Reads(Going(x), [k \in 1..Len(items) |-> Element(TagOf(r), items[k])])
           = Going([type |-> x.type, has |-> x.has, value |-> x.value,
                    items |-> x.items \o items, unknown |-> x.unknown])
<1> DEFINE B(s) == [k \in 1..Len(s) |-> Element(TagOf(r), s[k])]
           E == {Element(TagOf(r), v) : v \in Strings}
           After(s) == [type |-> x.type, has |-> x.has, value |-> x.value,
                        items |-> x.items \o s, unknown |-> x.unknown]
           T == {s \in Seq(Strings) : Reads(Going(x), B(s)) = Going(After(s))}
<1>1. <<>> \in T
  <2>1. B(<<>>) = <<>>
    OBVIOUS
  <2>2. x.items \o <<>> = x.items
    OBVIOUS
  <2>3. After(<<>>) = x
    BY <2>2
  <2> QED BY <2>1, <2>3, ReadsNone
<1>2. ASSUME NEW s \in Seq(Strings), NEW v \in Strings, s \in T PROVE Append(s, v) \in T
  <2> DEFINE e == Element(TagOf(r), v)
             y == After(s)
  <2>1. B(s) \in Seq(E) /\ e \in E
    OBVIOUS
  <2>2. B(Append(s, v)) = Append(B(s), e)
    <3> DEFINE q == Append(s, v)
               w == B(s)
               n == Len(s)
    <3>1. n \in Nat /\ q \in Seq(Strings) /\ Len(q) = n + 1 /\ q[n + 1] = v
          /\ \A k \in 1..n : q[k] = s[k]
      OBVIOUS
    <3>2. Len(w) = n /\ \A k \in 1..n : w[k] = Element(TagOf(r), s[k])
      OBVIOUS
    <3> HIDE DEF q
    <3>3. B(q) \in Seq(E) /\ Len(B(q)) = n + 1
          /\ \A k \in 1..n + 1 : B(q)[k] = Element(TagOf(r), q[k])
      BY <3>1
    <3> HIDE DEF w, e, E, B
    <3>4. Append(w, e) \in Seq(E) /\ Len(Append(w, e)) = n + 1 /\ Append(w, e)[n + 1] = e
          /\ \A k \in 1..n : Append(w, e)[k] = w[k]
      BY <2>1, <3>2 DEF w
    <3> HIDE DEF n
    <3>5. ASSUME NEW k \in 1..n + 1 PROVE B(q)[k] = Append(w, e)[k]
      <4>1. CASE k = n + 1
        BY <3>1, <3>3, <3>4, <4>1 DEF e
      <4>2. CASE k # n + 1
        <5>1. k \in 1..n
          BY <3>1, <4>2
        <5> QED BY <3>1, <3>2, <3>3, <3>4, <5>1
      <4> QED BY <4>1, <4>2
    <3>6. B(q) = Append(w, e)
      BY <3>3, <3>4, <3>5, SeqEqual
    <3> QED BY <3>6 DEF q, w
  <2> HIDE DEF e, B, E
  <2>3. Reads(Going(x), B(Append(s, v))) = ReadField(Reads(Going(x), B(s)), e)
    BY <2>1, <2>2, ReadsAppend
  <2>4. Reads(Going(x), B(s)) = Going(y)
    BY <1>2
  <2>5. y.type = x.type
    OBVIOUS
  <2>6. ReadField(Going(y), e) = Going(AddItem(y, v))
    <3>1. v # NoValue /\ r \in 1..4 /\ x.type # "Empty"
      BY ClassIs DEF Strings, NoValue
    <3> HIDE DEF y
    <3> QED BY <2>5, <3>1, ReadsKnown DEF e
  <2>7. AddItem(y, v) = After(Append(s, v))
    <3>1. x.items \o Append(s, v) = Append(x.items \o s, v)
      OBVIOUS
    <3>2. y = [type |-> y.type, has |-> y.has, value |-> y.value, items |-> y.items,
               unknown |-> y.unknown]
      OBVIOUS
    <3>3. After(Append(s, v)) = [type |-> y.type, has |-> y.has, value |-> y.value,
                                 items |-> Append(y.items, v), unknown |-> y.unknown]
      BY <3>1
    <3> HIDE DEF y, After
    <3>4. AddItem(y, v) = [y EXCEPT !.items = Append(y.items, v)]
      BY DEF AddItem
    <3> DEFINE n == Append(y.items, v)
    <3>5. After(Append(s, v)) = [type |-> y.type, has |-> y.has, value |-> y.value,
                                 items |-> n, unknown |-> y.unknown]
      BY <3>3
    <3>6. AddItem(y, v) = [y EXCEPT !.items = n]
      BY <3>4
    <3> HIDE DEF n
    <3> QED BY <3>2, <3>5, <3>6
  <2> HIDE DEF After, y
  <2> QED BY <2>3, <2>4, <2>6, <2>7
<1> HIDE DEF T
<1>3. items \in T
  BY <1>1, <1>2, SeqByAppend
<1> QED BY <1>3 DEF T

\* Reading foreign fields keeps them as they came.
LEMMA ReadsUnknown ==
  ASSUME NEW x, x.type \in Types, x.unknown \in Seq(Foreign(x.type)),
         NEW b \in Seq(Foreign(x.type)), x = [type |-> x.type, has |-> x.has, value |-> x.value,
           items |-> x.items, unknown |-> x.unknown]
  PROVE  Reads(Going(x), b) =
           Going([type |-> x.type, has |-> x.has, value |-> x.value, items |-> x.items,
                  unknown |-> x.unknown \o b])
<1> DEFINE F == Foreign(x.type)
           After(s) == [type |-> x.type, has |-> x.has, value |-> x.value,
                        items |-> x.items, unknown |-> x.unknown \o s]
           T == {s \in Seq(F) : Reads(Going(x), s) = Going(After(s))}
<1>1. <<>> \in T
  <2>1. x.unknown \o <<>> = x.unknown
    OBVIOUS
  <2>2. After(<<>>) = x
    BY <2>1
  <2> QED BY <2>2, ReadsNone
<1>2. ASSUME NEW s \in Seq(F), NEW e \in F, s \in T PROVE Append(s, e) \in T
  <2> DEFINE y == After(s)
  <2>1. Append(s, e) \in Seq(F)
    OBVIOUS
  <2>2. Reads(Going(x), Append(s, e)) = ReadField(Reads(Going(x), s), e)
    <3> HIDE DEF F
    <3> QED BY <1>2, ReadsAppend
  <2>3. Reads(Going(x), s) = Going(y) /\ y.type = x.type
    BY <1>2
  <2>4. [y EXCEPT !.unknown = Append(@, e)] = After(Append(s, e))
    <3>1. x.unknown \o Append(s, e) = Append(x.unknown \o s, e)
      <4> HIDE DEF F
      <4>1. x.unknown \in Seq(F)
        BY DEF F
      <4> QED BY <4>1, ConcatAppend
    <3>2. y = [type |-> y.type, has |-> y.has, value |-> y.value, items |-> y.items,
               unknown |-> y.unknown]
      OBVIOUS
    <3>3. After(Append(s, e)) = [type |-> y.type, has |-> y.has, value |-> y.value,
                                 items |-> y.items, unknown |-> Append(y.unknown, e)]
      BY <3>1
    <3> HIDE DEF y, After
    <3> DEFINE n == Append(y.unknown, e)
    <3>4. After(Append(s, e)) = [type |-> y.type, has |-> y.has, value |-> y.value,
                                 items |-> y.items, unknown |-> n]
      BY <3>3
    <3> SUFFICES [y EXCEPT !.unknown = n] = After(Append(s, e))
      OBVIOUS
    <3> HIDE DEF n
    <3> QED BY <3>2, <3>4
  <2>5. ReadField(Going(y), e) = Going([y EXCEPT !.unknown = Append(@, e)])
    <3> HIDE DEF y
    <3> QED BY <2>3, ReadsForeign
  <2> HIDE DEF After, y
  <2> QED BY <2>1, <2>2, <2>3, <2>4, <2>5
<1> HIDE DEF T
<1>3. b \in T
  <2> HIDE DEF F
  <2>1. b \in Seq(F)
    BY DEF F
  <2> QED BY <1>1, <1>2, <2>1, SeqByAppend
<1> QED BY <1>3 DEF T

\* Pieces are read one after the other.
LEMMA ReadsPieces ==
  ASSUME NEW S, NEW a \in Seq(S), NEW b \in Seq(S), NEW c \in Seq(S), NEW d \in Seq(S),
         NEW e \in Seq(S), NEW p
  PROVE  /\ a \o (b \o (c \o (d \o e))) \in Seq(S)
         /\ Reads(p, a \o (b \o (c \o (d \o e))))
              = Reads(Reads(Reads(Reads(Reads(p, a), b), c), d), e)
<1>1. \A q : Reads(q, d \o e) = Reads(Reads(q, d), e)
  BY ReadsConcat
<1>2. PICK f \in Seq(S) : f = d \o e
  BY ConcatProperties
<1>3. \A q : Reads(q, c \o f) = Reads(Reads(q, c), f)
  BY ReadsConcat
<1>4. PICK g \in Seq(S) : g = c \o f
  BY ConcatProperties
<1>5. \A q : Reads(q, b \o g) = Reads(Reads(q, b), g)
  BY ReadsConcat
<1>6. PICK h \in Seq(S) : h = b \o g
  BY ConcatProperties
<1>7. Reads(p, a \o h) = Reads(Reads(p, a), h) /\ a \o h \in Seq(S)
  BY ReadsConcat, ConcatProperties
<1>8. a \o (b \o (c \o (d \o e))) = a \o h
  BY <1>2, <1>4, <1>6
<1>9. \A q : Reads(q, f) = Reads(Reads(q, d), e)
  BY <1>1, <1>2, Zenon
<1>10. \A q : Reads(q, g) = Reads(Reads(Reads(q, c), d), e)
  BY <1>3, <1>4, <1>9, Zenon
<1>11. \A q : Reads(q, h) = Reads(Reads(Reads(Reads(q, b), c), d), e)
  BY <1>5, <1>6, <1>10, Zenon
<1> QED BY <1>7, <1>8, <1>11, Zenon

\* A singular field of m, if it is there, given to y.
Given(y, m, f) == IF f \in m.has THEN SetField(y, f, m.value[f]) ELSE y

LEMMA GivenAll ==
  ASSUME NEW x, Right(x), NEW m, m.has \subseteq Singular(x.type)
  PROVE  Given(Given(Given(x, m, 1), m, 2), m, 3) =
           [type |-> x.type, has |-> x.has \cup m.has,
            value |-> [f \in Singular(x.type) |-> IF f \in m.has THEN m.value[f] ELSE x.value[f]],
            items |-> x.items, unknown |-> x.unknown]
<1> DEFINE D == Singular(x.type)
           M(h, v) == [type |-> x.type, has |-> h, value |-> v,
                       items |-> x.items, unknown |-> x.unknown]
           V(S) == [f \in D |-> IF f \in m.has \cap S THEN m.value[f] ELSE x.value[f]]
           H(S) == x.has \cup (m.has \cap S)
<1>1. x = M(H({}), V({}))
  BY DEF Right
<1>2. \A S : \A f \in 1..3 : Given(M(H(S), V(S)), m, f) = M(H(S \cup {f}), V(S \cup {f}))
  <2> SUFFICES ASSUME NEW S, NEW f \in 1..3
               PROVE  Given(M(H(S), V(S)), m, f) = M(H(S \cup {f}), V(S \cup {f}))
    OBVIOUS
  <2>1. CASE f \notin m.has
    <3>1. m.has \cap S = m.has \cap (S \cup {f})
      BY <2>1
    <3> QED BY <2>1, <3>1 DEF Given
  <2>2. CASE f \in m.has
    <3>1. H(S \cup {f}) = H(S) \cup {f}
      BY <2>2
    <3>2. V(S \cup {f}) = [V(S) EXCEPT ![f] = m.value[f]]
      BY <2>2
    <3> HIDE DEF H, V
    <3>3. Given(M(H(S), V(S)), m, f) =
            [M(H(S), V(S)) EXCEPT !.has = @ \cup {f}, !.value[f] = m.value[f]]
      BY <2>2 DEF Given, SetField
    <3> QED BY <3>1, <3>2, <3>3
  <2> QED BY <2>1, <2>2
<1> DEFINE S1 == {} \cup {1}
           S2 == S1 \cup {2}
           S3 == S2 \cup {3}
<1>3. m.has \cap S3 = m.has
  BY ClassIs DEF Right
<1>4. /\ H(S3) = x.has \cup m.has
      /\ V(S3) = [f \in D |-> IF f \in m.has THEN m.value[f] ELSE x.value[f]]
  <2> HIDE DEF S3
  <2> QED BY <1>3
<1> HIDE DEF M, H, V
<1>9. 1 \in 1..3 /\ 2 \in 1..3 /\ 3 \in 1..3
  OBVIOUS
<1>5. Given(M(H({}), V({})), m, 1) = M(H(S1), V(S1))
  BY <1>2, <1>9, Zenon
<1> HIDE DEF S1
<1>6. Given(M(H(S1), V(S1)), m, 2) = M(H(S2), V(S2))
  BY <1>2, <1>9, Zenon
<1> HIDE DEF S2
<1>7. Given(M(H(S2), V(S2)), m, 3) = M(H(S3), V(S3))
  BY <1>2, <1>9, Zenon
<1> HIDE DEF S3
<1>8. Given(Given(Given(x, m, 1), m, 2), m, 3) = M(H(S3), V(S3))
  BY <1>1, <1>5, <1>6, <1>7, Zenon
<1> QED BY <1>4, <1>8 DEF M

\* What MergeFrom() gives.
Merged(x, m) ==
  [type |-> x.type, has |-> x.has \cup m.has,
   value |-> [f \in Singular(x.type) |-> IF f \in m.has THEN m.value[f] ELSE x.value[f]],
   items |-> x.items \o m.items, unknown |-> x.unknown \o m.unknown]

LEMMA MergeFromIs ==
  ASSUME NEW x, Right(x), NEW m, Right(m), m.type = x.type
  PROVE  MergeFrom(x, m) = Merged(x, m)
<1>1. m.has \cap Class(x.type).merged = m.has
  BY ClassIs DEF Right
<1>2. DOMAIN x.value = Singular(x.type)
  BY DEF Right
<1>3. MergeFrom(x, m) = [x EXCEPT !.has = x.has \cup m.has,
               !.value = [f \in Singular(x.type) |->
                 IF f \in m.has THEN m.value[f] ELSE x.value[f]],
               !.items = x.items \o m.items,
               !.unknown = x.unknown \o m.unknown]
  BY <1>1, <1>2 DEF MergeFrom
<1>4. x = [type |-> x.type, has |-> x.has, value |-> x.value, items |-> x.items,
           unknown |-> x.unknown]
  BY DEF Right
<1> QED BY <1>3, <1>4 DEF Merged

\* A message read into another of its class is merged into it.
LEMMA ReadsMessage ==
  ASSUME NEW x, Right(x), NEW m, Right(m), m.type = x.type
  PROVE  Reads(Going(x), Serialize(m)) = Going(Merged(x, m))
<1> DEFINE t == x.type
           r == Class(t).repeated
           x1 == Given(x, m, 1)
           x2 == Given(x1, m, 2)
           x3 == Given(x2, m, 3)
           v == [f \in Singular(t) |-> IF f \in m.has THEN m.value[f] ELSE x.value[f]]
           y == [type |-> t, has |-> x.has \cup m.has, value |-> v,
                 items |-> x.items, unknown |-> x.unknown]
           z == [type |-> t, has |-> x.has \cup m.has, value |-> v,
                 items |-> x.items \o m.items, unknown |-> x.unknown]
           i == Items(m)
           u == m.unknown
           p == Going(x)
<1>1. /\ One(m, 1) \in Seq(WholeFields) /\ One(m, 2) \in Seq(WholeFields)
      /\ One(m, 3) \in Seq(WholeFields)
      /\ i \in Seq(WholeFields) /\ u \in Seq(WholeFields)
  BY OneIs, ItemsAre, UnknownIs
<1>2. Serialize(m) = One(m, 1) \o (One(m, 2) \o (One(m, 3) \o (i \o u)))
  BY SerializeIs DEF Behind
<1>3. Reads(p, Serialize(m)) =
        Reads(Reads(Reads(Reads(Reads(p, One(m, 1)), One(m, 2)), One(m, 3)), i), u)
  <2> DEFINE a == One(m, 1)
             b == One(m, 2)
             c == One(m, 3)
  <2> HIDE DEF i, u, p, a, b, c
  <2>1. Reads(p, a \o (b \o (c \o (i \o u)))) = Reads(Reads(Reads(Reads(Reads(p, a), b), c), i), u)
    BY <1>1, ReadsPieces DEF a, b, c
  <2> QED BY <1>2, <2>1 DEF a, b, c
<1>4. t \in Types /\ x1.type = t /\ x2.type = t
  <2>1. \A w, f : Given(w, m, f).type = w.type
    BY DEF SetField, Given
  <2>2. t \in Types
    BY DEF Right
  <2> QED BY <2>1, <2>2
<1>5. /\ Reads(p, One(m, 1)) = Going(x1)
      /\ Reads(Going(x1), One(m, 2)) = Going(x2)
      /\ Reads(Going(x2), One(m, 3)) = Going(x3)
  <2>1. \A w : \A f \in 1..3 : w.type = t => Reads(Going(w), One(m, f)) = Going(Given(w, m, f))
    <3> SUFFICES ASSUME NEW w, NEW f \in 1..3, w.type = t
                 PROVE  Reads(Going(w), One(m, f)) = Going(Given(w, m, f))
      OBVIOUS
    <3>1. w.type \in Types /\ m.type = w.type
      BY <1>4
    <3> HIDE DEF t
    <3> QED BY <3>1, ReadsOne DEF Given
  <2> HIDE DEF x1, x2
  <2>2. Reads(p, One(m, 1)) = Going(Given(x, m, 1))
    BY <2>1
  <2>3. Reads(Going(x1), One(m, 2)) = Going(Given(x1, m, 2))
    BY <1>4, <2>1
  <2>4. Reads(Going(x2), One(m, 3)) = Going(Given(x2, m, 3))
    BY <1>4, <2>1
  <2> QED BY <2>2, <2>3, <2>4 DEF x1, x2
<1>6. x3 = y
  <2>1. m.has \subseteq Singular(x.type)
    BY DEF Right
  <2> QED BY <2>1, GivenAll
<1> HIDE DEF x1, x2, x3, p, i, u
<1>7. y = [type |-> y.type, has |-> y.has, value |-> y.value, items |-> y.items,
           unknown |-> y.unknown] /\ y.type = t /\ y.items = x.items
  OBVIOUS
<1>8. Reads(Going(y), i) = Going(z)
  <2>1. m.items \in Seq(Strings) /\ x.items \in Seq(Strings)
    BY DEF Right
  <2> HIDE DEF v
  <2>2. CASE r = 0
    <3>1. m.items = <<>> /\ i = <<>>
      BY <2>2 DEF Right, Items, i
    <3>2. z = y
      <4>1. x.items \o <<>> = x.items
        BY <2>1
      <4> QED BY <3>1, <4>1
    <3> QED BY <3>1, <3>2, ReadsNone
  <2>3. CASE r # 0
    <3> HIDE DEF y, t, z
    <3>1. i = [k \in 1..Len(m.items) |-> Element(TagOf(r), m.items[k])]
      BY DEF i, Items, t
    <3>2. y.type \in Types /\ r = Class(y.type).repeated /\ y.items \in Seq(Strings)
      BY <1>4, <1>7, <2>1
    <3> HIDE DEF r
    <3>3. Reads(Going(y), [k \in 1..Len(m.items) |-> Element(TagOf(r), m.items[k])])
            = Going([type |-> y.type, has |-> y.has, value |-> y.value,
                     items |-> y.items \o m.items, unknown |-> y.unknown])
      BY <1>7, <2>1, <2>3, <3>2, ReadsItems
    <3>4. z = [type |-> y.type, has |-> y.has, value |-> y.value,
               items |-> y.items \o m.items, unknown |-> y.unknown]
      BY DEF z, y
    <3> QED BY <3>1, <3>3, <3>4
  <2> QED BY <2>2, <2>3
<1>9. Reads(Going(z), u) = Going(Merged(x, m))
  <2> HIDE DEF v
  <2>1. u \in Seq(Foreign(t)) /\ z.unknown \in Seq(Foreign(t)) /\ z.type = t
    BY DEF Right, u
  <2>2. z = [type |-> z.type, has |-> z.has, value |-> z.value, items |-> z.items,
             unknown |-> z.unknown]
    OBVIOUS
  <2>3. Merged(x, m) = [type |-> z.type, has |-> z.has, value |-> z.value, items |-> z.items,
                        unknown |-> z.unknown \o u]
    BY DEF Merged, u, v
  <2> HIDE DEF z, t
  <2>4. z.type \in Types /\ u \in Seq(Foreign(z.type)) /\ z.unknown \in Seq(Foreign(z.type))
    BY <1>4, <2>1
  <2> QED BY <2>2, <2>3, <2>4, ReadsUnknown
<1> HIDE DEF z, y
<1> QED BY <1>3, <1>5, <1>6, <1>8, <1>9 DEF p

-----------------------------------------------------------------------------
\* A new message, and a cleared one.
LEMMA NewIs ==
  ASSUME NEW t \in Types
  PROVE  /\ NewMessage(t) = [type |-> t, has |-> {}, value |-> [f \in Singular(t) |-> 0],
                             items |-> <<>>, unknown |-> <<>>]
         /\ Right(NewMessage(t)) /\ Small(NewMessage(t))
<1> DEFINE m == NewMessage(t)
<1>1. m = [type |-> t, has |-> {}, value |-> [f \in Singular(t) |-> 0],
           items |-> <<>>, unknown |-> <<>>]
  BY DEF NewMessage, Singular
<1>2. 0 \in Ints /\ 0 \in Strings /\ 0 \in 0..Int32Mod - 1
  BY MessagesAssumption DEF Strings
<1> HIDE DEF m
<1>3. /\ m.type = t /\ m.has = {} /\ m.value = [f \in Singular(t) |-> 0]
      /\ m.items = <<>> /\ m.unknown = <<>>
  BY <1>1
<1>4. \A f \in Singular(t) : m.value[f] = 0 /\ 0 \in ValuesOf(m, f)
  BY <1>2, <1>3 DEF ValuesOf
<1>5. m.items \in Seq(Strings) /\ m.unknown \in Seq(Foreign(t))
  BY <1>3
<1>6. Right(m)
  BY <1>1, <1>3, <1>4, <1>5 DEF Right
<1>7. Small(m)
  BY <1>3, MessagesAssumption DEF Small
<1> QED BY <1>1, <1>6, <1>7 DEF m

LEMMA ClearIs ==
  ASSUME NEW x, Right(x)
  PROVE  Clear(x) = NewMessage(x.type)
<1> DEFINE t == x.type
           z == [f \in Singular(t) |-> 0]
<1>1. t \in Types /\ DOMAIN x.value = Singular(t) /\ Class(t).cleared = Singular(t)
  BY ClassIs DEF Right
<1>2. [f \in DOMAIN x.value |-> IF f \in Class(x.type).cleared THEN 0 ELSE x.value[f]] = z
  BY <1>1
<1> HIDE DEF z
<1>3. Clear(x) = [x EXCEPT !.has = {}, !.items = <<>>, !.unknown = <<>>, !.value = z]
  BY <1>2 DEF Clear
<1>4. x = [type |-> x.type, has |-> x.has, value |-> x.value, items |-> x.items,
           unknown |-> x.unknown]
  BY DEF Right
<1>5. Clear(x) = [type |-> t, has |-> {}, value |-> z, items |-> <<>>, unknown |-> <<>>]
  BY <1>3, <1>4
<1> QED BY <1>1, <1>5, NewIs DEF z

\* What is merged into a new message is the message again.
LEMMA MergedNew ==
  ASSUME NEW m, Right(m)
  PROVE  Merged(NewMessage(m.type), m) = m
<1> DEFINE t == m.type
           n == NewMessage(t)
<1>1. n = [type |-> t, has |-> {}, value |-> [f \in Singular(t) |-> 0],
           items |-> <<>>, unknown |-> <<>>]
  BY NewIs DEF Right
<1> HIDE DEF n
<1>2. /\ n.type = t /\ n.has = {} /\ n.items = <<>> /\ n.unknown = <<>>
      /\ \A f \in Singular(t) : n.value[f] = 0
  BY <1>1
<1>3. m.value = [f \in Singular(t) |-> IF f \in m.has THEN m.value[f] ELSE n.value[f]]
  <2>1. \A f \in Singular(t) : m.value[f] = IF f \in m.has THEN m.value[f] ELSE n.value[f]
    BY <1>2 DEF Right
  <2>2. m.value = [f \in Singular(t) |-> m.value[f]]
    BY DEF Right
  <2> QED BY <2>1, <2>2
<1>4. n.has \cup m.has = m.has
  BY <1>2
<1>5. n.items \o m.items = m.items /\ n.unknown \o m.unknown = m.unknown
  BY <1>2 DEF Right
<1>6. Merged(n, m) = [type |-> t, has |-> m.has, value |-> m.value, items |-> m.items,
                      unknown |-> m.unknown]
  BY <1>2, <1>3, <1>4, <1>5 DEF Merged
<1>7. m = [type |-> t, has |-> m.has, value |-> m.value, items |-> m.items,
           unknown |-> m.unknown]
  BY DEF Right
<1> QED BY <1>6, <1>7 DEF n

LEMMA CopyFromIs ==
  ASSUME NEW x, Right(x), NEW m, Right(m), m.type = x.type
  PROVE  CopyFrom(x, m) = m
<1>1. Clear(x) = NewMessage(m.type)
  BY ClearIs
<1>2. m.type \in Types
  BY DEF Right
<1>3. NewMessage(m.type).type = m.type /\ Right(NewMessage(m.type))
  BY <1>2, NewIs
<1>4. MergeFrom(NewMessage(m.type), m) = Merged(NewMessage(m.type), m)
  BY <1>3, MergeFromIs
<1> QED BY <1>1, <1>4, MergedNew DEF CopyFrom

\* The merged message is one of its class.
LEMMA MergedRight ==
  ASSUME NEW x, Right(x), NEW m, Right(m), m.type = x.type
  PROVE  Right(Merged(x, m))
<1> DEFINE t == x.type
           y == Merged(x, m)
<1>1. /\ y.type = t /\ y.has = x.has \cup m.has /\ y.items = x.items \o m.items
      /\ y.unknown = x.unknown \o m.unknown
      /\ y.value = [f \in Singular(t) |-> IF f \in m.has THEN m.value[f] ELSE x.value[f]]
      /\ y = [type |-> y.type, has |-> y.has, value |-> y.value, items |-> y.items,
              unknown |-> y.unknown]
  BY DEF Merged
<1> HIDE DEF y
<1>2. y.has \subseteq Singular(t)
  BY <1>1 DEF Right
<1>3. \A f \in Singular(t) : y.value[f] = IF f \in m.has THEN m.value[f] ELSE x.value[f]
  BY <1>1
<1>4. \A f \in Singular(t) : y.value[f] \in ValuesOf(y, f) /\ (f \notin y.has => y.value[f] = 0)
  BY <1>1, <1>3 DEF Right, ValuesOf
<1>5. y.value = [f \in Singular(t) |-> y.value[f]]
  <2> DEFINE v == y.value
  <2>1. DOMAIN v = Singular(t) /\ v = [f \in DOMAIN v |-> v[f]]
    BY <1>1
  <2> QED BY <2>1
<1>6. y.items \in Seq(Strings) /\ (Class(t).repeated = 0 => y.items = <<>>)
  <2>1. x.items \in Seq(Strings) /\ m.items \in Seq(Strings)
        /\ (Class(t).repeated = 0 => x.items = <<>> /\ m.items = <<>>)
    BY DEF Right
  <2> QED BY <1>1, <2>1
<1>7. y.unknown \in Seq(Foreign(t))
  <2>1. x.unknown \in Seq(Foreign(t)) /\ m.unknown \in Seq(Foreign(t))
    BY DEF Right
  <2> QED BY <1>1, <2>1, ConcatProperties
<1>8. t \in Types
  BY DEF Right
<1> QED BY <1>1, <1>2, <1>4, <1>5, <1>6, <1>7, <1>8 DEF Right, y

LEMMA ParsedIs ==
  ASSUME NEW x, Right(x), NEW m, Right(m), m.type = x.type
  PROVE  MergePartial(x, Serialize(m)) = [m |-> Merged(x, m), end |-> "success"]
<1> DEFINE p == Reads([m |-> x, end |-> "no"], Serialize(m))
<1>1. p = [m |-> Merged(x, m), end |-> "no"]
  BY ReadsMessage DEF Going
<1>2. MergePartial(x, Serialize(m)) = [p EXCEPT !.end = IF @ = "no" THEN "success" ELSE @]
  BY DEF MergePartial
<1> HIDE DEF p
<1> QED BY <1>1, <1>2

-----------------------------------------------------------------------------
\* The bytes of an element are a number.
LEMMA ElementSizeInt == \A e \in WholeFields : ElementSize(e) \in Int
<1> SUFFICES ASSUME NEW e \in WholeFields PROVE ElementSize(e) \in Int
  OBVIOUS
<1>1. e.value \in Int
  BY DEF WholeFields, Elements
<1> QED BY <1>1 DEF ElementSize, SizeOf

LEMMA SizesAre ==
  ASSUME NEW b \in Seq(WholeFields)
  PROVE  ElementSizes(b) \in Seq(Int) /\ Len(ElementSizes(b)) = Len(b)
         /\ \A k \in 1..Len(b) : ElementSizes(b)[k] = ElementSize(b[k])
<1>1. \A k \in 1..Len(b) : b[k] \in WholeFields
  OBVIOUS
<1>2. \A k \in 1..Len(b) : ElementSize(b[k]) \in Int
  BY <1>1, ElementSizeInt
<1> QED BY <1>2 DEF ElementSizes

LEMMA SizesConcat ==
  ASSUME NEW a \in Seq(WholeFields), NEW b \in Seq(WholeFields)
  PROVE  SumOf(ElementSizes(a \o b)) = SumOf(ElementSizes(a)) + SumOf(ElementSizes(b))
<1> DEFINE c == a \o b
           l == ElementSizes(c)
           r == ElementSizes(a) \o ElementSizes(b)
<1>1. c \in Seq(WholeFields) /\ Len(c) = Len(a) + Len(b)
      /\ \A k \in 1..Len(c) : c[k] = IF k <= Len(a) THEN a[k] ELSE b[k - Len(a)]
  BY ConcatProperties
<1>2. /\ ElementSizes(a) \in Seq(Int) /\ Len(ElementSizes(a)) = Len(a)
      /\ \A k \in 1..Len(a) : ElementSizes(a)[k] = ElementSize(a[k])
  BY SizesAre
<1>3. /\ ElementSizes(b) \in Seq(Int) /\ Len(ElementSizes(b)) = Len(b)
      /\ \A k \in 1..Len(b) : ElementSizes(b)[k] = ElementSize(b[k])
  BY SizesAre
<1> HIDE DEF c
<1>4. /\ l \in Seq(Int) /\ Len(l) = Len(c) /\ \A k \in 1..Len(c) : l[k] = ElementSize(c[k])
  BY <1>1, SizesAre
<1>5. /\ r \in Seq(Int) /\ Len(r) = Len(a) + Len(b)
      /\ \A k \in 1..Len(a) + Len(b) :
           r[k] = IF k <= Len(a) THEN ElementSizes(a)[k] ELSE ElementSizes(b)[k - Len(a)]
  <2> DEFINE x == ElementSizes(a)
             y == ElementSizes(b)
  <2> HIDE DEF x, y
  <2>1. x \in Seq(Int) /\ y \in Seq(Int) /\ Len(x) = Len(a) /\ Len(y) = Len(b)
    BY <1>2, <1>3 DEF x, y
  <2>2. x \o y \in Seq(Int) /\ Len(x \o y) = Len(x) + Len(y)
        /\ \A k \in 1..Len(x) + Len(y) :
             (x \o y)[k] = IF k <= Len(x) THEN x[k] ELSE y[k - Len(x)]
    BY <2>1, ConcatProperties
  <2> QED BY <2>1, <2>2 DEF x, y
<1> HIDE DEF l, r
<1>6. Len(a) \in Nat /\ Len(b) \in Nat
  OBVIOUS
<1>7. ASSUME NEW k \in 1..Len(l) PROVE l[k] = r[k]
  <2>1. k \in 1..Len(a) + Len(b) /\ k \in 1..Len(c)
    BY <1>1, <1>4, <1>6
  <2>2. CASE k <= Len(a)
    <3>1. k \in 1..Len(a)
      BY <1>6, <2>1, <2>2
    <3> QED BY <1>1, <1>2, <1>4, <1>5, <2>1, <2>2, <3>1
  <2>3. CASE ~(k <= Len(a))
    <3>1. k - Len(a) \in 1..Len(b)
      BY <1>6, <2>1, <2>3
    <3> QED BY <1>1, <1>3, <1>4, <1>5, <2>1, <2>3, <3>1
  <2> QED BY <2>2, <2>3
<1>8. l = r
  BY <1>1, <1>4, <1>5, <1>7, SeqEqual
<1>9. SumOf(r) = SumOf(ElementSizes(a)) + SumOf(ElementSizes(b))
  BY <1>2, <1>3, SumConcat DEF r
<1> QED BY <1>8, <1>9 DEF l, c

LEMMA SizeOfOne ==
  ASSUME NEW m, Right(m), NEW f \in 1..3
  PROVE  SumOf(ElementSizes(One(m, f))) = FieldSize(m, f) /\ FieldSize(m, f) \in Int
<1>1. Class(m.type).sized = Singular(m.type) /\ m.has \subseteq Singular(m.type)
  BY ClassIs DEF Right
<1>2. CASE f \notin m.has
  <2>1. ElementSizes(<<>>) = <<>>
    BY DEF ElementSizes
  <2> QED BY <1>2, <2>1, SumAppend DEF One, FieldSize
<1>3. CASE f \in m.has
  <2> DEFINE v == m.value[f]
             e == Element(TagOf(f), v)
             z == ElementSize(e)
  <2>1. One(m, f) = <<e>> /\ <<e>> \in Seq(WholeFields)
    BY <1>3, OneIs DEF One
  <2>2. e \in WholeFields
    <3>1. Len(<<e>>) = 1 /\ <<e>>[1] = e
      OBVIOUS
    <3> HIDE DEF e
    <3> QED BY <2>1, <3>1, ElementOfSeq
  <2>3. z \in Int
    <3> HIDE DEF e
    <3> QED BY <2>2, ElementSizeInt
  <2>4. z = 1 + SizeOf(f = 1, v)
    <3>1. (TagOf(f) % 8 = VARINT) = (f = 1)
      BY DEF TagOf, VARINT
    <3> QED BY <3>1 DEF ElementSize, Element
  <2>5. FieldSize(m, f) = z
    BY <1>1, <1>3, <2>4 DEF FieldSize
  <2>6. ElementSizes(<<e>>) = <<z>>
    <3> HIDE DEF e
    <3> QED BY DEF ElementSizes
  <2>7. SumOf(<<z>>) = z
    <3> HIDE DEF z
    <3>1. <<>> \in Seq(Int) /\ Append(<<>>, z) = <<z>>
      OBVIOUS
    <3>2. SumOf(Append(<<>>, z)) = SumOf(<<>>) + z
      BY <2>3, <3>1, SumAppend
    <3> QED BY <2>3, <3>1, <3>2, SumAppend
  <2> HIDE DEF z, e
  <2> QED BY <2>1, <2>3, <2>5, <2>6, <2>7
<1> QED BY <1>2, <1>3

\* The length that is counted is that of the bytes that are written.
LEMMA CountedIs ==
  ASSUME NEW m, Right(m)
  PROVE  SumOf(ElementSizes(Serialize(m))) = ByteSize(m)
<1> DEFINE a == One(m, 1)
           b == One(m, 2)
           c == One(m, 3)
           i == Items(m)
           u == m.unknown
           N(s) == SumOf(ElementSizes(s))
           s == [k \in 1..Len(m.items) |-> 1 + SizeOf(FALSE, m.items[k])]
<1>1. /\ a \in Seq(WholeFields) /\ b \in Seq(WholeFields) /\ c \in Seq(WholeFields)
      /\ i \in Seq(WholeFields)
      /\ u \in Seq(WholeFields)
  BY OneIs, ItemsAre, UnknownIs
<1>2. Serialize(m) = a \o (b \o (c \o (i \o u)))
  BY SerializeIs DEF Behind
<1>3. N(a) = FieldSize(m, 1) /\ N(b) = FieldSize(m, 2) /\ N(c) = FieldSize(m, 3)
      /\ N(a) \in Int /\ N(b) \in Int /\ N(c) \in Int
  BY SizeOfOne
<1>4. ElementSizes(i) = s
  <2> DEFINE g == TagOf(Class(m.type).repeated)
  <2>1. Len(m.items) \in Nat /\ i = [k \in 1..Len(m.items) |-> Element(g, m.items[k])]
    BY DEF Right, Items
  <2>2. Class(m.type).repeated = 0 => s = <<>> /\ ElementSizes(i) = <<>>
    <3>1. Class(m.type).repeated = 0 => m.items = <<>>
      BY DEF Right
    <3>2. m.items = <<>> => i = <<>> /\ s = <<>>
      BY DEF Items
    <3>3. ElementSizes(<<>>) = <<>>
      BY DEF ElementSizes
    <3> QED BY <3>1, <3>2, <3>3
  <2>3. ASSUME Class(m.type).repeated # 0 PROVE g % 8 # VARINT
    BY <2>3, ClassIs DEF Right, TagOf, VARINT
  <2> HIDE DEF g, i
  <2>4. Len(i) = Len(m.items)
    BY <2>1
  <2>5. Class(m.type).repeated # 0 =>
          \A k \in 1..Len(m.items) : ElementSize(i[k]) = 1 + SizeOf(FALSE, m.items[k])
    BY <2>1, <2>3 DEF ElementSize, Element
  <2>6. Class(m.type).repeated # 0 => ElementSizes(i) = s
    BY <2>4, <2>5 DEF ElementSizes
  <2> QED BY <2>2, <2>6
<1>5. N(i) \in Int /\ N(u) \in Int
  <2> HIDE DEF i, u
  <2> QED BY <1>1, SizesAre, SumIsInt
<1> HIDE DEF a, b, c, i, u
<1>6. PICK x \in Seq(WholeFields) : x = i \o u
  BY <1>1, ConcatProperties
<1>7. PICK y \in Seq(WholeFields) : y = c \o x
  BY <1>1, ConcatProperties
<1>8. PICK z \in Seq(WholeFields) : z = b \o y
  BY <1>1, ConcatProperties
<1>9. N(a \o z) = N(a) + N(z) /\ N(b \o y) = N(b) + N(y) /\ N(c \o x) = N(c) + N(x)
      /\ N(i \o u) = N(i) + N(u)
  BY <1>1, SizesConcat
<1> HIDE DEF N
<1>10. N(Serialize(m)) = N(a) + N(b) + N(c) + N(i) + N(u)
  <2>1. N(x) = N(i) + N(u) /\ N(y) = N(c) + N(x) /\ N(z) = N(b) + N(y)
        /\ N(Serialize(m)) = N(a) + N(z)
    BY <1>2, <1>6, <1>7, <1>8, <1>9
  <2> QED BY <1>3, <1>5, <2>1
<1>11. ByteSize(m) = FieldSize(m, 1) + FieldSize(m, 2) + FieldSize(m, 3) + SumOf(s) + N(u)
  BY DEF ByteSize, N, u
<1>12. SumOf(s) = N(i)
  BY <1>4 DEF N
<1> QED BY <1>3, <1>10, <1>11, <1>12 DEF N

-----------------------------------------------------------------------------
\* All but the first field is foreign to a program that only knows that one.
LEMMA BehindForeign ==
  ASSUME NEW m, Right(m)
  PROVE  Behind(m) \in Seq(Foreign("Empty"))
<1> DEFINE F == Foreign("Empty")
           t == m.type
<1>1. t \in Types /\ Known("Empty") = {8} /\ 8 \in Known(t) /\ "Empty" \in Types
      /\ Class(t).repeated \in {0, 3, 4}
  BY ClassIs DEF Right, Types
<1>2. \A e \in WholeFields : e.tag \in {18, 26, 34} => e \in F
  BY <1>1 DEF Foreign, END_GROUP
<1>3. ASSUME NEW f \in {2, 3} PROVE One(m, f) \in Seq(F)
  <2>1. CASE f \notin m.has
    BY <2>1 DEF One
  <2>2. CASE f \in m.has
    <3> DEFINE e == Element(TagOf(f), m.value[f])
    <3>1. f \in 1..3
      OBVIOUS
    <3>2. One(m, f) = <<e>> /\ <<e>> \in Seq(WholeFields)
      BY <2>2, <3>1, OneIs DEF One
    <3>3. e.tag \in {18, 26}
      BY DEF Element, TagOf
    <3> HIDE DEF e, F
    <3>4. e \in WholeFields
      <4>1. Len(<<e>>) = 1 /\ <<e>>[1] = e
        OBVIOUS
      <4> QED BY <3>2, <4>1, ElementOfSeq
    <3>5. e \in F
      BY <1>2, <3>3, <3>4
    <3> QED BY <3>2, <3>5
  <2> QED BY <2>1, <2>2
<1>4. Items(m) \in Seq(F)
  <2> DEFINE g == TagOf(Class(t).repeated)
             i == Items(m)
  <2>1. CASE Class(t).repeated = 0
    BY <2>1 DEF Right, Items
  <2>2. CASE Class(t).repeated # 0
    <3>1. g \in {26, 34}
      BY <1>1, <2>2 DEF TagOf
    <3>2. i \in Seq(WholeFields)
      BY ItemsAre
    <3>3. Len(m.items) \in Nat /\ i = [k \in 1..Len(m.items) |-> Element(g, m.items[k])]
      BY DEF Right, Items
    <3> HIDE DEF g, F, i
    <3>4. Len(i) = Len(m.items) /\ \A k \in 1..Len(i) : i[k].tag = g
      BY <3>3 DEF Element
    <3>5. \A k \in 1..Len(i) : i[k] \in WholeFields
      BY <3>2, ElementOfSeq
    <3>6. \A k \in 1..Len(i) : i[k] \in F
      BY <1>2, <3>1, <3>4, <3>5
    <3>7. i = [k \in 1..Len(i) |-> i[k]] /\ Len(i) \in Nat
      BY <3>2, LenProperties
    <3>8. i \in Seq(F)
      BY <3>6, <3>7
    <3> QED BY <3>8 DEF i
  <2> QED BY <2>1, <2>2
<1>5. m.unknown \in Seq(F)
  <2>1. Foreign(t) \subseteq F
    BY <1>1 DEF Foreign
  <2>2. m.unknown \in Seq(Foreign(t))
    BY DEF Right
  <2> HIDE DEF F
  <2> QED BY <2>1, <2>2
<1> HIDE DEF F
<1>6. Items(m) \o m.unknown \in Seq(F)
  BY <1>4, <1>5, ConcatProperties
<1>7. One(m, 3) \o (Items(m) \o m.unknown) \in Seq(F)
  BY <1>3, <1>6, ConcatProperties
<1>8. One(m, 2) \o (One(m, 3) \o (Items(m) \o m.unknown)) \in Seq(F)
  BY <1>3, <1>7, ConcatProperties
<1> QED BY <1>8 DEF Behind, F

\* What such a program keeps of a message.
Passed(m) ==
  [type |-> "Empty", has |-> m.has \cap {1},
   value |-> [f \in {1} |-> IF 1 \in m.has THEN m.value[1] % Int32Mod ELSE 0],
   items |-> <<>>, unknown |-> Behind(m)]

LEMMA PassedIs ==
  ASSUME NEW m, Right(m)
  PROVE  MergePartial(NewMessage("Empty"), Serialize(m)) = [m |-> Passed(m), end |-> "success"]
<1> DEFINE n == NewMessage("Empty")
           u == m.value[1] % Int32Mod
           a == One(m, 1)
           b == Behind(m)
           x == IF 1 \in m.has THEN SetField(n, 1, u) ELSE n
<1>1. "Empty" \in Types /\ Singular("Empty") = {1} /\ Class("Empty").repeated = 0
  BY ClassIs DEF Types
<1>2. n = [type |-> "Empty", has |-> {}, value |-> [f \in {1} |-> 0], items |-> <<>>,
           unknown |-> <<>>]
  BY <1>1, NewIs
<1> HIDE DEF n
<1>3. n.type = "Empty" /\ n.has = {} /\ n.value = [f \in {1} |-> 0] /\ n.items = <<>>
      /\ n.unknown = <<>>
  BY <1>2
<1>4. x = [type |-> "Empty", has |-> m.has \cap {1},
           value |-> [f \in {1} |-> IF 1 \in m.has THEN u ELSE 0],
           items |-> <<>>, unknown |-> <<>>]
  <2>1. CASE 1 \notin m.has
    <3>1. m.has \cap {1} = {}
      BY <2>1
    <3> QED BY <1>2, <2>1, <3>1
  <2>2. CASE 1 \in m.has
    <3>1. {} \cup {1} = m.has \cap {1}
      BY <2>2
    <3>2. [[f \in {1} |-> 0] EXCEPT ![1] = u] = [f \in {1} |-> IF 1 \in m.has THEN u ELSE 0]
      <4> HIDE DEF u
      <4> QED BY <2>2
    <3> HIDE DEF u
    <3>3. SetField(n, 1, u) =
            [type |-> "Empty", has |-> {} \cup {1}, value |-> [[f \in {1} |-> 0] EXCEPT ![1] = u],
             items |-> <<>>, unknown |-> <<>>]
      <4> DEFINE q == SetField(n, 1, u)
      <4>1. IsMessage(n)
        BY <1>2 DEF IsMessage
      <4>2. /\ IsMessage(q) /\ q.type = n.type /\ q.has = n.has \cup {1}
            /\ q.value = [n.value EXCEPT ![1] = u] /\ q.items = n.items /\ q.unknown = n.unknown
        <5> DEFINE k == 1
        <5> HIDE DEF k
        <5> SUFFICES LET o == SetField(n, k, u)
                     IN /\ IsMessage(o) /\ o.type = n.type /\ o.has = n.has \cup {k}
                        /\ o.value = [n.value EXCEPT ![k] = u] /\ o.items = n.items
                        /\ o.unknown = n.unknown
          BY DEF k
        <5> HIDE DEF u
        <5>1. IsMessage(n)
          BY <4>1
        <5> QED BY <5>1, SetFieldIs
      <4> HIDE DEF q
      <4>3. q = [type |-> "Empty", has |-> {} \cup {1},
                 value |-> [[f \in {1} |-> 0] EXCEPT ![1] = u], items |-> <<>>, unknown |-> <<>>]
        BY <1>3, <4>2 DEF IsMessage
      <4> QED BY <4>3 DEF q
    <3> QED BY <2>2, <3>1, <3>2, <3>3
  <2> QED BY <2>1, <2>2
<1>5. Reads(Going(n), a) = Going(x)
  <2>1. CASE 1 \notin m.has
    BY <2>1, ReadsNone DEF One
  <2>2. CASE 1 \in m.has
    <3> DEFINE v == m.value[1]
    <3>1. v \in ValuesOf(m, 1)
      BY <2>2 DEF Right
    <3>2. v # NoValue
      BY <3>1, MessagesAssumption DEF ValuesOf, NoValue
    <3>3. 1 \in 1..4 /\ n.type \in Types /\ 1 \in Singular(n.type) /\ 1 # Class(n.type).repeated
      BY <1>1, <1>3
    <3> HIDE DEF v
    <3>4. ReadField(Going(n), Element(TagOf(1), v)) = Going(SetField(n, 1, v % Int32Mod))
      BY <1>3, <3>2, <3>3, ReadsKnown
    <3>5. Reads(Going(n), <<Element(TagOf(1), v)>>) = Going(SetField(n, 1, v % Int32Mod))
      BY <3>4, ReadsElement
    <3> QED BY <2>2, <3>5 DEF One, v
  <2> QED BY <2>1, <2>2
<1>6. Reads(Going(x), b) = Going(Passed(m))
  <2> DEFINE h == m.has \cap {1}
             v == [f \in {1} |-> IF 1 \in m.has THEN u ELSE 0]
  <2> HIDE DEF u, x
  <2>1. b \in Seq(Foreign("Empty")) /\ <<>> \in Seq(Foreign("Empty"))
    BY BehindForeign
  <2> HIDE DEF b
  <2>2. <<>> \o b = b
    BY <2>1
  <2>3. x.type = "Empty" /\ x.unknown = <<>>
        /\ x = [type |-> x.type, has |-> x.has, value |-> x.value, items |-> x.items,
                unknown |-> x.unknown]
    BY <1>4
  <2>4. x.type \in Types /\ x.unknown \in Seq(Foreign(x.type)) /\ b \in Seq(Foreign(x.type))
    BY <1>1, <2>1, <2>3
  <2>5. Reads(Going(x), b) = Going([type |-> x.type, has |-> x.has, value |-> x.value,
               items |-> x.items, unknown |-> x.unknown \o b])
    BY <2>3, <2>4, ReadsUnknown
  <2>6. [type |-> x.type, has |-> x.has, value |-> x.value,
         items |-> x.items, unknown |-> x.unknown \o b] = Passed(m)
    BY <1>4, <2>2, <2>3 DEF Passed, u, b
  <2> QED BY <2>5, <2>6
<1>7. a \in Seq(WholeFields) /\ b \in Seq(WholeFields) /\ Serialize(m) = a \o b
  BY OneIs, SerializeIs
<1>8. Reads(Going(n), Serialize(m)) = Going(Passed(m))
  <2> HIDE DEF a, b, x
  <2>1. Reads(Going(n), a \o b) = Reads(Reads(Going(n), a), b)
    BY <1>7, ReadsConcat
  <2> QED BY <1>5, <1>6, <1>7, <2>1
<1> DEFINE p == Reads([m |-> n, end |-> "no"], Serialize(m))
<1>9. p = [m |-> Passed(m), end |-> "no"]
  BY <1>8 DEF Going
<1>10. MergePartial(n, Serialize(m)) = [p EXCEPT !.end = IF @ = "no" THEN "success" ELSE @]
  BY DEF MergePartial
<1> HIDE DEF p
<1> QED BY <1>9, <1>10 DEF n

LEMMA RemainderIs == \A x \in Nat : x % Int32Mod \in 0..Int32Mod - 1 /\ 0 % Int32Mod = 0
<1>1. Int32Mod \in Nat /\ Int32Mod > 0
  BY MessagesAssumption
<1> QED BY <1>1

LEMMA PassedRight ==
  ASSUME NEW m, Right(m)
  PROVE  Right(Passed(m)) /\ Serialize(Passed(m)) = One(Passed(m), 1) \o Behind(m)
<1> DEFINE q == Passed(m)
           u == m.value[1] % Int32Mod
<1>1. /\ q.type = "Empty" /\ q.has = m.has \cap {1} /\ q.items = <<>> /\ q.unknown = Behind(m)
      /\ q.value = [f \in {1} |-> IF 1 \in m.has THEN u ELSE 0]
      /\ q = [type |-> q.type, has |-> q.has, value |-> q.value, items |-> q.items,
              unknown |-> q.unknown]
  BY DEF Passed
<1>2. "Empty" \in Types /\ Singular("Empty") = {1} /\ Class("Empty").repeated = 0
  BY ClassIs DEF Types
<1>3. 1 \in m.has => u \in 0..Int32Mod - 1
  <2>1. 1 \in m.has => m.value[1] \in Ints
    BY MessagesAssumption DEF Right, ValuesOf
  <2>2. Ints \subseteq Nat
    BY MessagesAssumption
  <2> QED BY <2>1, <2>2, RemainderIs
<1>4. Behind(m) \in Seq(Foreign("Empty"))
  BY BehindForeign
<1> HIDE DEF q, u
<1>5. q.has \subseteq {1} /\ q.value = [f \in {1} |-> q.value[f]]
  BY <1>1
<1>6. \A f \in {1} : q.value[f] \in ValuesOf(q, f) /\ (f \notin q.has => q.value[f] = 0)
  BY <1>1, <1>3, MessagesAssumption DEF ValuesOf
<1>7. <<>> \in Seq(Strings)
  OBVIOUS
<1>8. Right(q)
  BY <1>1, <1>2, <1>4, <1>5, <1>6, <1>7 DEF Right
<1>9. One(q, 2) = <<>> /\ One(q, 3) = <<>> /\ Items(q) = <<>>
  BY <1>1, <1>5 DEF One, Items
<1>10. Behind(q) = Behind(m)
  <2> DEFINE b == Behind(m)
  <2> HIDE DEF b
  <2>1. <<>> \o b = b
    BY <1>4 DEF b
  <2>2. Behind(q) = <<>> \o (<<>> \o (<<>> \o b))
    BY <1>1, <1>9 DEF Behind, b
  <2> QED BY <2>1, <2>2 DEF b
<1> QED BY <1>8, <1>10, SerializeIs DEF q

\* What has passed through it is the message again, its first field but for
\* what an int32 loses.
LEMMA PassedBack ==
  ASSUME NEW m, Right(m)
  PROVE  MergePartial(NewMessage(m.type), Serialize(Passed(m))).m
           = [m EXCEPT !.value[1] = @ % Int32Mod]
<1> DEFINE t == m.type
           u == m.value[1] % Int32Mod
           v == [f \in Singular(t) |-> IF f = 1 THEN u ELSE m.value[f]]
           n == [m EXCEPT !.value[1] = @ % Int32Mod]
           o == [type |-> t, has |-> m.has, value |-> v, items |-> m.items, unknown |-> m.unknown]
<1>1. t \in Types /\ 1 \in Singular(t) /\ DOMAIN m.value = Singular(t)
  BY ClassIs DEF Right
<1>2. n = o
  <2>1. PICK a, b, c, d, e : m = [type |-> a, has |-> b, value |-> c, items |-> d, unknown |-> e]
    BY DEF Right
  <2>2. m.type = a /\ m.has = b /\ m.value = c /\ m.items = d /\ m.unknown = e
    BY <2>1
  <2>3. [m.value EXCEPT ![1] = @ % Int32Mod] = v
    BY <1>1
  <2>4. n = [m EXCEPT !.value = v]
    BY <2>1, <2>2, <2>3
  <2> HIDE DEF v, n
  <2>5. n = [type |-> a, has |-> b, value |-> v, items |-> d, unknown |-> e]
    BY <2>1, <2>4
  <2> QED BY <2>2, <2>5
<1>3. u \in 0..Int32Mod - 1 /\ (1 \notin m.has => u = 0)
  <2>1. m.value[1] \in Ints /\ (1 \notin m.has => m.value[1] = 0)
    BY <1>1, MessagesAssumption DEF Right, ValuesOf
  <2>2. Ints \subseteq Nat
    BY MessagesAssumption
  <2> QED BY <2>1, <2>2, RemainderIs
<1> HIDE DEF u
<1>4. \A f \in Singular(t) : v[f] = IF f = 1 THEN u ELSE m.value[f]
  OBVIOUS
<1>5. v = [f \in Singular(t) |-> v[f]]
  OBVIOUS
<1> HIDE DEF v
<1>6. o.type = t /\ o.has = m.has /\ o.items = m.items /\ o.unknown = m.unknown /\ o.value = v
  OBVIOUS
<1>7. o = [type |-> o.type, has |-> o.has, value |-> o.value, items |-> o.items,
           unknown |-> o.unknown]
  OBVIOUS
<1> HIDE DEF o
<1>8. ASSUME NEW f \in Singular(t)
      PROVE  o.value[f] \in ValuesOf(o, f) /\ (f \notin o.has => o.value[f] = 0)
  <2>1. CASE f = 1
    BY <1>3, <1>4, <1>6, <2>1, MessagesAssumption DEF ValuesOf
  <2>2. CASE f # 1
    <3>1. m.value[f] \in Strings /\ (f \notin m.has => m.value[f] = 0)
      BY <2>2 DEF ValuesOf, Right
    <3>2. v[f] = m.value[f]
      BY <1>4, <2>2
    <3>3. ValuesOf(o, f) = Strings
      BY <2>2 DEF ValuesOf
    <3> QED BY <1>6, <3>1, <3>2, <3>3
  <2> QED BY <2>1, <2>2
<1>9. Right(o)
  <2>1. m.has \subseteq Singular(t) /\ m.items \in Seq(Strings)
        /\ (Class(t).repeated = 0 => m.items = <<>>) /\ m.unknown \in Seq(Foreign(t))
    BY DEF Right
  <2>2. o.value = [f \in Singular(t) |-> o.value[f]]
    BY <1>5, <1>6
  <2>3. o.type \in Types /\ o.has \subseteq Singular(o.type) /\ o.items \in Seq(Strings)
        /\ (Class(o.type).repeated = 0 => o.items = <<>>) /\ o.unknown \in Seq(Foreign(o.type))
    BY <1>1, <1>6, <2>1
  <2>4. o.value = [f \in Singular(o.type) |-> o.value[f]]
        /\ \A f \in Singular(o.type) :
             o.value[f] \in ValuesOf(o, f) /\ (f \notin o.has => o.value[f] = 0)
    BY <1>6, <1>8, <2>2
  <2> QED BY <1>7, <2>3, <2>4, Zenon DEF Right
<1>10. One(o, 1) = One(Passed(m), 1)
  <2>1. 1 \in m.has => Passed(m).value[1] = u /\ v[1] = u
    BY <1>1, <1>4 DEF Passed, u
  <2>2. Passed(m).has = m.has \cap {1}
    BY DEF Passed
  <2> QED BY <1>6, <2>1, <2>2 DEF One
<1>11. Behind(o) = Behind(m)
  <2>1. ASSUME NEW f \in {2, 3} PROVE One(o, f) = One(m, f)
    <3>1. f \in m.has => f \in Singular(t) /\ f # 1
      BY DEF Right
    <3>2. f \in m.has => v[f] = m.value[f]
      BY <1>4, <3>1
    <3> QED BY <1>6, <3>2 DEF One
  <2>2. Items(o) = Items(m)
    BY <1>6 DEF Items
  <2> QED BY <1>6, <2>1, <2>2 DEF Behind
<1>12. Serialize(Passed(m)) = Serialize(o)
  BY <1>9, <1>10, <1>11, PassedRight, SerializeIs
<1>13. MergePartial(NewMessage(t), Serialize(o))
         = [m |-> Merged(NewMessage(t), o), end |-> "success"]
  <2> DEFINE w == NewMessage(t)
  <2>1. Right(w) /\ w.type = t
    BY <1>1, NewIs
  <2> HIDE DEF w
  <2> QED BY <1>6, <1>9, <2>1, ParsedIs DEF w
<1>14. Merged(NewMessage(t), o) = o
  BY <1>6, <1>9, MergedNew
<1> QED BY <1>2, <1>12, <1>13, <1>14

-----------------------------------------------------------------------------
\* A message is right as long as each of its fields is.
LEMMA RightIs ==
  ASSUME NEW n, IsMessage(n), NEW t \in Types, n.type = t, n.has \subseteq Singular(t),
         n.value = [f \in Singular(t) |-> n.value[f]],
         \A f \in Singular(t) : n.value[f] \in ValuesOf(n, f) /\ (f \notin n.has => n.value[f] = 0),
         n.items \in Seq(Strings), Class(t).repeated = 0 => n.items = <<>>,
         n.unknown \in Seq(Foreign(t))
  PROVE  Right(n)
<1>1. n = [type |-> n.type, has |-> n.has, value |-> n.value, items |-> n.items,
           unknown |-> n.unknown]
  BY DEF IsMessage
<1> QED BY <1>1, Zenon DEF Right

LEMMA FieldsOf ==
  ASSUME NEW m, Right(m)
  PROVE  /\ IsMessage(m) /\ m.type \in Types /\ m.has \subseteq Singular(m.type)
         /\ m.value = [f \in Singular(m.type) |-> m.value[f]]
         /\ DOMAIN m.value = Singular(m.type)
         /\ \A f \in Singular(m.type) :
              m.value[f] \in ValuesOf(m, f) /\ (f \notin m.has => m.value[f] = 0)
         /\ m.items \in Seq(Strings) /\ (Class(m.type).repeated = 0 => m.items = <<>>)
         /\ m.unknown \in Seq(Foreign(m.type))
<1>1. m.value = [f \in Singular(m.type) |-> m.value[f]]
  BY DEF Right
<1>2. DOMAIN m.value = Singular(m.type)
  BY <1>1
<1> QED BY <1>1, <1>2, Zenon DEF Right, IsMessage

LEMMA SetFieldRight ==
  ASSUME NEW m, Right(m), NEW f \in Singular(m.type), NEW v \in ValuesOf(m, f)
  PROVE  Right(SetField(m, f, v)) /\ SetField(m, f, v).type = m.type
<1> DEFINE n == SetField(m, f, v)
           t == m.type
<1>1. /\ IsMessage(m) /\ t \in Types /\ m.has \subseteq Singular(t)
      /\ DOMAIN m.value = Singular(t)
      /\ \A g \in Singular(t) :
           m.value[g] \in ValuesOf(m, g) /\ (g \notin m.has => m.value[g] = 0)
      /\ m.items \in Seq(Strings) /\ (Class(t).repeated = 0 => m.items = <<>>)
      /\ m.unknown \in Seq(Foreign(t))
  BY FieldsOf
<1>2. /\ IsMessage(n) /\ n.type = m.type /\ n.has = m.has \cup {f}
      /\ n.value = [g \in DOMAIN m.value |-> IF g = f THEN v ELSE m.value[g]]
      /\ n.items = m.items /\ n.unknown = m.unknown
  BY <1>1, SetFieldIs
<1> HIDE DEF n
<1>3. n.has \subseteq Singular(t) /\ n.value = [g \in Singular(t) |-> n.value[g]]
  BY <1>1, <1>2
<1>4. \A g \in Singular(t) : n.value[g] \in ValuesOf(n, g) /\ (g \notin n.has => n.value[g] = 0)
  BY <1>1, <1>2 DEF ValuesOf
<1>5. Right(n)
  BY <1>1, <1>2, <1>3, <1>4, RightIs
<1> QED BY <1>2, <1>5 DEF n

LEMMA ClearFieldRight ==
  ASSUME NEW m, Right(m), NEW f \in Singular(m.type)
  PROVE  Right(ClearField(m, f)) /\ ClearField(m, f).type = m.type
<1> DEFINE n == ClearField(m, f)
           t == m.type
<1>1. /\ IsMessage(m) /\ t \in Types /\ m.has \subseteq Singular(t)
      /\ DOMAIN m.value = Singular(t)
      /\ \A g \in Singular(t) :
           m.value[g] \in ValuesOf(m, g) /\ (g \notin m.has => m.value[g] = 0)
      /\ m.items \in Seq(Strings) /\ (Class(t).repeated = 0 => m.items = <<>>)
      /\ m.unknown \in Seq(Foreign(t))
  BY FieldsOf
<1>2. /\ IsMessage(n) /\ n.type = m.type /\ n.has = m.has \ {f}
      /\ n.value = [g \in DOMAIN m.value |-> IF g = f THEN 0 ELSE m.value[g]]
      /\ n.items = m.items /\ n.unknown = m.unknown
  BY <1>1, ClearFieldIs
<1> HIDE DEF n
<1>3. n.has \subseteq Singular(t) /\ n.value = [g \in Singular(t) |-> n.value[g]]
  BY <1>1, <1>2
<1>4. 0 \in Ints /\ 0 \in Strings /\ 0 \in 0..Int32Mod - 1
  BY MessagesAssumption DEF Strings
<1>5. \A g \in Singular(t) : n.value[g] \in ValuesOf(n, g) /\ (g \notin n.has => n.value[g] = 0)
  BY <1>1, <1>2, <1>4 DEF ValuesOf
<1>6. Right(n)
  BY <1>1, <1>2, <1>3, <1>5, RightIs
<1> QED BY <1>2, <1>6 DEF n

LEMMA AppendedRight ==
  ASSUME NEW m, Right(m)
  PROVE  /\ \A v \in Strings : Class(m.type).repeated # 0 =>
              Right(AddItem(m, v)) /\ AddItem(m, v).type = m.type
         /\ \A e \in Foreign(m.type) :
              LET n == [m EXCEPT !.unknown = Append(@, e)]
              IN Right(n) /\ n.type = m.type
<1> DEFINE t == m.type
<1>1. /\ IsMessage(m) /\ t \in Types /\ m.has \subseteq Singular(t)
      /\ m.value = [g \in Singular(t) |-> m.value[g]]
      /\ \A g \in Singular(t) :
           m.value[g] \in ValuesOf(m, g) /\ (g \notin m.has => m.value[g] = 0)
      /\ m.items \in Seq(Strings) /\ (Class(t).repeated = 0 => m.items = <<>>)
      /\ m.unknown \in Seq(Foreign(t))
  BY FieldsOf
<1>0. IsMessage(m)
  BY <1>1
<1>2. ASSUME NEW v \in Strings, Class(t).repeated # 0
      PROVE  Right(AddItem(m, v)) /\ AddItem(m, v).type = m.type
  <2> DEFINE n == AddItem(m, v)
  <2>1. /\ IsMessage(n) /\ n.type = m.type /\ n.has = m.has /\ n.value = m.value
        /\ n.items = Append(m.items, v) /\ n.unknown = m.unknown
    BY <1>0, AppendedIs
  <2> HIDE DEF n
  <2>2. n.items \in Seq(Strings)
    BY <1>1, <2>1
  <2>3. \A g \in Singular(t) : n.value[g] \in ValuesOf(n, g) /\ (g \notin n.has => n.value[g] = 0)
    BY <1>1, <2>1 DEF ValuesOf
  <2>4. Right(n)
    BY <1>1, <1>2, <2>1, <2>2, <2>3, RightIs
  <2> QED BY <2>1, <2>4 DEF n
<1>3. ASSUME NEW e \in Foreign(t)
      PROVE  LET n == [m EXCEPT !.unknown = Append(@, e)]
             IN Right(n) /\ n.type = m.type
  <2> DEFINE n == [m EXCEPT !.unknown = Append(@, e)]
  <2>1. /\ IsMessage(n) /\ n.type = m.type /\ n.has = m.has /\ n.value = m.value
        /\ n.items = m.items /\ n.unknown = Append(m.unknown, e)
    BY <1>0, AppendedIs
  <2> HIDE DEF n
  <2>2. n.unknown \in Seq(Foreign(t))
    <3> DEFINE F == Foreign(t)
    <3> HIDE DEF F
    <3>1. m.unknown \in Seq(F) /\ e \in F
      BY <1>1 DEF F
    <3>2. n.unknown \in Seq(F)
      BY <2>1, <3>1
    <3> QED BY <3>2 DEF F
  <2>3. \A g \in Singular(t) : n.value[g] \in ValuesOf(n, g) /\ (g \notin n.has => n.value[g] = 0)
    BY <1>1, <2>1 DEF ValuesOf
  <2>4. Right(n)
    BY <1>1, <2>1, <2>2, <2>3, RightIs
  <2> QED BY <2>1, <2>4 DEF n
<1> QED BY <1>2, <1>3, Zenon

\* A state of the loop.
Reading(p) ==
  /\ p = [m |-> p.m, end |-> p.end]
  /\ Right(p.m) /\ p.end \in {"no", "success", "failure"}

\* One field, whatever it is, leaves a message right.
LEMMA ReadFieldRight ==
  ASSUME NEW p, Reading(p), NEW e \in Streamed
  PROVE  Reading(ReadField(p, e)) /\ ReadField(p, e).m.type = p.m.type
<1> DEFINE m == p.m
           t == m.type
           c == Class(t)
           f == c.cases[e.tag]
           cut == e.value = NoValue
           v == IF cut THEN 0 ELSE IF t = "Empty" THEN e.value % Int32Mod ELSE e.value
           q == ReadField(p, e)
<1>1. Right(m) /\ t \in Types /\ p = [m |-> m, end |-> p.end]
  BY DEF Reading, Right
<1>2. CASE p.end # "no"
  BY <1>1, <1>2 DEF ReadField
<1>3. CASE p.end = "no" /\ e.tag \notin DOMAIN c.cases
  <2>1. CASE e.tag % 8 = END_GROUP
    <3>1. q = [p EXCEPT !.end = "success"]
      BY <1>3, <2>1 DEF ReadField
    <3> HIDE DEF q, m
    <3>2. q = [m |-> m, end |-> "success"]
      BY <1>1, <3>1
    <3>3. q.m = m /\ q.end = "success"
      BY <3>2
    <3> QED BY <1>1, <3>2, <3>3 DEF Reading, q, m
  <2>2. CASE e.tag % 8 # END_GROUP /\ cut
    <3>1. q = [p EXCEPT !.end = "failure"]
      BY <1>3, <2>2 DEF ReadField
    <3> HIDE DEF q, m
    <3>2. q = [m |-> m, end |-> "failure"]
      BY <1>1, <3>1
    <3>3. q.m = m /\ q.end = "failure"
      BY <3>2
    <3> QED BY <1>1, <3>2, <3>3 DEF Reading, q, m
  <2>3. CASE e.tag % 8 # END_GROUP /\ ~cut
    <3> DEFINE n == [m EXCEPT !.unknown = Append(@, e)]
    <3>1. e \in Foreign(t)
      BY <1>3, <2>3 DEF Foreign, Known, Streamed, WholeFields
    <3>2. Right(n) /\ n.type = t
      <4> HIDE DEF m
      <4> QED BY <1>1, <3>1, AppendedRight
    <3>3. q = [p EXCEPT !.m.unknown = Append(@, e)]
      BY <1>3, <2>3 DEF ReadField
    <3>4. [p EXCEPT !.m.unknown = Append(@, e)] = [p EXCEPT !.m = n]
      BY <1>1
    <3> HIDE DEF q, m, n
    <3>5. q = [m |-> n, end |-> p.end]
      BY <1>1, <3>3, <3>4
    <3>6. q.m = n /\ q.end = "no"
      BY <1>3, <3>5
    <3> QED BY <1>3, <3>2, <3>5, <3>6 DEF Reading, q, m
  <2> QED BY <2>1, <2>2, <2>3
<1>4. CASE p.end = "no" /\ e.tag \in DOMAIN c.cases
  <2> DEFINE n == IF f = c.repeated THEN AddItem(m, v)
                  ELSE IF cut /\ f = 1 THEN m ELSE SetField(m, f, v)
             z == IF cut THEN "failure" ELSE "no"
  <2>1. q = [m |-> n, end |-> z]
    BY <1>4 DEF ReadField
  <2>2. e.tag = TagOf(f) /\ f \in Singular(t) \cup {c.repeated} /\ f \in 1..4
    <3>1. e.tag \in Known(t)
      BY <1>4 DEF Known
    <3> HIDE DEF m, t
    <3> QED BY <1>1, <3>1, ClassIs
  <2>3. /\ Singular(t) = IF t = "Empty" THEN {1} ELSE IF t = "Query" THEN {1, 2} ELSE {1, 2, 3}
        /\ c.repeated = IF t = "Empty" THEN 0 ELSE IF t = "Query" THEN 3 ELSE 4
    <3> HIDE DEF m, t
    <3> QED BY <1>1, ClassIs
  <2>4. e.tag % 8 = IF f = 1 THEN 0 ELSE 2
    <3> HIDE DEF f
    <3> QED BY <2>2 DEF TagOf
  <2>5. ~cut => e.value \in IF f = 1 THEN Ints ELSE Strings
    BY <2>4 DEF Streamed, Fits, LENGTH_DELIMITED
  <2>6. f = 1 => v \in ValuesOf(m, f)
    <3>1. 0 \in Ints /\ 0 \in 0..Int32Mod - 1 /\ Ints \subseteq Nat
      BY MessagesAssumption
    <3>2. CASE cut
      BY <3>1, <3>2 DEF ValuesOf
    <3>3. CASE ~cut
      <4> HIDE DEF f
      <4>1. ASSUME f = 1 PROVE e.value \in Ints /\ e.value % Int32Mod \in 0..Int32Mod - 1
        BY <2>5, <3>1, <3>3, <4>1, RemainderIs
      <4> QED BY <3>3, <4>1 DEF ValuesOf
    <3> QED BY <3>2, <3>3
  <2>7. f # 1 => v \in Strings /\ ValuesOf(m, f) = Strings
    <3>1. f # 1 => t # "Empty"
      <4> HIDE DEF f
      <4> QED BY <2>2, <2>3
    <3>2. 0 \in Strings
      BY DEF Strings
    <3> HIDE DEF f
    <3> QED BY <2>5, <3>1, <3>2 DEF ValuesOf
  <2>8. Right(n) /\ n.type = t
    <3>1. CASE f = c.repeated
      <4>1. c.repeated # 0 /\ f # 1
        <5> HIDE DEF f
        <5> QED BY <2>2, <2>3, <3>1
      <4>2. v \in Strings
        BY <2>7, <4>1
      <4> HIDE DEF v, f
      <4>3. n = AddItem(m, v)
        BY <3>1
      <4> HIDE DEF n
      <4> QED BY <1>1, <4>1, <4>2, <4>3, AppendedRight
    <3>2. CASE f # c.repeated /\ cut /\ f = 1
      BY <1>1, <3>2
    <3>3. CASE f # c.repeated /\ ~(cut /\ f = 1)
      <4>1. f \in Singular(t) /\ v \in ValuesOf(m, f)
        <5> HIDE DEF f, v
        <5> QED BY <2>2, <2>6, <2>7, <3>3
      <4>2. n = SetField(m, f, v)
        BY <3>3
      <4> HIDE DEF n, f, v
      <4> QED BY <1>1, <4>1, <4>2, SetFieldRight
    <3> QED BY <3>1, <3>2, <3>3
  <2> HIDE DEF n, q
  <2>9. q = [m |-> q.m, end |-> q.end] /\ q.m = n /\ q.end \in {"no", "failure"}
    BY <2>1
  <2> HIDE DEF z
  <2> QED BY <2>8, <2>9 DEF Reading, q
<1> QED BY <1>2, <1>3, <1>4

\* Nor does any number of fields.
LEMMA ReadsRight ==
  ASSUME NEW p, Reading(p), NEW b \in Seq(Streamed)
  PROVE  Reading(Reads(p, b)) /\ Reads(p, b).m.type = p.m.type
<1> DEFINE T == {c \in Seq(Streamed) : Reading(Reads(p, c)) /\ Reads(p, c).m.type = p.m.type}
<1>1. <<>> \in T
  <2>1. <<>> \in Seq(Streamed)
    OBVIOUS
  <2> QED BY <2>1, ReadsNone
<1>2. ASSUME NEW c \in Seq(Streamed), NEW e \in Streamed, c \in T PROVE Append(c, e) \in T
  <2> DEFINE q == Reads(p, c)
  <2>1. Reads(p, Append(c, e)) = ReadField(q, e)
    BY ReadsAppend
  <2>2. Reading(q) /\ q.m.type = p.m.type
    BY <1>2
  <2>3. Append(c, e) \in Seq(Streamed)
    OBVIOUS
  <2> HIDE DEF q
  <2>4. Reading(ReadField(q, e)) /\ ReadField(q, e).m.type = p.m.type
    BY <2>2, ReadFieldRight
  <2> QED BY <2>1, <2>3, <2>4
<1> HIDE DEF T
<1>3. b \in T
  BY <1>1, <1>2, SeqByAppend
<1> QED BY <1>3 DEF T

LEMMA ParsedRight ==
  ASSUME NEW x, Right(x), NEW b \in Seq(Streamed)
  PROVE  LET p == MergePartial(x, b)
         IN Right(p.m) /\ p.m.type = x.type /\ p.end \in {"success", "failure"}
<1> DEFINE g == [m |-> x, end |-> "no"]
           q == Reads(g, b)
           p == MergePartial(x, b)
           z == IF q.end = "no" THEN "success" ELSE q.end
<1>1. Reading(g) /\ g.m = x
  BY DEF Reading
<1>2. p = [q EXCEPT !.end = z]
  BY DEF MergePartial
<1> HIDE DEF g
<1>3. Reading(q) /\ q.m.type = x.type
  BY <1>1, ReadsRight
<1> HIDE DEF q, p
<1>4. q = [m |-> q.m, end |-> q.end] /\ Right(q.m) /\ z \in {"success", "failure"}
  BY <1>3 DEF Reading
<1> HIDE DEF z
<1>5. p.m = q.m /\ p.end = z
  BY <1>2, <1>4
<1> QED BY <1>3, <1>4, <1>5 DEF p

-----------------------------------------------------------------------------
\* The foreign fields that come behind a message.
LEMMA ForeignStreamed == \A e \in ForeignFields : e \in Streamed
<1>1. 0 \in Ints
  BY MessagesAssumption
<1> QED BY <1>1 DEF ForeignFields, Streamed, Elements, Element, Fits, Tag, VARINT,
      LENGTH_DELIMITED, END_GROUP, NoValue, Strings

LEMMA MessagesStart == MessagesInit => MessagesInv
<1> SUFFICES ASSUME MessagesInit PROVE MessagesInv
  OBVIOUS
<1>1. PICK t \in {<<"Query", "Query">>, <<"Answer", "Empty">>} :
        msg = [i \in {1, 2} |-> NewMessage(t[i])]
  BY DEF MessagesInit
<1>2. t[1] \in Types /\ t[2] \in Types /\ t = <<t[1], t[2]>>
  BY DEF Types
<1>3. msg[1] = NewMessage(t[1]) /\ msg[2] = NewMessage(t[2])
  BY <1>1
<1>4. msg = [i \in {1, 2} |-> msg[i]]
  BY <1>1
<1>5. \A i \in {1, 2} : Right(msg[i]) /\ Small(msg[i]) /\ msg[i].type = t[i]
  BY <1>2, <1>3, NewIs
<1> QED BY <1>2, <1>4, <1>5 DEF MessagesInv, MessagesInit

\* A step that makes message i another one of its class.
LEMMA BecomesRight ==
  ASSUME MessagesInv, NEW i \in {1, 2}, NEW m, Right(m), m.type = msg[i].type,
         Becomes(i, m), read' \in {"success", "failure"}
  PROVE  MessagesInv'
<1>1. msg' = [msg EXCEPT ![i] = m] /\ Len(m.items) <= MaxExtra /\ Len(m.unknown) <= MaxExtra
  BY DEF Becomes
<1>2. DOMAIN msg = {1, 2}
  BY DEF MessagesInv
<1>3. msg' = [j \in {1, 2} |-> msg'[j]] /\ msg'[i] = m
      /\ \A j \in {1, 2} \ {i} : msg'[j] = msg[j]
  BY <1>1, <1>2
<1>4. \A j \in {1, 2} : msg'[j].type = msg[j].type
  BY <1>3
<1>5. \A j \in {1, 2} : Right(msg'[j]) /\ Small(msg'[j])
  BY <1>1, <1>3 DEF MessagesInv, Small
<1>6. <<msg'[1].type, msg'[2].type>> \in {<<"Query", "Query">>, <<"Answer", "Empty">>}
  BY <1>4 DEF MessagesInv
<1>7. \A j \in {1, 2} : Right(msg[j])' /\ Small(msg[j])'
  BY <1>5 DEF Right, Small, ValuesOf
<1> QED BY <1>3, <1>6, <1>7 DEF MessagesInv

LEMMA AccessKeeps ==
  ASSUME MessagesInv, NEW i \in {1, 2}, Access(i)
  PROVE  MessagesInv'
<1>1. Right(msg[i]) /\ read' \in {"success", "failure"}
  BY DEF Access, MessagesInv
<1>2. PICK f \in Singular(msg[i].type) :
        \/ \E v \in ValuesOf(msg[i], f) : Becomes(i, SetField(msg[i], f, v))
        \/ Becomes(i, ClearField(msg[i], f))
  BY DEF Access, Singular
<1>3. ASSUME NEW v \in ValuesOf(msg[i], f), Becomes(i, SetField(msg[i], f, v))
      PROVE  MessagesInv'
  <2>1. Right(SetField(msg[i], f, v)) /\ SetField(msg[i], f, v).type = msg[i].type
    BY <1>1, SetFieldRight
  <2> QED BY <1>1, <1>3, <2>1, BecomesRight
<1>4. ASSUME Becomes(i, ClearField(msg[i], f))
      PROVE  MessagesInv'
  <2>1. Right(ClearField(msg[i], f)) /\ ClearField(msg[i], f).type = msg[i].type
    BY <1>1, ClearFieldRight
  <2> QED BY <1>1, <1>4, <2>1, BecomesRight
<1> QED BY <1>2, <1>3, <1>4

LEMMA AddToKeeps ==
  ASSUME MessagesInv, NEW i \in {1, 2}, AddTo(i)
  PROVE  MessagesInv'
<1>1. Right(msg[i]) /\ read' \in {"success", "failure"} /\ Class(msg[i].type).repeated # 0
  BY DEF AddTo, MessagesInv
<1>2. PICK v \in Strings : Becomes(i, AddItem(msg[i], v))
  BY DEF AddTo
<1>3. Right(AddItem(msg[i], v)) /\ AddItem(msg[i], v).type = msg[i].type
  BY <1>1, AppendedRight
<1> QED BY <1>1, <1>2, <1>3, BecomesRight

LEMMA CombineKeeps ==
  ASSUME MessagesInv, NEW i \in {1, 2}, Combine(i)
  PROVE  MessagesInv'
<1> DEFINE x == msg[i]
           m == msg[3 - i]
<1>1. 3 - i \in {1, 2} /\ (msg[1].type = msg[2].type => m.type = x.type)
  OBVIOUS
<1>2. Right(x) /\ Right(m) /\ read' \in {"success", "failure"} /\ x.type \in Types
  BY <1>1 DEF Combine, MessagesInv, Right
<1>3. CASE Becomes(i, Clear(x))
  <2>1. Right(Clear(x)) /\ Clear(x).type = x.type
    BY <1>2, ClearIs, NewIs
  <2> QED BY <1>2, <1>3, <2>1, BecomesRight
<1>4. CASE m.type = x.type /\ Becomes(i, MergeFrom(x, m))
  <2>1. MergeFrom(x, m) = Merged(x, m) /\ Right(Merged(x, m)) /\ Merged(x, m).type = x.type
    <3> HIDE DEF x, m
    <3>1. Merged(x, m).type = x.type
      BY DEF Merged
    <3> QED BY <1>2, <1>4, <3>1, MergeFromIs, MergedRight
  <2> QED BY <1>2, <1>4, <2>1, BecomesRight
<1>5. CASE m.type = x.type /\ Becomes(i, CopyFrom(x, m))
  <2>1. CopyFrom(x, m) = m
    <3> HIDE DEF x, m
    <3> QED BY <1>2, <1>5, CopyFromIs
  <2> QED BY <1>2, <1>5, <2>1, BecomesRight
<1> QED BY <1>1, <1>3, <1>4, <1>5 DEF Combine

LEMMA SwapKeeps ==
  ASSUME MessagesInv, Swap
  PROVE  MessagesInv'
<1>1. \A i \in {1, 2} : 3 - i \in {1, 2} /\ Right(msg[i]) /\ Small(msg[i])
  BY DEF MessagesInv
<1>2. msg[1].type = msg[2].type
  BY DEF Swap
<1>3. ASSUME NEW i \in {1, 2}
      PROVE  [msg[3 - i] EXCEPT !.value = [f \in DOMAIN @ |->
                IF f \in Class(msg[i].type).swapped THEN @[f] ELSE msg[i].value[f]]]
               = msg[3 - i]
  <2> DEFINE m == msg[3 - i]
             w == [f \in DOMAIN m.value |->
                     IF f \in Class(msg[i].type).swapped THEN m.value[f] ELSE msg[i].value[f]]
  <2>1. Right(m) /\ m.type = msg[i].type
    BY <1>1, <1>2
  <2>2. m.type \in Types /\ DOMAIN m.value = Singular(m.type)
        /\ m.value = [f \in Singular(m.type) |-> m.value[f]]
    <3> HIDE DEF m
    <3> QED BY <2>1, FieldsOf
  <2>3. Class(msg[i].type).swapped = Singular(m.type)
    BY <2>1, <2>2, ClassIs
  <2>4. w = m.value
    <3> HIDE DEF m
    <3> QED BY <2>2, <2>3
  <2>5. PICK a, b, c, d, e : m = [type |-> a, has |-> b, value |-> c, items |-> d, unknown |-> e]
    BY <2>1 DEF Right
  <2> HIDE DEF m, w
  <2>6. [m EXCEPT !.value = w] = m
    BY <2>4, <2>5
  <2> QED BY <2>6 DEF m, w
<1>4. msg' = [i \in {1, 2} |-> msg[3 - i]] /\ read' = read
  BY <1>3 DEF Swap
<1>5. msg'[1] = msg[2] /\ msg'[2] = msg[1] /\ msg' = [i \in {1, 2} |-> msg'[i]]
  BY <1>4
<1>6. <<msg[1].type, msg[2].type>> \in {<<"Query", "Query">>, <<"Answer", "Empty">>}
      /\ read \in {"success", "failure"}
  BY DEF MessagesInv
<1>7. \A j \in {1, 2} : Right(msg'[j]) /\ Small(msg'[j])
  BY <1>1, <1>5
<1>8. \A j \in {1, 2} : Right(msg[j])' /\ Small(msg[j])'
  BY <1>7 DEF Right, Small, ValuesOf
<1>9. <<msg'[1].type, msg'[2].type>> \in {<<"Query", "Query">>, <<"Answer", "Empty">>}
  BY <1>2, <1>5, <1>6
<1> QED BY <1>4, <1>5, <1>6, <1>8, <1>9 DEF MessagesInv

LEMMA ParsePartialKeeps ==
  ASSUME MessagesInv, NEW i \in {1, 2}, ParsePartial(i)
  PROVE  MessagesInv'
<1> DEFINE x == msg[i]
           m == msg[3 - i]
<1>1. 3 - i \in {1, 2}
  OBVIOUS
<1>2. Right(x) /\ Right(m)
  BY <1>1 DEF MessagesInv
<1>3. PICK extra \in {<<>>} \cup {<<e>> : e \in ForeignFields} :
        /\ Becomes(i, MergePartial(x, Serialize(m) \o extra).m)
        /\ read' = MergePartial(x, Serialize(m) \o extra).end
  BY DEF ParsePartial
<1>4. extra \in Seq(Streamed)
  <2>1. CASE extra = <<>>
    BY <2>1
  <2>2. ASSUME NEW e \in ForeignFields, extra = <<e>> PROVE extra \in Seq(Streamed)
    <3>1. e \in Streamed
      BY ForeignStreamed
    <3> QED BY <2>2, <3>1
  <2> QED BY <2>1, <2>2
<1>5. Serialize(m) \in Seq(Streamed)
  <2>1. Serialize(m) \in Seq(WholeFields)
    <3> HIDE DEF m
    <3> QED BY <1>2, SerializeIs
  <2>2. WholeFields \subseteq Streamed
    BY DEF WholeFields, Streamed
  <2> DEFINE s == Serialize(m)
  <2> HIDE DEF s
  <2>3. s \in Seq(Streamed)
    BY <2>1, <2>2 DEF s
  <2> QED BY <2>3 DEF s
<1> DEFINE b == Serialize(m) \o extra
           p == MergePartial(x, b)
<1>6. b \in Seq(Streamed)
  <2> DEFINE s == Serialize(m)
  <2> HIDE DEF s
  <2>1. s \o extra \in Seq(Streamed)
    BY <1>4, <1>5, ConcatProperties DEF s
  <2> QED BY <2>1 DEF s
<1> HIDE DEF b
<1>7. Right(p.m) /\ p.m.type = x.type /\ p.end \in {"success", "failure"}
  <2> HIDE DEF x
  <2> QED BY <1>2, <1>6, ParsedRight
<1>8. Becomes(i, p.m) /\ read' \in {"success", "failure"}
  BY <1>3, <1>7 DEF b
<1> HIDE DEF p
<1> QED BY <1>7, <1>8, BecomesRight

\* Every step keeps the messages right.
LEMMA MessagesInvariant == MessagesSpec => []MessagesInv
<1>1. MessagesInv /\ [MessagesNext]_messageVars => MessagesInv'
  <2> SUFFICES ASSUME MessagesInv, [MessagesNext]_messageVars PROVE MessagesInv'
    OBVIOUS
  <2>1. CASE Swap
    BY <2>1, SwapKeeps
  <2>2. ASSUME NEW i \in {1, 2}, Access(i) PROVE MessagesInv'
    BY <2>2, AccessKeeps
  <2>3. ASSUME NEW i \in {1, 2}, AddTo(i) PROVE MessagesInv'
    BY <2>3, AddToKeeps
  <2>4. ASSUME NEW i \in {1, 2}, Combine(i) PROVE MessagesInv'
    BY <2>4, CombineKeeps
  <2>5. ASSUME NEW i \in {1, 2}, ParsePartial(i) PROVE MessagesInv'
    BY <2>5, ParsePartialKeeps
  <2>6. CASE UNCHANGED messageVars
    BY <2>6 DEF messageVars, MessagesInv, Right, Small, ValuesOf
  <2> QED BY <2>1, <2>2, <2>3, <2>4, <2>5, <2>6 DEF MessagesNext
<1> QED BY <1>1, MessagesStart, PTL DEF MessagesSpec

\* The fields of each message have values of their types, and neither items nor
\* unknown fields become more than their bound.
THEOREM MessagesAlwaysTyped == MessagesSpec => []MessagesTypeOK
<1>1. MessagesInv => MessagesTypeOK
  <2> SUFFICES ASSUME MessagesInv PROVE MessagesTypeOK
    OBVIOUS
  <2>1. ASSUME NEW i \in {1, 2}
        PROVE  /\ msg[i].has \subseteq Class(msg[i].type).singular
               /\ \A f \in DOMAIN msg[i].value : msg[i].value[f] \in ValuesOf(msg[i], f)
               /\ Len(msg[i].items) <= MaxExtra /\ Len(msg[i].unknown) <= MaxExtra
    <3>1. Right(msg[i]) /\ Small(msg[i])
      BY DEF MessagesInv
    <3> QED BY <3>1, FieldsOf DEF Small, Singular
  <2> QED BY <2>1 DEF MessagesTypeOK, MessagesInv
<1> QED BY <1>1, MessagesInvariant, PTL

\* Whatever was done to a message, its bytes have the length that was counted,
\* are the same on both ways of writing them, give the message back to a new
\* one, merge into another as MergeFrom() does, and pass through a program that
\* knows less fields without losing any.
THEOREM MessagesAlwaysRight == MessagesSpec => []MessagesRight
<1>1. MessagesInv => MessagesRight
  <2> SUFFICES ASSUME MessagesInv, NEW i \in {1, 2}
               PROVE  LET m == msg[i]
                          bytes == Serialize(m)
                          passed == MergePartial(NewMessage("Empty"), bytes).m
                      IN /\ SumOf(ElementSizes(bytes)) = ByteSize(m)
                         /\ SerializeToArray(m) = bytes
                         /\ MergePartial(NewMessage(m.type), bytes) = [m |-> m, end |-> "success"]
                         /\ m.type = msg[3 - i].type =>
                              MergePartial(msg[3 - i], bytes).m = MergeFrom(msg[3 - i], m)
                         /\ CopyFrom(msg[3 - i], m) = m \/ m.type # msg[3 - i].type
                         /\ \A f \in DOMAIN m.value : f \notin m.has => m.value[f] = 0
                         /\ MergePartial(NewMessage(m.type), Serialize(passed)).m
                              = [m EXCEPT !.value[1] = @ % Int32Mod]
    BY DEF MessagesRight
  <2> DEFINE m == msg[i]
             x == msg[3 - i]
             n == NewMessage(m.type)
  <2>1. 3 - i \in {1, 2}
    OBVIOUS
  <2>2. Right(m) /\ Right(x) /\ m.type \in Types
    BY <2>1 DEF MessagesInv, Right
  <2>3. Right(n) /\ n.type = m.type
    <3> HIDE DEF m
    <3> QED BY <2>2, NewIs
  <2> HIDE DEF m, x, n
  <2>4. SumOf(ElementSizes(Serialize(m))) = ByteSize(m) /\ SerializeToArray(m) = Serialize(m)
    BY <2>2, CountedIs, SerializeIs
  <2>5. MergePartial(n, Serialize(m)) = [m |-> m, end |-> "success"]
    <3>1. Merged(n, m) = m
      BY <2>2, MergedNew DEF n
    <3>2. MergePartial(n, Serialize(m)) = [m |-> Merged(n, m), end |-> "success"]
      BY <2>2, <2>3, ParsedIs
    <3> QED BY <3>1, <3>2
  <2>6. ASSUME m.type = x.type PROVE MergePartial(x, Serialize(m)).m = MergeFrom(x, m)
    <3>1. MergePartial(x, Serialize(m)) = [m |-> Merged(x, m), end |-> "success"]
      BY <2>2, <2>6, ParsedIs
    <3>2. MergeFrom(x, m) = Merged(x, m)
      BY <2>2, <2>6, MergeFromIs
    <3> QED BY <3>1, <3>2
  <2>7. CopyFrom(x, m) = m \/ m.type # x.type
    BY <2>2, CopyFromIs
  <2>8. \A f \in DOMAIN m.value : f \notin m.has => m.value[f] = 0
    BY <2>2, FieldsOf
  <2>9. MergePartial(n, Serialize(MergePartial(NewMessage("Empty"), Serialize(m)).m)).m
          = [m EXCEPT !.value[1] = @ % Int32Mod]
    <3>1. MergePartial(NewMessage("Empty"), Serialize(m)).m = Passed(m)
      BY <2>2, PassedIs
    <3> QED BY <2>2, <3>1, PassedBack DEF n
  <2> QED BY <2>4, <2>5, <2>6, <2>7, <2>8, <2>9, Zenon DEF m, x, n
<1> QED BY <1>1, MessagesInvariant, PTL
=============================================================================
