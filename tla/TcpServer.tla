----------------------------- MODULE TcpServer -----------------------------
(***************************************************************************)
(* muduo::net::TcpServer with its Acceptor, its EventLoopThreadPool and    *)
(* the part of its connections that it drives: connectEstablished(), the   *)
(* close callback and connectDestroyed() travel between the base loop and  *)
(* the io loops as functors, which run in the order they were queued (what *)
(* Executor promises of an EventLoop).                                     *)
(*                                                                         *)
(* Clients connect; descriptors run out (EMFILE); other threads open and   *)
(* close files; the server is destroyed on the base loop, which tells the  *)
(* io loops to quit and joins their threads.                               *)
(***************************************************************************)
EXTENDS Integers, Sequences, FiniteSets, SequencesExt

CONSTANTS
  MaxThreads,  \* bound on numThreads_
  MaxClients,  \* bound on the clients that connect
  MaxFds       \* descriptors the process may hold besides its loops' own

\* The Acceptor gets its reserved descriptor (the assert of its constructor).
ASSUME ServerAssumption ==
  MaxThreads \in Nat /\ MaxClients \in Nat /\ MaxFds \in Nat \ {0}

VARIABLES
  numThreads,   \* numThreads_ of the pool
  started,      \* started_
  next,         \* next_ of the pool: who gets the next connection
  nextConnId,   \* nextConnId_, the number of the next connection
  connections,  \* connections_, of the base loop
  ioLoop,       \* the loop of each connection
  state,        \* state_ of each connection
  added,        \* the connection's channel is in its loop's poller
  functors,     \* pendingFunctors_ of each loop
  server,       \* "alive", "joining" in its destructor, or "gone"
  quit,         \* loops told to quit
  exited,       \* loops that have returned from loop() and are destroyed
  backlog,      \* connections the kernel holds for accept()
  arrived,      \* clients so far
  others,       \* descriptors other code of the process holds
  idleFd,       \* idleFd_ >= 0
  acceptPc,     \* the next system call of Acceptor::handleRead, or "idle"
  stolen        \* history: another thread took the descriptor meanwhile

serverVars ==
  <<numThreads, started, next, nextConnId, connections, ioLoop, state, added,
    functors, server, quit, exited, backlog, arrived, others, idleFd,
    acceptPc, stolen>>
poolVars == <<numThreads, started, next, quit, exited>>
connVars == <<nextConnId, connections, ioLoop, state, added, functors>>
acceptVars == <<backlog, arrived, others, idleFd, acceptPc, stolen>>

Base == 0
Loops == 0 .. MaxThreads
Conns == 1 .. MaxClients
Functor == {"connectEstablished", "removeConnectionInLoop",
            "connectDestroyed"} \X Conns

ServerTypeOK ==
  /\ numThreads \in 0 .. MaxThreads
  /\ started \in BOOLEAN
  /\ next \in 0 .. MaxThreads
  /\ nextConnId \in 1 .. MaxClients + 1
  /\ connections \subseteq Conns
  /\ ioLoop \in [Conns -> Loops]
  /\ state \in [Conns -> {"none", "kConnecting", "kConnected",
                          "kDisconnecting", "kDisconnected"}]
  /\ added \in [Conns -> BOOLEAN]
  /\ functors \in [Loops -> Seq(Functor)]
  /\ server \in {"alive", "joining", "gone"}
  /\ quit \subseteq Loops /\ exited \subseteq quit
  /\ backlog \in 0 .. MaxClients
  /\ arrived \in 0 .. MaxClients
  /\ others \in 0 .. MaxFds
  /\ idleFd \in BOOLEAN
  /\ acceptPc \in {"idle", "close", "accept", "drop", "open"}
  /\ stolen \in BOOLEAN

ServerInit ==
  /\ numThreads = 0
  /\ started = FALSE
  /\ next = 0
  /\ nextConnId = 1
  /\ connections = {}
  /\ ioLoop = [c \in Conns |-> Base]
  /\ state = [c \in Conns |-> "none"]
  /\ added = [c \in Conns |-> FALSE]
  /\ functors = [l \in Loops |-> <<>>]
  /\ server = "alive"
  /\ quit = {} /\ exited = {}
  /\ backlog = 0 /\ arrived = 0 /\ others = 0
  /\ idleFd = TRUE
  /\ acceptPc = "idle"
  /\ stolen = FALSE

\* A TcpConnectionPtr exists: in the map or bound to a functor of a loop.
Referenced(c) ==
  \/ c \in connections
  \/ \E l \in Loops \ exited : \E f \in ToSet(functors[l]) : f[2] = c

\* ~Socket closes the descriptor with the last reference.
FreeFds ==
  MaxFds - others - (IF idleFd THEN 1 ELSE 0)
    - Cardinality({c \in Conns : Referenced(c)})

\* The base loop's thread is not inside one of the calls modelled in steps.
BaseFree == acceptPc = "idle" /\ server # "joining"

-----------------------------------------------------------------------------
(* EventLoopThreadPool                                                     *)

SetThreadNum(n) ==
  /\ server = "alive"
  /\ ~started
  /\ numThreads' = n
  /\ UNCHANGED <<started, next, quit, exited, connVars, server, acceptVars>>

\* start() of the server, of the pool, and Acceptor::listen(), on the base loop;
\* a later call finds started_ set.
Start ==
  /\ server = "alive"
  /\ ~started
  /\ started' = TRUE
  /\ UNCHANGED <<numThreads, next, quit, exited, connVars, server, acceptVars>>

NextLoop == IF numThreads = 0 THEN Base ELSE next + 1

\* Mutant of Advance: one more than there are loops.
AdvanceLate(n) == IF n + 1 > numThreads THEN 0 ELSE n + 1

Advance(n) == IF n + 1 >= numThreads THEN 0 ELSE n + 1

GetLoopForHash(h) == IF numThreads = 0 THEN Base ELSE (h % numThreads) + 1

GetAllLoops == IF numThreads = 0 THEN {Base} ELSE 1 .. numThreads

-----------------------------------------------------------------------------
(* Acceptor                                                                *)

Listening == started /\ server = "alive"

Arrive ==
  /\ Listening
  /\ arrived < MaxClients
  /\ arrived' = arrived + 1
  /\ backlog' = backlog + 1
  /\ UNCHANGED <<poolVars, connVars, server, others, idleFd, acceptPc, stolen>>

\* A client gives up first (ECONNABORTED, or EAGAIN at the next accept()).
Leave ==
  /\ backlog > 0
  /\ backlog' = backlog - 1
  /\ UNCHANGED <<poolVars, connVars, server, arrived, others, idleFd, acceptPc,
                 stolen>>

\* connectEstablished() waits for the io loop.
EnterQueued(c, l) ==
  /\ functors' = [functors EXCEPT ![l] =
                    Append(@, <<"connectEstablished", c>>)]
  /\ state' = [state EXCEPT ![c] = "kConnecting"]
  /\ UNCHANGED added

\* ioLoop->runInLoop(connectEstablished).
Enter(c, l) ==
  IF l = Base
    THEN /\ state' = [state EXCEPT ![c] = "kConnected"]
         /\ added' = [added EXCEPT ![c] = TRUE]
         /\ UNCHANGED functors
    ELSE EnterQueued(c, l)

\* handleRead() when accept() succeeds, and newConnection().
NewConnection ==
  /\ BaseFree /\ Listening
  /\ backlog > 0 /\ FreeFds > 0
  /\ backlog' = backlog - 1
  /\ nextConnId' = nextConnId + 1
  /\ connections' = connections \cup {nextConnId}
  /\ ioLoop' = [ioLoop EXCEPT ![nextConnId] = NextLoop]
  /\ next' = IF numThreads = 0 THEN next ELSE Advance(next)
  /\ Enter(nextConnId, NextLoop)
  /\ UNCHANGED <<numThreads, started, quit, exited, server, arrived, others,
                 idleFd, acceptPc, stolen>>

\* handleRead() when accept() fails with EMFILE.
NoDescriptor ==
  /\ BaseFree /\ Listening
  /\ backlog > 0 /\ FreeFds = 0
  /\ acceptPc' = "close"
  /\ UNCHANGED <<poolVars, connVars, server, backlog, arrived, others, idleFd,
                 stolen>>

CloseIdle ==
  /\ acceptPc = "close"
  /\ idleFd' = FALSE
  /\ acceptPc' = "accept"
  /\ UNCHANGED <<poolVars, connVars, server, backlog, arrived, others, stolen>>

AcceptIdle ==
  /\ acceptPc = "accept"
  /\ idleFd' = (backlog > 0 /\ FreeFds > 0)
  /\ backlog' = IF idleFd' THEN backlog - 1 ELSE backlog
  /\ acceptPc' = "drop"
  /\ UNCHANGED <<poolVars, connVars, server, arrived, others, stolen>>

\* Mutant of DropIdle: the connection is kept in the place of the reserve.
DropIdleNot ==
  /\ acceptPc = "drop"
  /\ acceptPc' = "idle"
  /\ UNCHANGED <<poolVars, connVars, server, backlog, arrived, others, idleFd,
                 stolen>>

DropIdle ==
  /\ acceptPc = "drop"
  /\ idleFd' = FALSE
  /\ acceptPc' = "open"
  /\ UNCHANGED <<poolVars, connVars, server, backlog, arrived, others, stolen>>

OpenIdle ==
  /\ acceptPc = "open"
  /\ idleFd' = (FreeFds > 0)
  /\ stolen' = (stolen /\ ~idleFd')
  /\ acceptPc' = "idle"
  /\ UNCHANGED <<poolVars, connVars, server, backlog, arrived, others>>

\* Files of the rest of the program.
OthersOpen ==
  /\ FreeFds > 0
  /\ others' = others + 1
  /\ stolen' = (stolen \/ acceptPc # "idle")
  /\ UNCHANGED <<poolVars, connVars, server, backlog, arrived, idleFd,
                 acceptPc>>

OthersClose ==
  /\ others > 0
  /\ others' = others - 1
  /\ UNCHANGED <<poolVars, connVars, server, backlog, arrived, idleFd,
                 acceptPc, stolen>>

-----------------------------------------------------------------------------
(* Connections                                                             *)

\* The loop's thread may call: it runs, and is not busy elsewhere.
Runs(l) == l \notin exited /\ (l = Base => BaseFree)

\* removeConnectionInLoop().
Forget(c) ==
  /\ connections' = connections \ {c}
  /\ functors' = [functors EXCEPT ![ioLoop[c]] =
                    Append(@, <<"connectDestroyed", c>>)]

\* removeConnection(): runInLoop of the base loop.
RemoveConnection(c) ==
  IF ioLoop[c] = Base
    THEN Forget(c)
    ELSE /\ functors' = [functors EXCEPT ![Base] =
                           Append(@, <<"removeConnectionInLoop", c>>)]
         /\ UNCHANGED connections

\* TcpConnection::shutdown() by whoever has the connection, on any thread
\* (TcpConnection takes its test and its store apart).
Shutdown(c) ==
  /\ state[c] = "kConnected" /\ Referenced(c)
  /\ state' = [state EXCEPT ![c] = "kDisconnecting"]
  /\ UNCHANGED <<poolVars, nextConnId, connections, ioLoop, added, functors,
                 server, acceptVars>>

\* TcpConnection::handleClose() calls the close callback.
HandleClose(c) ==
  /\ Runs(ioLoop[c])
  /\ state[c] \in {"kConnected", "kDisconnecting"}
  /\ added[c] /\ Referenced(c)
  /\ state' = [state EXCEPT ![c] = "kDisconnected"]
  /\ RemoveConnection(c)
  /\ UNCHANGED <<poolVars, nextConnId, ioLoop, added, server, acceptVars>>

RunEstablished(l) ==
  /\ Runs(l) /\ functors[l] # <<>>
  /\ Head(functors[l])[1] = "connectEstablished"
  /\ state' = [state EXCEPT ![Head(functors[l])[2]] = "kConnected"]
  /\ added' = [added EXCEPT ![Head(functors[l])[2]] = TRUE]
  /\ functors' = [functors EXCEPT ![l] = Tail(@)]
  /\ UNCHANGED <<poolVars, nextConnId, connections, ioLoop, server,
                 acceptVars>>

\* Mutant of RunRemove: the connection is destroyed from the base loop.
RunRemoveHere ==
  /\ Runs(Base) /\ functors[Base] # <<>> /\ server = "alive"
  /\ Head(functors[Base])[1] = "removeConnectionInLoop"
  /\ connections' = connections \ {Head(functors[Base])[2]}
  /\ functors' = [functors EXCEPT ![Base] = Tail(@)]
  /\ UNCHANGED <<poolVars, nextConnId, ioLoop, state, added, server,
                 acceptVars>>

\* What the functor does after the server is gone is not defined.
RunRemove ==
  /\ Runs(Base) /\ functors[Base] # <<>> /\ server = "alive"
  /\ Head(functors[Base])[1] = "removeConnectionInLoop"
  /\ LET c == Head(functors[Base])[2]
     IN  /\ connections' = connections \ {c}
         /\ functors' = [functors EXCEPT ![Base] = Tail(@), ![ioLoop[c]] =
                           Append(@, <<"connectDestroyed", c>>)]
  /\ UNCHANGED <<poolVars, nextConnId, ioLoop, state, added, server,
                 acceptVars>>

\* The state connectDestroyed() leaves: a connection that is still up ends, a
\* half-closed one stays kDisconnecting.
Destroyed(s) == IF s = "kConnected" THEN "kDisconnected" ELSE s

\* connectDestroyed().
RunDestroyed(l) ==
  /\ Runs(l) /\ functors[l] # <<>>
  /\ Head(functors[l])[1] = "connectDestroyed"
  /\ state' = [state EXCEPT ![Head(functors[l])[2]] = Destroyed(@)]
  /\ added' = [added EXCEPT ![Head(functors[l])[2]] = FALSE]
  /\ functors' = [functors EXCEPT ![l] = Tail(@)]
  /\ UNCHANGED <<poolVars, nextConnId, connections, ioLoop, server,
                 acceptVars>>

\* ~TcpServer up to the destruction of its members.
Destroy ==
  /\ server = "alive" /\ BaseFree
  /\ LET here == {c \in connections : ioLoop[c] = Base}
     IN  /\ state' = [c \in Conns |->
                        IF c \in here THEN Destroyed(state[c]) ELSE state[c]]
         /\ added' = [c \in Conns |-> added[c] /\ c \notin here]
         /\ functors' = [l \in Loops |->
              functors[l] \o SetToSeq({<<"connectDestroyed", c>> :
                   c \in {d \in connections \ here : ioLoop[d] = l}})]
  /\ connections' = {}
  /\ server' = "joining"
  /\ UNCHANGED <<poolVars, nextConnId, ioLoop, acceptVars>>

\* ~EventLoopThread, one after the other: quit() and join().
QuitLoop(l) ==
  /\ server = "joining" /\ started
  /\ l \in 1 .. numThreads /\ quit = 1 .. l - 1 /\ exited = quit
  /\ quit' = quit \cup {l}
  /\ UNCHANGED <<numThreads, started, next, exited, connVars, server,
                 acceptVars>>

\* loop() returns; functors queued after the last batch are not run.
LoopExit(l) ==
  /\ l \in quit \ exited
  /\ exited' = exited \cup {l}
  /\ UNCHANGED <<numThreads, started, next, quit, connVars, server,
                 acceptVars>>

\* The threads are joined; the acceptor is the last member to go.
Gone ==
  /\ server = "joining"
  /\ started => exited = 1 .. numThreads
  /\ server' = "gone"
  /\ backlog' = 0
  /\ idleFd' = FALSE
  /\ UNCHANGED <<poolVars, connVars, arrived, others, acceptPc, stolen>>

HandleRead ==
  NewConnection \/ NoDescriptor \/ CloseIdle \/ AcceptIdle \/ DropIdle \/ OpenIdle
RunFunctor(l) ==
  RunEstablished(l) \/ (l = Base /\ RunRemove) \/ RunDestroyed(l)
Dying == Gone \/ \E l \in Loops : QuitLoop(l) \/ LoopExit(l)

ServerNext ==
  \/ \E n \in 0 .. MaxThreads : SetThreadNum(n)
  \/ Start
  \/ Arrive \/ Leave \/ OthersOpen \/ OthersClose
  \/ HandleRead
  \/ \E c \in Conns : Shutdown(c) \/ HandleClose(c)
  \/ \E l \in Loops : RunFunctor(l)
  \/ Destroy
  \/ Dying

ServerSpec == ServerInit /\ [][ServerNext]_serverVars

-----------------------------------------------------------------------------
(* Properties                                                              *)

\* Round robin keeps the loops even, and a loop found by hash is one of them
\* (getNextLoop, getLoopForHash, getAllLoops).
LoopsBalanced ==
  /\ \A k, l \in GetAllLoops :
       LET On(x) == Cardinality({c \in 1 .. nextConnId - 1 : ioLoop[c] = x})
       IN  On(k) - On(l) \in -1 .. 1
  /\ \A c \in 1 .. nextConnId - 1 : ioLoop[c] \in GetAllLoops
  /\ \A h \in 0 .. 2 * MaxThreads : GetLoopForHash(h) \in GetAllLoops

\* Whatever way the functors of the loops cross, each finds what it asserts:
\* kConnecting, the entry of the map (n == 1), the channel in the poller.  Only
\* the functors of a server's end find connections that have not been closed;
\* for a half-closed one connectDestroyed() then fails the assert that nothing
\* is polled for (Channel.cc:61), having left it its interest.
FunctorsFit ==
  \A l \in Loops \ exited : functors[l] # <<>> =>
    LET f == Head(functors[l])
        c == f[2]
    IN  CASE f[1] = "connectEstablished" -> state[c] = "kConnecting"
          [] f[1] = "removeConnectionInLoop" ->
               server = "alive" => c \in connections
          [] OTHER ->
               /\ added[c]
               /\ state[c] \in {"kConnected", "kDisconnecting", "kDisconnected"}
               /\ server = "alive" => state[c] = "kDisconnected"

\* A connection that nothing refers to any more has left its poller (assert of
\* ~Channel) and is kDisconnected (TcpConnection.cc:71), for a server that lives
\* or that has no threads.  The second assert fails for one that was half-closed
\* when its server died: connectDestroyed() tests for kConnected only
\* (TcpConnection.cc:337), and nothing else leaves it so.
NoneLeaked ==
  (server = "alive" \/ numThreads = 0) =>
    \A c \in 1 .. nextConnId - 1 :
      \/ Referenced(c)
      \/ ~added[c] /\ state[c] = "kDisconnected"
      \/ ~added[c] /\ state[c] = "kDisconnecting" /\ server # "alive"

\* Without threads no functor names the server after its end (FIXME: unsafe).
DeadServerUnused ==
  (server = "gone" /\ numThreads = 0) =>
    \A i \in DOMAIN functors[Base] :
      functors[Base][i][1] # "removeConnectionInLoop"

\* The reserved descriptor is lost only to another thread (Acceptor.cc:82).
ReserveKept ==
  server = "alive" /\ acceptPc = "idle" /\ ~stolen => idleFd

\* A client that waits is served or turned away, even without descriptors.
BacklogDrains ==
  backlog > 0 ~> (backlog = 0 \/ stolen)

\* A connection that has ended is taken out of its poller.
ClosedIsDestroyed ==
  \A c \in Conns :
    (state[c] = "kDisconnected" /\ added[c]) ~> (~added[c] \/ server # "alive")

\* Loops, functors, connections and the reserved descriptor: the parts above.
ConnectionsSound ==
  LoopsBalanced /\ FunctorsFit /\ NoneLeaked /\ DeadServerUnused /\ ReserveKept

\* The base loop serves its clients to the end of each of them.
ServerServes == BacklogDrains /\ ClosedIsDestroyed
=============================================================================
