-------------------------------- MODULE Chat --------------------------------
(***************************************************************************)
(* ChatServer and ChatServerHp: what a client says goes to every client.   *)
(* The connections are spread over two io loops; ChatServer keeps them in  *)
(* one set under a lock and sends from the speaker's loop, ChatServerHp    *)
(* keeps a set in each thread and hands the message to every loop.         *)
(***************************************************************************)
EXTENDS Integers, Sequences, FiniteSets, SequencesExt

CONSTANTS
  MaxChatConns,  \* bound: connections
  Limits,        \* bound: values of kMaxConnectionNum_
  MaxSaid        \* bound: messages of all clients together

ASSUME ChatAssumption ==
  MaxChatConns \in Nat /\ Limits \subseteq Nat /\ MaxSaid \in Nat

VARIABLES
  hp,        \* the program is ChatServerHp
  limit,     \* kMaxConnectionNum_: what ChatServer admits
  chatConn,  \* state of each connection
  members,   \* connections_, or the threads' sets together
  leaving,   \* connections the base loop is to take from the server's map
  destroyed, \* connections whose connectDestroyed() has run
  said,      \* messages each client has said
  saying,    \* of each loop, the message it hands on or none
  copied,    \* and its copy of the connections
  rest,      \* and the receivers or loops still to come
  tested,    \* and the connection whose state it has tested
  queued,    \* functors of each loop
  heard,     \* history: messages sent to each client
  joined,    \* history: what others had said when a client came
  sentLate,  \* history: connections that ended between test and functor
  dangling   \* history: a functor found its connection deleted

chatVars ==
  <<hp, limit, chatConn, members, leaving, destroyed, said, saying, copied,
    rest, tested, queued, heard, joined, sentLate, dangling>>

ChatConns == 1..MaxChatConns
ChatLoops == {0, 1}
LoopOf(c) == c % 2
Silence == <<>>
NoOne == 0

ChatTypeOK ==
  /\ chatConn \in [ChatConns -> {"new", "kConnected", "kDisconnecting",
                                "kDisconnected"}]
  /\ members \subseteq ChatConns /\ leaving \subseteq ChatConns
  /\ destroyed \subseteq ChatConns /\ sentLate \subseteq ChatConns
  /\ said \in [ChatConns -> 0..MaxSaid]
  /\ tested \in [ChatLoops -> ChatConns \cup {NoOne}]
  /\ {hp, dangling} \subseteq BOOLEAN /\ limit \in Limits

ChatInit ==
  /\ hp \in BOOLEAN /\ limit \in Limits
  /\ chatConn = [c \in ChatConns |-> "new"]
  /\ members = {} /\ leaving = {} /\ destroyed = {}
  /\ said = [c \in ChatConns |-> 0]
  /\ saying = [l \in ChatLoops |-> Silence]
  /\ copied = [l \in ChatLoops |-> {}] /\ rest = [l \in ChatLoops |-> {}]
  /\ tested = [l \in ChatLoops |-> NoOne] /\ queued = [l \in ChatLoops |-> <<>>]
  /\ heard = [c \in ChatConns |-> <<>>]
  /\ joined = [c \in ChatConns |-> said]
  /\ sentLate = {} /\ dangling = FALSE

\* No callback runs on loop l.
Free(l) == saying[l] = Silence

\* A functor for loop l.
Queue(l, f) == queued' = [queued EXCEPT ![l] = Append(@, f)]

\* sendInLoop().
SendOut(receivers, m) ==
  heard' = [c \in ChatConns |->
              IF c \in receivers THEN Append(heard[c], m) ELSE heard[c]]

-----------------------------------------------------------------------------
(* Connections.                                                            *)

\* onConnection(), connected; one too many is shut down.
ChatUp(c) ==
  /\ Free(LoopOf(c)) /\ chatConn[c] = "new"
  /\ members' = members \cup {c}
  /\ chatConn' = [chatConn EXCEPT ![c] =
       IF ~hp /\ Cardinality(members') > limit THEN "kDisconnecting"
                                                       ELSE "kConnected"]
  /\ joined' = [joined EXCEPT ![c] = said]
  /\ UNCHANGED <<hp, limit, leaving, destroyed, said, saying, copied, rest,
                 tested, queued, heard, sentLate, dangling>>

\* handleClose(), with onConnection(), not connected.
ChatDown(c) ==
  /\ Free(LoopOf(c)) /\ chatConn[c] \in {"kConnected", "kDisconnecting"}
  /\ chatConn' = [chatConn EXCEPT ![c] = "kDisconnected"]
  /\ members' = members \ {c}
  /\ leaving' = leaving \cup {c}
  /\ sentLate' = IF \E l \in ChatLoops : tested[l] = c
                   THEN sentLate \cup {c} ELSE sentLate
  /\ UNCHANGED <<hp, limit, destroyed, said, saying, copied, rest, tested,
                 queued, heard, joined, dangling>>

\* removeConnectionInLoop().
ChatForget(c) ==
  /\ c \in leaving /\ leaving' = leaving \ {c}
  /\ Queue(LoopOf(c), [type |-> "connectDestroyed", conn |-> c])
  /\ UNCHANGED <<hp, limit, chatConn, members, destroyed, said, saying, copied,
                 rest, tested, heard, joined, sentLate, dangling>>

-----------------------------------------------------------------------------
(* Messages.                                                               *)

\* Messages of all clients.
SaidByAll == FoldFunction(LAMBDA n, sum : n + sum, 0, said)

\* onStringMessage() begins; the connections are copied under the lock.
Say(c) ==
  LET l == LoopOf(c)
  IN /\ Free(l) /\ chatConn[c] \in {"kConnected", "kDisconnecting"}
     /\ SaidByAll < MaxSaid
     /\ said' = [said EXCEPT ![c] = @ + 1]
     /\ saying' = [saying EXCEPT ![l] = <<c, said'[c]>>]
     /\ copied' = [copied EXCEPT ![l] = IF hp THEN {} ELSE members]
     /\ rest' = [rest EXCEPT ![l] = IF hp THEN ChatLoops ELSE members]
     /\ UNCHANGED <<hp, limit, chatConn, members, leaving, destroyed, tested,
                    queued, heard, joined, sentLate, dangling>>

\* Sets are in the order of addresses.
IsNext(l, x) == x \in rest[l] /\ \A y \in rest[l] : x <= y

\* send() to the next connection, and its end on the loop's own.
SendToNext(l, c) ==
  /\ ~hp /\ tested[l] = NoOne /\ IsNext(l, c)
  /\ rest' = [rest EXCEPT ![l] = @ \ {c}]
  /\ IF chatConn[c] = "kConnected" /\ LoopOf(c) # l
       THEN tested' = [tested EXCEPT ![l] = c] /\ UNCHANGED heard
       ELSE /\ SendOut({d \in {c} : chatConn[d] = "kConnected"}, saying[l])
            /\ UNCHANGED tested
  /\ UNCHANGED <<hp, limit, chatConn, members, leaving, destroyed, said,
                 saying, copied, queued, joined, sentLate, dangling>>

\* send() on another thread than the connection's; the functor has its raw
\* address.
SendElsewhere(l) ==
  /\ tested[l] # NoOne /\ tested' = [tested EXCEPT ![l] = NoOne]
  /\ Queue(LoopOf(tested[l]),
           [type |-> "sendInLoop", conn |-> tested[l], msg |-> saying[l]])
  /\ UNCHANGED <<hp, limit, chatConn, members, leaving, destroyed, said,
                 saying, copied, rest, heard, joined, sentLate, dangling>>

\* onDistributeMessage() on loop l.
Distribute(l, m) ==
  SendOut({c \in members : LoopOf(c) = l /\ chatConn[c] = "kConnected"}, m)

\* runInLoop() of the next loop.
HandToNext(l, k) ==
  /\ hp /\ IsNext(l, k) /\ rest' = [rest EXCEPT ![l] = @ \ {k}]
  /\ IF k = l THEN Distribute(l, saying[l]) /\ UNCHANGED queued
              ELSE /\ Queue(k, [type |-> "onDistributeMessage", msg |-> saying[l]])
                   /\ UNCHANGED heard
  /\ UNCHANGED <<hp, limit, chatConn, members, leaving, destroyed, said,
                 saying, copied, tested, joined, sentLate, dangling>>

\* onStringMessage() returns.
SaidAll(l) ==
  /\ ~Free(l) /\ rest[l] = {} /\ tested[l] = NoOne
  /\ saying' = [saying EXCEPT ![l] = Silence]
  /\ copied' = [copied EXCEPT ![l] = {}]
  /\ UNCHANGED <<hp, limit, chatConn, members, leaving, destroyed, said, rest,
                 tested, queued, heard, joined, sentLate, dangling>>

\* The connection's last owner is gone.
Deleted(c) == c \in destroyed /\ \A l \in ChatLoops : c \notin copied[l]

\* The next functor of loop l.
RunChatFunctor(l) ==
  /\ Free(l) /\ queued[l] # <<>>
  /\ queued' = [queued EXCEPT ![l] = Tail(@)]
  /\ LET f == Head(queued[l])
     IN CASE f.type = "sendInLoop" ->
               /\ dangling' = (dangling \/ (Deleted(f.conn) /\ f.conn \notin sentLate))
               /\ SendOut({c \in {f.conn} : chatConn[c] # "kDisconnected"}, f.msg)
               /\ UNCHANGED destroyed
          [] f.type = "onDistributeMessage" ->
               Distribute(l, f.msg) /\ UNCHANGED <<destroyed, dangling>>
          [] f.type = "connectDestroyed" ->
               destroyed' = destroyed \cup {f.conn} /\ UNCHANGED <<heard, dangling>>
  /\ UNCHANGED <<hp, limit, chatConn, members, leaving, said, saying, copied,
                 rest, tested, joined, sentLate>>

ChatNext ==
  \/ \E c \in ChatConns : ChatUp(c) \/ ChatDown(c) \/ ChatForget(c) \/ Say(c)
  \/ \E l \in ChatLoops :
       \/ SendElsewhere(l) \/ SaidAll(l) \/ RunChatFunctor(l)
       \/ \E c \in ChatConns : SendToNext(l, c)
       \/ \E k \in ChatLoops : HandToNext(l, k)

ChatSpec == ChatInit /\ [][ChatNext]_chatVars

-----------------------------------------------------------------------------
(* Properties                                                              *)

\* Of each speaker a client hears messages one after the other and leaves none
\* out, in whichever loops the two are; when nothing is under way it has heard
\* all that was said since it came.  No more are connected than are admitted.
\* A queued sendInLoop() finds its connection unless that ended between the
\* test of its state and the push (TcpConnection.cc:127).
ChatRight ==
  LET hears(c, d) ==
        {heard[c][k][2] : k \in {j \in DOMAIN heard[c] : heard[c][j][1] = d}}
      quiet == \A l \in ChatLoops : Free(l) /\ queued[l] = <<>>
  IN /\ \A c \in ChatConns : \A j, k \in DOMAIN heard[c] :
          j < k /\ heard[c][j][1] = heard[c][k][1] =>
            /\ heard[c][j][2] < heard[c][k][2]
            /\ heard[c][j][2]..heard[c][k][2] \subseteq hears(c, heard[c][k][1])
     /\ \A c, d \in ChatConns :
          /\ hears(c, d) \subseteq 1..said[d]
          /\ quiet /\ chatConn[c] = "kConnected" =>
               joined[c][d] + 1..said[d] \subseteq hears(c, d)
     /\ ~hp => Cardinality({c \in ChatConns : chatConn[c] = "kConnected"}) <= limit
     /\ ~dangling
=============================================================================
