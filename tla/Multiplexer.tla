---------------------------- MODULE Multiplexer ----------------------------
(***************************************************************************)
(* The multiplexer between its clients and one backend: a client has an id *)
(* from a pool as long as it is connected, and under it the backend hears  *)
(* of the client and of its messages.  All callbacks run on one loop.      *)
(***************************************************************************)
EXTENDS Integers, Sequences, FiniteSets, SequencesExt

CONSTANTS
  MaxMuxClients, \* bound: connections of clients
  MaxConns,      \* MAX_CONNS, 65535 in the code
  MaxFlight,     \* bound: frames under way when another message is sent
  Nobody         \* no client

VARIABLES
  muxConn,   \* the clients' connections
  context,   \* their contexts: the id, or NoId for an empty one
  clientOf,  \* clientConnections_: the connection of each id or Nobody
  availIds,  \* availIds_, oldest first
  muxLoop,   \* the loop: "runs", has been told to "quit", has "ended"
  backend,   \* backendConnection_: "new", "up", "down"
  toBackend, \* frames under way, each with the client it is about
  toMux,     \* and from the backend, with the client that is meant
  known,     \* the client the backend knows under an id
  stale,     \* history: a client acted under an id the backend had returned
  told,      \* history: the client of the last CONN of an id, until DISCONN
  strayed,   \* history: a frame was sent for a client that was not told of
  crossed    \* history: bytes went past the connected client they were for

muxVars == <<muxConn, context, clientOf, availIds, muxLoop, backend, toBackend,
             toMux, known, stale, told, strayed, crossed>>

Ids == 0..MaxConns-1
\* In the order of their connections.
MuxClients == 1..MaxMuxClients
NoId == -1
Somebody == MuxClients \cup {Nobody}

ASSUME MuxAssumption == MaxConns \in Nat /\ Nobody \notin MuxClients

MuxTypeOK ==
  /\ muxConn \in [MuxClients -> {"new", "connected", "disconnecting", "down"}]
  /\ context \in [MuxClients -> Ids \cup {NoId}]
  /\ clientOf \in [Ids -> Somebody] /\ known \in [Ids -> Somebody]
  /\ told \in [Ids -> Somebody] /\ availIds \in Seq(Ids)
  /\ muxLoop \in {"runs", "quit", "ended"} /\ backend \in {"new", "up", "down"}
  /\ {stale, strayed, crossed} \subseteq BOOLEAN

MuxInit ==
  /\ muxConn = [c \in MuxClients |-> "new"]
  /\ context = [c \in MuxClients |-> NoId]
  /\ clientOf = [i \in Ids |-> Nobody] /\ availIds = <<>>
  /\ muxLoop = "runs" /\ backend = "new"
  /\ toBackend = <<>> /\ toMux = <<>>
  /\ known = [i \in Ids |-> Nobody] /\ told = [i \in Ids |-> Nobody]
  /\ stale = FALSE /\ strayed = FALSE /\ crossed = FALSE

\* shutdown() of a connection.
Ended(state) == IF state = "connected" THEN "disconnecting" ELSE state

\* sendBackendPacket(), n times: without a backend nothing is sent.
SendBackend(id, type, c, n) ==
  IF backend # "up" THEN UNCHANGED <<toBackend, told, strayed>>
  ELSE /\ toBackend' = toBackend
            \o [k \in 1..n |-> [id |-> id, type |-> type, client |-> c]]
       /\ told' = [told EXCEPT ![id] =
            CASE type = "CONN" -> c [] type = "DISCONN" -> Nobody [] OTHER -> @]
       /\ strayed' = (strayed \/ (type # "CONN" /\ told[id] # c))

\* The id of client c is no longer its own.
ActsStale(c) ==
  stale' = (stale \/ (backend = "up" /\ clientOf[context[c]] # c))

-----------------------------------------------------------------------------
(* Clients.                                                                *)

\* onClientConnection(), connected.
ClientUp(c) ==
  /\ muxConn[c] = "new" /\ \A d \in 1..c-1 : muxConn[d] # "new"
  /\ IF availIds # <<>>
       THEN /\ muxConn' = [muxConn EXCEPT ![c] = "connected"]
            /\ context' = [context EXCEPT ![c] = Head(availIds)]
            /\ clientOf' = [clientOf EXCEPT ![Head(availIds)] = c]
            /\ availIds' = Tail(availIds)
            /\ SendBackend(Head(availIds), "CONN", c, 1)
       ELSE /\ muxConn' = [muxConn EXCEPT ![c] = "disconnecting"]
            /\ UNCHANGED <<context, clientOf, availIds, toBackend, told,
                           strayed>>
  /\ UNCHANGED <<muxLoop, backend, toMux, known, stale, crossed>>

\* onClientMessage(): n packets of at most MAX_PACKET_LEN.
ClientMessage(c, n) ==
  /\ muxConn[c] \in {"connected", "disconnecting"}
  /\ context[c] # NoId
  /\ Len(toBackend) < MaxFlight
  /\ SendBackend(context[c], "MSG", c, n)
  /\ ActsStale(c)
  /\ UNCHANGED <<muxConn, context, clientOf, availIds, muxLoop, backend, toMux,
                 known, crossed>>

\* Mutant of GiveBack: the connection stays under its id.
GiveBackOnly(id) == availIds' = Append(availIds, id) /\ UNCHANGED clientOf

GiveBack(id) ==
  /\ availIds' = Append(availIds, id)
  /\ clientOf' = [clientOf EXCEPT ![id] = Nobody]

\* onClientConnection(), not connected; the context stays.
ClientDown(c) ==
  /\ muxConn[c] \in {"connected", "disconnecting"}
  /\ muxConn' = [muxConn EXCEPT ![c] = "down"]
  /\ IF context[c] # NoId
       THEN /\ SendBackend(context[c], "DISCONN", c, 1)
            /\ GiveBack(context[c])
            /\ ActsStale(c)
       ELSE UNCHANGED <<clientOf, availIds, toBackend, told, strayed, stale>>
  /\ UNCHANGED <<context, muxLoop, backend, toMux, known, crossed>>

-----------------------------------------------------------------------------
(* The backend.                                                            *)

\* onBackendConnection(), connected.
BackendUp ==
  /\ backend = "new" /\ backend' = "up"
  /\ availIds' = availIds \o [k \in 1..MaxConns |-> k - 1]
  /\ UNCHANGED <<muxConn, context, clientOf, muxLoop, toBackend, toMux, known,
                 stale, told, strayed, crossed>>

\* onBackendConnection(), not connected.
BackendDown ==
  /\ backend = "up" /\ backend' = "down"
  /\ muxConn' = [c \in MuxClients |->
       IF c \in Range(clientOf) THEN Ended(muxConn[c]) ELSE muxConn[c]]
  /\ clientOf' = [i \in Ids |-> Nobody] /\ availIds' = <<>>
  /\ toBackend' = <<>> /\ toMux' = <<>>
  /\ muxLoop' = "quit"
  /\ UNCHANGED <<context, known, stale, told, strayed, crossed>>

\* sendClientString() of the next frame.  A frame without contents stays in the
\* buffer until more bytes follow it (Multiplexer.cpp:175): here it is one that
\* has not been read yet, as any frame may be for as long as it likes.
BackendMessage ==
  /\ toMux # <<>> /\ toMux' = Tail(toMux)
  /\ LET f == Head(toMux)
         c == clientOf[f.id]
     IN CASE f.type = "MSG" ->
               /\ crossed' =
                    (crossed \/ (c # f.client /\ muxConn[f.client] = "connected"))
               /\ UNCHANGED <<muxConn, clientOf, availIds>>
          [] f.type = "DISCONN" /\ c # Nobody ->
               /\ muxConn' = [muxConn EXCEPT ![c] = Ended(@)]
               /\ GiveBack(f.id)
               /\ UNCHANGED crossed
          [] OTHER -> UNCHANGED <<muxConn, clientOf, availIds, crossed>>
  /\ UNCHANGED <<context, muxLoop, backend, toBackend, known, stale, told,
                 strayed>>

\* The backend hears of a client and of its end.
BackendReads ==
  /\ toBackend # <<>> /\ toBackend' = Tail(toBackend)
  /\ LET f == Head(toBackend)
     IN known' = [known EXCEPT ![f.id] =
          CASE f.type = "CONN" -> f.client
            [] f.type = "DISCONN" -> Nobody
            [] OTHER -> @]
  /\ UNCHANGED <<muxConn, context, clientOf, availIds, muxLoop, backend, toMux,
                 stale, told, strayed, crossed>>

\* It sends something to a client it knows, or ends its connection.
BackendSends(id, type) ==
  /\ backend = "up" /\ known[id] # Nobody
  /\ Len(toMux) < MaxFlight
  /\ toMux' = Append(toMux, [id |-> id, type |-> type, client |-> known[id]])
  /\ known' = IF type = "MSG" THEN known ELSE [known EXCEPT ![id] = Nobody]
  /\ UNCHANGED <<muxConn, context, clientOf, availIds, muxLoop, backend,
                 toBackend, stale, told, strayed, crossed>>

\* The rest of the loop's last round is over.
LoopEnds ==
  /\ muxLoop = "quit" /\ muxLoop' = "ended"
  /\ UNCHANGED <<muxConn, context, clientOf, availIds, backend, toBackend,
                 toMux, known, stale, told, strayed, crossed>>

MuxNext ==
  \/ /\ muxLoop # "ended"
     /\ \/ \E c \in MuxClients :
             ClientUp(c) \/ ClientDown(c) \/ \E n \in {1, 2} : ClientMessage(c, n)
        \/ BackendUp \/ BackendDown \/ BackendMessage \/ LoopEnds
  \/ BackendReads
  \/ \E id \in Ids, type \in {"MSG", "DISCONN"} : BackendSends(id, type)

MuxSpec == MuxInit /\ [][MuxNext]_muxVars

-----------------------------------------------------------------------------
(* Properties                                                              *)

\* While there is a backend each id is in the pool once or has one client,
\* which has it in its context; a client of the backend's is heard of before
\* its messages are and no longer after its end; nothing meant for a connected
\* client goes elsewhere.  All that ends when a client whose id the backend's
\* DISCONN had returned (Multiplexer.cpp:211) speaks or goes down
\* (Multiplexer.cpp:68): its id is in the pool twice then.
MuxRight ==
  ~stale =>
    /\ ~strayed /\ ~crossed
    /\ backend = "up" => IsInjective(availIds) /\ \A i \in Ids :
         /\ i \in ToSet(availIds) <=> clientOf[i] = Nobody
         /\ \A c \in MuxClients : clientOf[i] = c =>
              context[c] = i /\ muxConn[c] \in {"connected", "disconnecting"}
=============================================================================
