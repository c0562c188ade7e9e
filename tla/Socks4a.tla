------------------------------ MODULE Socks4a ------------------------------
(***************************************************************************)
(* Sock4aServer on one client's connection and the connection to the       *)
(* target its request names; both are on the same loop.  The client sends  *)
(* its request in two parts and numbered bytes behind it, the target       *)
(* numbered bytes.  What arrives before the target is connected and is no  *)
(* request stays where it is.                                              *)
(***************************************************************************)
EXTENDS Integers, Sequences, SequencesExt

CONSTANTS
  MaxData,   \* bound: bytes behind the request, bytes of the target
  MaxHead,   \* 512 in the code: what a request may take
  MaxBuffer  \* MAX_BUFFER, 10 MB in the code

ASSUME SocksAssumption == {MaxData, MaxHead, MaxBuffer} \subseteq Nat

VARIABLES
  requestOk,  \* version, command and host name are good
  clientSent, \* of the client's stream, what has arrived
  targetSent, \* of the target's
  sIn,        \* input buffer of the client's connection
  sOut,       \* output buffers of the two connections
  tOut,
  sSide,      \* the connections: "connected", "disconnecting", "down"; the
  tSide,      \* target's is "none" and "connecting" before
  sRead,      \* whether they read
  tRead,
  linked,     \* the client's connection has a context
  toClient,   \* history: what has left for the client, for the target
  toTarget,
  late,       \* history: the target came when the client was gone
  early,      \* history: bytes arrived before the target was connected
  socks       \* "runs", "crashed" on a null pointer

socksVars == <<requestOk, clientSent, targetSent, sIn, sOut, tOut, sSide, tSide, sRead,
               tRead, linked, toClient, toTarget, late, early, socks>>

\* The two parts of the request, the bytes behind it, the responses.
Request == <<-1, -2>>
Data == [k \in 1..MaxData |-> k]
Granted == -3
Rejected == -4

SocksTypeOK ==
  /\ sSide \in {"connected", "disconnecting", "down"}
  /\ tSide \in {"none", "connecting", "connected", "disconnecting", "down"}
  /\ clientSent \in 0..Len(Request) + MaxData /\ targetSent \in 0..MaxData
  /\ {requestOk, sRead, tRead, linked, late, early} \subseteq BOOLEAN
  /\ socks \in {"runs", "crashed"}

SocksInit ==
  /\ requestOk \in BOOLEAN
  /\ clientSent = 0 /\ targetSent = 0
  /\ sIn = <<>> /\ sOut = <<>> /\ tOut = <<>> /\ toClient = <<>> /\ toTarget = <<>>
  /\ sSide = "connected" /\ tSide = "none" /\ sRead = TRUE /\ tRead = TRUE
  /\ linked = FALSE /\ late = FALSE /\ early = FALSE /\ socks = "runs"

\* shutdown() of a connection.
HalfClosed(side) == IF side = "connected" THEN "disconnecting" ELSE side

\* onHighWaterMark(): the connection whose output waits stops reading, not the
\* one the output comes from.
ReadsOn(reads, out, more) ==
  reads /\ ~(Len(out) < MaxBuffer /\ Len(out) + Len(more) >= MaxBuffer)

SendToClient(bytes) ==
  IF sSide = "connected"
    THEN sOut' = sOut \o bytes /\ sRead' = ReadsOn(sRead, sOut, bytes)
    ELSE UNCHANGED <<sOut, sRead>>

\* send() of the client's input buffer; it keeps what is not sent.
SendToTarget(bytes) ==
  IF tSide = "connected"
    THEN tOut' = tOut \o bytes /\ tRead' = ReadsOn(tRead, tOut, bytes) /\ sIn' = <<>>
    ELSE sIn' = bytes /\ UNCHANGED <<tOut, tRead>>

-----------------------------------------------------------------------------
(* The client's connection.                                                *)

\* onServerMessage() without a context.
WithoutContext(buf) ==
  CASE Len(buf) > MaxHead ->
         /\ sIn' = buf /\ sSide' = HalfClosed(sSide)
         /\ UNCHANGED <<tSide, sOut, sRead>>
    [] Len(buf) <= MaxHead /\ IsPrefix(Request, buf) /\ requestOk ->
         /\ sIn' = SubSeq(buf, Len(Request) + 1, Len(buf))
         /\ tSide' = "connecting"
         /\ UNCHANGED <<sSide, sOut, sRead>>
    [] Len(buf) <= MaxHead /\ IsPrefix(Request, buf) /\ ~requestOk ->
         /\ sIn' = buf
         /\ SendToClient(<<Rejected>>)
         /\ sSide' = HalfClosed(sSide)
         /\ UNCHANGED tSide
    [] OTHER -> sIn' = buf /\ UNCHANGED <<tSide, sSide, sOut, sRead>>

\* onServerMessage().
OnServerMessage(n) ==
  LET stream == Request \o Data
      buf == sIn \o SubSeq(stream, clientSent + 1, clientSent + n)
  IN /\ sSide # "down" /\ sRead
     /\ clientSent + n <= Len(stream) /\ clientSent' = clientSent + n
     /\ early' = (early \/ (~linked /\ clientSent' > Len(Request)))
     /\ IF ~linked
          THEN WithoutContext(buf) /\ UNCHANGED <<tOut, tRead, socks>>
        ELSE IF tSide # "down"
          THEN SendToTarget(buf) /\ UNCHANGED <<sOut, sSide, tSide, sRead, socks>>
          ELSE /\ socks' = "crashed"
               /\ UNCHANGED <<sIn, sOut, tOut, sSide, tSide, sRead, tRead>>
     /\ UNCHANGED <<requestOk, targetSent, linked, toClient, toTarget, late>>

\* The target's connection when the client's ends; without a context nobody
\* tells it.
TargetAfterClient == IF linked THEN HalfClosed(tSide) ELSE tSide

\* onServerConnection(), not connected.
ServerConnDown ==
  /\ sSide # "down" /\ sSide' = "down"
  /\ tSide' = TargetAfterClient
  /\ sOut' = <<>>
  /\ UNCHANGED <<requestOk, clientSent, targetSent, sIn, tOut, sRead, tRead,
                 linked, toClient, toTarget, late, early, socks>>

-----------------------------------------------------------------------------
(* The target's connection.                                                *)

\* onClientConnection(), connected.
TargetUp ==
  /\ tSide = "connecting" /\ tSide' = "connected"
  /\ linked' = TRUE
  /\ SendToClient(<<Granted>>)
  /\ late' = (sSide = "down")
  /\ UNCHANGED <<requestOk, clientSent, targetSent, sIn, tOut, sSide, tRead,
                 toClient, toTarget, early, socks>>

\* onClientConnection(), not connected.
TargetDown ==
  /\ tSide \in {"connected", "disconnecting"} /\ tSide' = "down"
  /\ sSide' = HalfClosed(sSide)
  /\ tOut' = <<>>
  /\ UNCHANGED <<requestOk, clientSent, targetSent, sIn, sOut, sRead, tRead,
                 linked, toClient, toTarget, late, early, socks>>

\* onClientMessage().
OnClientMessage(n) ==
  /\ tSide \in {"connected", "disconnecting"} /\ tRead
  /\ targetSent + n <= MaxData /\ targetSent' = targetSent + n
  /\ SendToClient(SubSeq(Data, targetSent + 1, targetSent'))
  /\ UNCHANGED <<requestOk, clientSent, sIn, tOut, sSide, tSide, tRead, linked,
                 toClient, toTarget, late, early, socks>>

\* n bytes leave for the client; the last brings onWriteComplete().
DrainToClient(n) ==
  /\ sSide # "down" /\ n \in 1..Len(sOut)
  /\ toClient' = toClient \o SubSeq(sOut, 1, n)
  /\ sOut' = SubSeq(sOut, n + 1, Len(sOut))
  /\ sRead' = (sRead \/ sOut' = <<>>)
  /\ UNCHANGED <<requestOk, clientSent, targetSent, sIn, tOut, sSide, tSide,
                 tRead, linked, toTarget, late, early, socks>>

DrainToTarget(n) ==
  /\ tSide \in {"connected", "disconnecting"} /\ n \in 1..Len(tOut)
  /\ toTarget' = toTarget \o SubSeq(tOut, 1, n)
  /\ tOut' = SubSeq(tOut, n + 1, Len(tOut))
  /\ tRead' = (tRead \/ tOut' = <<>>)
  /\ UNCHANGED <<requestOk, clientSent, targetSent, sIn, sOut, sSide, tSide,
                 sRead, linked, toClient, late, early, socks>>

SocksNext ==
  /\ socks = "runs"
  /\ \/ \E n \in 1..Len(Request) + MaxData : OnServerMessage(n)
     \/ \E n \in 1..MaxData : OnClientMessage(n)
     \/ \E n \in 1..MaxData + 1 : DrainToClient(n) \/ DrainToTarget(n)
     \/ TargetUp \/ TargetDown \/ ServerConnDown

SocksSpec == SocksInit /\ [][SocksNext]_socksVars

-----------------------------------------------------------------------------
(* Properties                                                              *)

\* Each side gets the other's bytes, whole and in order and nothing of the
\* request; what the client sends is passed on at once unless some of it came
\* before the target did (Sock4aServer.cpp:51).  A side that has stopped
\* reading has output that waits.  When one side ends the other
\* is shut down, unless the client was gone when the target came (:36).  The
\* connection of a target that has ended is used once more, which crashes, only
\* while its client is half closed (:105).
SocksRight ==
  /\ IsPrefix(toTarget \o tOut, Data)
  /\ toClient \o sOut # <<>> => Head(toClient \o sOut) \in {Granted, Rejected}
  /\ \/ toClient \o sOut \in {<<>>, <<Rejected>>}
     \/ IsPrefix(toClient \o sOut, <<Granted>> \o Data)
  /\ linked /\ ~early /\ tSide = "connected" =>
       /\ sIn = <<>>
       /\ Len(toTarget \o tOut) = clientSent - Len(Request)
  /\ sSide # "down" /\ ~sRead => sOut # <<>>
  /\ tSide \in {"connected", "disconnecting"} /\ ~tRead => tOut # <<>>
  /\ sSide = "down" /\ tSide = "connected" => late
  /\ tSide = "down" => sSide # "connected"
  /\ socks = "crashed" => tSide = "down" /\ sSide = "disconnecting"
=============================================================================
