--------------------------------- MODULE Rpc ---------------------------------
(***************************************************************************)
(* Calls over one connection: the caller's RpcChannel, used by several     *)
(* threads, and the RpcChannel that RpcServer puts into the context of the *)
(* connection, whose services answer when they like.  Frames arrive whole  *)
(* and in order, as module Codecs has it.                                  *)
(***************************************************************************)
EXTENDS Integers, Sequences, FiniteSets, SequencesExt

CONSTANTS
  Callers,  \* threads that use the channel
  MaxCalls  \* bound: calls made

ASSUME RpcAssumption == MaxCalls \in Nat

VARIABLES
  lastId,       \* id_
  callerAt,     \* what the thread has yet to do, within CallMethod()
  callerId,     \* its id
  outstandings, \* outstandings_: the calls that are in it
  fate,         \* history: what became of response and done of a call
  rpcConn,      \* "up", "down"; the caller's object is "gone" then
  requests,     \* REQUESTs under way
  replies,      \* RESPONSEs under way
  serving,      \* calls a service has not ended, each with its doneCallback
  services      \* services_ has the called service

rpcVars == <<lastId, callerAt, callerId, outstandings, fate, rpcConn, requests,
             replies, serving, services>>

CallIds == 1..MaxCalls
\* What the server finds in a REQUEST, and the error of a RESPONSE.
RequestKinds == {"good", "NO_METHOD", "INVALID_REQUEST"}
ErrorCodes == {"none", "NO_SERVICE", "NO_METHOD", "INVALID_REQUEST"}

RpcTypeOK ==
  /\ lastId \in 0..MaxCalls /\ outstandings \subseteq CallIds
  /\ callerAt \in [Callers -> {"idle", "register", "send"}]
  /\ callerId \in [Callers -> 0..MaxCalls]
  /\ fate \in [CallIds -> {"none", "done", "failed", "deleted"}]
  /\ rpcConn \in {"up", "down", "gone"}
  /\ requests \in Seq([id : CallIds, kind : RequestKinds])
  /\ replies \in Seq([id : CallIds, error : ErrorCodes])
  /\ serving \subseteq CallIds /\ services \in BOOLEAN

RpcInit ==
  /\ lastId = 0 /\ outstandings = {} /\ rpcConn = "up"
  /\ callerAt = [t \in Callers |-> "idle"] /\ callerId = [t \in Callers |-> 0]
  /\ fate = [c \in CallIds |-> "none"]
  /\ requests = <<>> /\ replies = <<>> /\ serving = {}
  /\ services \in BOOLEAN

-----------------------------------------------------------------------------
(* The caller.                                                             *)

\* Mutant of CallSteps: the REQUEST is sent before the call is registered.
CallStepsSendFirst == <<"send", "register">>

\* CallMethod() after incrementAndGet().
CallSteps == <<"register", "send">>

\* What thread t does after step s.
NextStep(s) == IF s = CallSteps[1] THEN CallSteps[2] ELSE "idle"

\* incrementAndGet().
CallMethod(t) ==
  /\ callerAt[t] = "idle" /\ lastId < MaxCalls /\ rpcConn # "gone"
  /\ lastId' = lastId + 1
  /\ callerId' = [callerId EXCEPT ![t] = lastId']
  /\ callerAt' = [callerAt EXCEPT ![t] = CallSteps[1]]
  /\ UNCHANGED <<outstandings, fate, rpcConn, requests, replies, serving,
                 services>>

RegisterCall(t) ==
  /\ callerAt[t] = "register"
  /\ outstandings' = outstandings \cup {callerId[t]}
  /\ callerAt' = [callerAt EXCEPT ![t] = NextStep("register")]
  /\ UNCHANGED <<lastId, callerId, fate, rpcConn, requests, replies, serving,
                 services>>

\* A connection that is down drops what is sent.
SendRequest(t) ==
  /\ callerAt[t] = "send"
  /\ callerAt' = [callerAt EXCEPT ![t] = NextStep("send")]
  /\ IF rpcConn = "up"
       THEN \E k \in RequestKinds :
              requests' = Append(requests, [id |-> callerId[t], kind |-> k])
       ELSE UNCHANGED requests
  /\ UNCHANGED <<lastId, callerId, outstandings, fate, rpcConn, replies,
                 serving, services>>

\* onRpcMessage() with a RESPONSE; done runs whether there was an error or not.
OnResponse ==
  /\ replies # <<>>
  /\ replies' = Tail(replies)
  /\ LET r == Head(replies)
     IN IF r.id \in outstandings
          THEN /\ outstandings' = outstandings \ {r.id}
               /\ fate' = [fate EXCEPT
                    ![r.id] = IF r.error = "none" THEN "done" ELSE "failed"]
          ELSE UNCHANGED <<outstandings, fate>>
  /\ UNCHANGED <<lastId, callerAt, callerId, rpcConn, requests, serving,
                 services>>

\* ~RpcChannel(), once no thread uses it.
DestroyCaller ==
  /\ rpcConn = "down" /\ \A t \in Callers : callerAt[t] = "idle"
  /\ rpcConn' = "gone"
  /\ outstandings' = {}
  /\ fate' = [c \in CallIds |-> IF c \in outstandings THEN "deleted" ELSE fate[c]]
  /\ UNCHANGED <<lastId, callerAt, callerId, requests, replies, serving,
                 services>>

-----------------------------------------------------------------------------
(* The server.                                                             *)

Reply(id, error) == replies' = Append(replies, [id |-> id, error |-> error])

\* onRpcMessage() with a REQUEST: the service has it, or an error goes back.
OnRequest ==
  /\ requests # <<>>
  /\ requests' = Tail(requests)
  /\ LET r == Head(requests)
     IN IF services /\ r.kind = "good"
          THEN serving' = serving \cup {r.id} /\ UNCHANGED replies
          ELSE /\ Reply(r.id, IF services THEN r.kind ELSE "NO_SERVICE")
               /\ UNCHANGED serving
  /\ UNCHANGED <<lastId, callerAt, callerId, outstandings, fate, rpcConn,
                 services>>

\* doneCallback(): any service may be the first to end.
DoneCallback(id) ==
  /\ id \in serving
  /\ serving' = serving \ {id}
  /\ Reply(id, "none")
  /\ UNCHANGED <<lastId, callerAt, callerId, outstandings, fate, rpcConn,
                 requests, services>>

\* The connection goes down with all that is under way.  RpcServer::
\* onConnection() deletes the server's channel: a service that has not ended
\* must not run its closure any more.
ConnectionDown ==
  /\ rpcConn = "up" /\ rpcConn' = "down"
  /\ requests' = <<>> /\ replies' = <<>> /\ serving' = {}
  /\ UNCHANGED <<lastId, callerAt, callerId, outstandings, fate, services>>

RpcNext ==
  \/ \E t \in Callers : CallMethod(t) \/ RegisterCall(t) \/ SendRequest(t)
  \/ OnResponse \/ DestroyCaller \/ OnRequest \/ ConnectionDown
  \/ \E id \in serving : DoneCallback(id)

RpcSpec == RpcInit /\ [][RpcNext]_rpcVars

-----------------------------------------------------------------------------
(* Properties                                                              *)

\* A call that nobody is working on.
Settled(c) ==
  /\ c <= lastId
  /\ \A t \in Callers : callerAt[t] # "idle" => callerId[t] # c
  /\ c \notin serving
  /\ \A m \in ToSet(requests) \cup ToSet(replies) : m.id # c

\* However the calls and the answers cross, the RESPONSE finds its call: while
\* the connection is up a call that nothing is under way for has had its done
\* run, and the closure of a call is run or deleted, never both and never
\* neither once the channel is gone (RpcChannel.cc:66, :97).
CallsRight ==
  \A c \in CallIds :
    /\ c \in outstandings => fate[c] = "none"
    /\ Settled(c) /\ rpcConn = "up" => fate[c] \in {"done", "failed"}
    /\ c <= lastId /\ rpcConn = "gone" => fate[c] # "none"
    /\ fate[c] = "done" => services
=============================================================================
