----------------------------- MODULE TimingWheel -----------------------------
(***************************************************************************)
(* The timing wheel and the discard server that shuts idle connections     *)
(* down with it.  An Entry lives as long as a slot holds it; with it goes  *)
(* the connection.                                                         *)
(***************************************************************************)
EXTENDS Integers, FiniteSets

CONSTANTS
  WheelConns, \* connections of the server
  Slots,      \* maxIdleTimeSecond, 8 in the code
  SizeMod     \* one more than the largest size_t

\* The wheel's size, 8, divides 2^64; getDec() of 0 would be wrong otherwise.
ASSUME WheelAssumption ==
  /\ Slots \in Nat /\ Slots > 0
  /\ SizeMod \in Nat /\ SizeMod > 0 /\ SizeMod % Slots = 0

VARIABLES
  wheel,      \* wheelMap_: the connections whose Entry is in the slot
  tail,       \* tail_
  lastUpdate, \* DiscardServer::lastUpdate_
  wheelConn,  \* "new", "connected", "disconnecting", "gone"
  idle,       \* history: ticks since a connection's last bytes
  missed      \* history: bytes since then that were not noticed in the wheel

wheelVars == <<wheel, tail, lastUpdate, wheelConn, idle, missed>>

WheelTypeOK ==
  /\ wheel \in [0..Slots-1 -> SUBSET WheelConns]
  /\ tail \in 0..Slots-1 /\ lastUpdate \in 0..Slots-1
  /\ wheelConn \in [WheelConns -> {"new", "connected", "disconnecting", "gone"}]
  /\ idle \in [WheelConns -> 0..Slots] /\ missed \in [WheelConns -> BOOLEAN]

WheelInit ==
  /\ wheel = [s \in 0..Slots-1 |-> {}]
  /\ tail = Slots - 1 /\ lastUpdate = 0
  /\ wheelConn = [c \in WheelConns |-> "new"]
  /\ idle = [c \in WheelConns |-> 0]
  /\ missed = [c \in WheelConns |-> FALSE]

\* getDec(): the subtraction is of size_t, so that it wraps at 0.
GetDec(index) == ((((index - 1) % SizeMod) % Slots) + Slots) % Slots

\* weak_ptr::lock() finds the Entry.
EntryAlive(c) == \E s \in 0..Slots-1 : c \in wheel[s]

\* add(), from onConnection().
AddConnection(c) ==
  /\ wheelConn[c] = "new"
  /\ wheelConn' = [wheelConn EXCEPT ![c] = "connected"]
  /\ wheel' = [wheel EXCEPT ![tail] = @ \cup {c}]
  /\ UNCHANGED <<tail, lastUpdate, idle, missed>>

\* The Entry is put into the newest slot as well.
Refresh(c) ==
  IF EntryAlive(c) THEN wheel' = [wheel EXCEPT ![tail] = @ \cup {c}]
  ELSE UNCHANGED wheel

\* onMessage() and update(): all connections share one lastUpdate_.
BytesArrive(c) ==
  /\ wheelConn[c] \in {"connected", "disconnecting"}
  /\ IF wheelConn[c] # "connected"
       THEN lastUpdate' = 0 /\ UNCHANGED <<wheel, idle, missed>>
       ELSE /\ lastUpdate' = tail
            /\ IF lastUpdate = tail THEN UNCHANGED wheel ELSE Refresh(c)
            /\ idle' = [idle EXCEPT ![c] = 0]
            /\ missed' = [missed EXCEPT ![c] = c \notin wheel'[tail]]
  /\ UNCHANGED <<tail, wheelConn>>

\* Mutant of Expiring: the slot that is cleared is the newest.
ExpiringNewest == tail

\* The slot onTimer() erases.
Expiring == GetDec(tail)

\* onTimer(): an Entry no slot holds any more shuts its connection down.
OnTimer ==
  LET rest == [wheel EXCEPT ![Expiring] = {}]
      ends == {c \in wheel[Expiring] : \A s \in 0..Slots-1 : c \notin rest[s]}
  IN /\ wheel' = rest
     /\ tail' = GetDec(tail)
     /\ wheelConn' = [c \in WheelConns |->
          IF c \in ends /\ wheelConn[c] = "connected" THEN "disconnecting"
          ELSE wheelConn[c]]
     /\ idle' = [c \in WheelConns |->
          IF wheelConn[c] = "connected" THEN idle[c] + 1 ELSE idle[c]]
     /\ UNCHANGED <<lastUpdate, missed>>

\* The client closes; its Entry stays until its slots are cleared.
ClientCloses(c) ==
  /\ wheelConn[c] \in {"connected", "disconnecting"}
  /\ wheelConn' = [wheelConn EXCEPT ![c] = "gone"]
  /\ UNCHANGED <<wheel, tail, lastUpdate, idle, missed>>

WheelNext ==
  \/ OnTimer
  \/ \E c \in WheelConns : AddConnection(c) \/ BytesArrive(c) \/ ClientCloses(c)

WheelSpec == WheelInit /\ [][WheelNext]_wheelVars

-----------------------------------------------------------------------------
(* Properties                                                              *)

\* A connection that stays silent is shut down by the tick that completes its
\* round of the wheel, and not before, unless its bytes came after another
\* connection's had set lastUpdate_ in the same second (DiscardServer.cpp:42).
IdleKicked ==
  \A c \in WheelConns :
    /\ wheelConn[c] = "connected" => idle[c] < Slots
    /\ wheelConn[c] = "disconnecting" => idle[c] = Slots \/ missed[c]
=============================================================================
