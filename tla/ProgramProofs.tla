--------------------------- MODULE ProgramProofs ----------------------------
(***************************************************************************)
(* TLAPS proofs about programs on muduo/net: the slots of the timing       *)
(* wheel, the ids of the multiplexer, the two streams of a Sock4aServer,   *)
(* the files and lines of the download servers and chargen, the answers of *)
(* the sudoku servers and the messages of the chat servers, for any number *)
(* of slots, ids, clients and connections, and buffers and files of any    *)
(* size; and all of them side by side, as MCNet composes them.             *)
(***************************************************************************)
EXTENDS MCNet, SequenceLemmas, FiniteSetTheorems

-----------------------------------------------------------------------------
(* TimingWheel: a connection's silence is read off the slots it is in.     *)

\* Ticks since slot s was the newest.
Age(s) == IF s >= tail THEN s - tail ELSE s - tail + Slots

\* A connection that is up is in the wheel, in no slot newer than its last
\* bytes, and in the one of its last bytes unless they went unnoticed.
WheelConnInv(c) ==
  /\ wheelConn[c] = "new" =>
       idle[c] = 0 /\ ~missed[c] /\ \A s \in 0..Slots-1 : c \notin wheel[s]
  /\ wheelConn[c] = "connected" =>
       /\ \E s \in 0..Slots-1 : c \in wheel[s]
       /\ \A s \in 0..Slots-1 : c \in wheel[s] => idle[c] <= Age(s)
       /\ ~missed[c] =>
            \E s \in 0..Slots-1 : c \in wheel[s] /\ Age(s) = idle[c]
  /\ wheelConn[c] = "disconnecting" => idle[c] = Slots \/ missed[c]

WheelInv == WheelTypeOK /\ \A c \in WheelConns : WheelConnInv(c)

\* What remains when a number is divided.
LEMMA ModUnique ==
  ASSUME NEW n \in Nat, n > 0, NEW q \in Int, NEW r \in 0 .. n - 1
  PROVE  (q * n + r) % n = r
OBVIOUS

\* The wrap of size_t at 0 comes to the last slot.
LEMMA WrapMod ==
  ASSUME NEW n \in Nat, n > 0, NEW m \in Nat, m > 0, m % n = 0
  PROVE  (m - 1) % n = n - 1
<1>1. PICK q \in Int : m = q * n
  <2>1. m \div n \in Int /\ m = (m \div n) * n
    BY Z3
  <2> QED BY <2>1
<1>2. m - 1 = (q - 1) * n + (n - 1)
  BY <1>1
<1>3. q - 1 \in Int /\ n - 1 \in 0 .. n - 1
  BY <1>1
<1>4. ((q - 1) * n + (n - 1)) % n = n - 1
  BY <1>3, ModUnique
<1> QED BY <1>2, <1>4

LEMMA SmallMod ==
  ASSUME NEW n \in Nat, NEW i \in 0 .. n - 1
  PROVE  i % n = i /\ (i + n) % n = i
OBVIOUS

\* getDec() is the slot before, the last one before the first.
LEMMA GetDecIs ==
  ASSUME NEW i \in 0 .. Slots - 1
  PROVE  GetDec(i) = IF i = 0 THEN Slots - 1 ELSE i - 1
<1>1. /\ Slots \in Nat /\ Slots > 0 /\ SizeMod \in Nat /\ SizeMod > 0
      /\ SizeMod % Slots = 0
  BY WheelAssumption
<1>2. CASE i = 0
  <2>1. (i - 1) % SizeMod = SizeMod - 1
    BY <1>1, <1>2
  <2>2. (SizeMod - 1) % Slots = Slots - 1
    BY <1>1, WrapMod
  <2>3. (Slots - 1 + Slots) % Slots = Slots - 1
    BY <1>1, SmallMod
  <2> QED BY <1>2, <2>1, <2>2, <2>3 DEF GetDec
<1>3. CASE i # 0
  <2>1. SizeMod >= Slots
    BY <1>1
  <2> DEFINE j == i - 1
  <2>2. j \in 0 .. SizeMod - 1 /\ j \in 0 .. Slots - 1
    BY <1>1, <1>3, <2>1
  <2> HIDE DEF j
  <2>3. j % SizeMod = j /\ j % Slots = j /\ (j + Slots) % Slots = j
    BY <1>1, <2>2, SmallMod
  <2>4. GetDec(i) = (((j % SizeMod) % Slots) + Slots) % Slots
    BY DEF GetDec, j
  <2>5. GetDec(i) = j
    BY <2>3, <2>4
  <2> QED BY <1>3, <2>5 DEF j
<1> QED BY <1>2, <1>3

\* The slot that is cleared is the oldest; with the tick the others age by one.
LEMMA Ages ==
  ASSUME WheelTypeOK, NEW s \in 0 .. Slots - 1
  PROVE  /\ Age(s) \in 0 .. Slots - 1 /\ Expiring \in 0 .. Slots - 1
         /\ Age(s) = 0 <=> s = tail
         /\ Age(s) = Slots - 1 <=> s = Expiring
         /\ tail' = Expiring /\ s # Expiring => Age(s)' = Age(s) + 1
<1>1. tail \in 0 .. Slots - 1 /\ Slots \in Nat /\ Slots > 0
  BY WheelAssumption DEF WheelTypeOK
<1>2. Expiring = IF tail = 0 THEN Slots - 1 ELSE tail - 1
  BY <1>1, GetDecIs DEF Expiring
<1>3. /\ Age(s) \in 0 .. Slots - 1 /\ Expiring \in 0 .. Slots - 1
      /\ Age(s) = 0 <=> s = tail
      /\ Age(s) = Slots - 1 <=> s = Expiring
  BY <1>1, <1>2 DEF Age
<1>4. ASSUME tail' = Expiring, s # Expiring
      PROVE  Age(s)' = Age(s) + 1
  <2> DEFINE e == Expiring
  <2>1. Age(s)' = IF s >= e THEN s - e ELSE s - e + Slots
    BY <1>4 DEF Age
  <2> HIDE DEF e
  <2>2. e = (IF tail = 0 THEN Slots - 1 ELSE tail - 1) /\ s # e
    BY <1>2, <1>4 DEF e
  <2>3. (IF s >= e THEN s - e ELSE s - e + Slots)
          = (IF s >= tail THEN s - tail ELSE s - tail + Slots) + 1
    BY <1>1, <2>2
  <2> QED BY <2>1, <2>3 DEF Age
<1> QED BY <1>3, <1>4

LEMMA WheelInitInv == WheelInit => WheelInv
<1> SUFFICES ASSUME WheelInit PROVE WheelInv
  OBVIOUS
<1>1. /\ Slots \in Nat /\ Slots > 0
      /\ 0 \in 0 .. Slots - 1 /\ Slots - 1 \in 0 .. Slots - 1
  BY WheelAssumption
<1>2. 0 \in 0 .. Slots
  BY <1>1
<1>3. WheelTypeOK
  BY <1>1, <1>2 DEF WheelInit, WheelTypeOK
<1>4. \A c \in WheelConns : WheelConnInv(c)
  BY DEF WheelInit, WheelConnInv
<1> QED BY <1>3, <1>4 DEF WheelInv

\* The step of one connection leaves the others' slots.
LEMMA ConnStepKeeps ==
  ASSUME WheelInv, NEW c \in WheelConns,
         AddConnection(c) \/ BytesArrive(c) \/ ClientCloses(c)
  PROVE  WheelInv'
<1>1. /\ WheelTypeOK /\ \A d \in WheelConns : WheelConnInv(d)
      /\ tail' = tail /\ tail \in 0 .. Slots - 1
      /\ Slots \in Nat /\ Slots > 0 /\ 0 \in 0 .. Slots
  BY WheelAssumption
  DEF WheelInv, WheelTypeOK, AddConnection, BytesArrive, ClientCloses
<1>2. \A s \in 0 .. Slots - 1 : Age(s)' = Age(s) /\ Age(s) \in 0 .. Slots - 1
  BY <1>1, Ages DEF Age
<1>3. Age(tail) = 0
  BY <1>1, Ages
<1>4. ASSUME wheel' = [wheel EXCEPT ![tail] = @ \cup {c}]
      PROVE  /\ wheel' \in [0 .. Slots - 1 -> SUBSET WheelConns]
             /\ c \in wheel'[tail]
             /\ \A d \in WheelConns \ {c} : \A s \in 0 .. Slots - 1 :
                  d \in wheel'[s] <=> d \in wheel[s]
             /\ \A s \in 0 .. Slots - 1 :
                  /\ c \in wheel[s] => c \in wheel'[s]
                  /\ c \in wheel'[s] => c \in wheel[s] \/ s = tail
  BY <1>1, <1>4 DEF WheelTypeOK
<1>5. CASE AddConnection(c)
  <2>1. /\ wheelConn[c] = "new" /\ UNCHANGED <<lastUpdate, idle, missed>>
        /\ wheelConn' = [wheelConn EXCEPT ![c] = "connected"]
        /\ wheel' = [wheel EXCEPT ![tail] = @ \cup {c}]
    BY <1>5 DEF AddConnection
  <2>2. WheelTypeOK'
    BY <1>1, <1>4, <2>1 DEF WheelTypeOK
  <2>3. /\ wheelConn'[c] = "connected" /\ idle[c] = 0 /\ ~missed[c]
        /\ \A s \in 0 .. Slots - 1 : c \notin wheel[s]
    BY <1>1, <2>1 DEF WheelConnInv, WheelTypeOK
  <2>4. \A s \in 0 .. Slots - 1 : c \in wheel'[s] => s = tail
    BY <1>4, <2>1, <2>3
  <2>5. WheelConnInv(c)'
    BY <1>1, <1>2, <1>3, <1>4, <2>1, <2>3, <2>4 DEF WheelConnInv
  <2>6. \A d \in WheelConns \ {c} : WheelConnInv(d)'
    <3> SUFFICES ASSUME NEW d \in WheelConns \ {c} PROVE WheelConnInv(d)'
      OBVIOUS
    <3>1. wheelConn'[d] = wheelConn[d] /\ WheelConnInv(d)
      BY <1>1, <2>1 DEF WheelTypeOK
    <3> QED BY <1>2, <1>4, <2>1, <3>1 DEF WheelConnInv
  <2> QED BY <2>2, <2>5, <2>6 DEF WheelInv
<1>6. CASE BytesArrive(c) /\ wheelConn[c] = "connected"
  <2>1. /\ wheelConn' = wheelConn /\ lastUpdate' = tail
        /\ idle' = [idle EXCEPT ![c] = 0]
        /\ missed' = [missed EXCEPT ![c] = c \notin wheel'[tail]]
        /\ wheel' = wheel \/ wheel' = [wheel EXCEPT ![tail] = @ \cup {c}]
    BY <1>6 DEF BytesArrive, Refresh
  <2>2. /\ wheel' \in [0 .. Slots - 1 -> SUBSET WheelConns]
        /\ \A d \in WheelConns \ {c} : \A s \in 0 .. Slots - 1 :
             d \in wheel'[s] <=> d \in wheel[s]
        /\ \A s \in 0 .. Slots - 1 : c \in wheel[s] => c \in wheel'[s]
    <3>1. CASE wheel' = wheel
      BY <1>1, <3>1 DEF WheelTypeOK
    <3>2. CASE wheel' = [wheel EXCEPT ![tail] = @ \cup {c}]
      BY <1>4, <3>2
    <3> QED BY <2>1, <3>1, <3>2
  <2>3. /\ idle' \in [WheelConns -> 0 .. Slots] /\ idle'[c] = 0
        /\ \A d \in WheelConns \ {c} : idle'[d] = idle[d]
    BY <1>1, <2>1 DEF WheelTypeOK
  <2>4. /\ missed' \in [WheelConns -> BOOLEAN]
        /\ missed'[c] <=> c \notin wheel'[tail]
        /\ \A d \in WheelConns \ {c} : missed'[d] = missed[d]
    <3> DEFINE b == c \notin wheel'[tail]
    <3>1. b \in BOOLEAN
      OBVIOUS
    <3>2. missed' = [missed EXCEPT ![c] = b]
      BY <2>1
    <3>3. missed \in [WheelConns -> BOOLEAN]
      BY <1>1 DEF WheelTypeOK
    <3> HIDE DEF b
    <3>4. /\ missed' \in [WheelConns -> BOOLEAN] /\ missed'[c] = b
          /\ \A d \in WheelConns \ {c} : missed'[d] = missed[d]
      BY <3>1, <3>2, <3>3
    <3> QED BY <3>4 DEF b
  <2>5. WheelTypeOK'
    BY <1>1, <2>1, <2>2, <2>3, <2>4 DEF WheelTypeOK
  <2>6. WheelConnInv(c)'
    <3>1. \E s \in 0 .. Slots - 1 : c \in wheel'[s]
      BY <1>1, <1>6, <2>2 DEF WheelConnInv
    <3>2. wheelConn'[c] = "connected"
      BY <1>6, <2>1
    <3> QED BY <1>1, <1>2, <1>3, <2>3, <2>4, <3>1, <3>2 DEF WheelConnInv
  <2>7. \A d \in WheelConns \ {c} : WheelConnInv(d)'
    <3> SUFFICES ASSUME NEW d \in WheelConns \ {c} PROVE WheelConnInv(d)'
      OBVIOUS
    <3>1. /\ WheelConnInv(d) /\ wheelConn'[d] = wheelConn[d]
          /\ idle'[d] = idle[d] /\ missed'[d] = missed[d]
          /\ \A s \in 0 .. Slots - 1 : d \in wheel'[s] <=> d \in wheel[s]
      BY <1>1, <2>1, <2>2, <2>3, <2>4
    <3> QED BY <1>2, <3>1 DEF WheelConnInv
  <2> QED BY <2>5, <2>6, <2>7 DEF WheelInv
<1>7. CASE BytesArrive(c) /\ wheelConn[c] # "connected"
  <2>1. lastUpdate' = 0 /\ UNCHANGED <<wheel, tail, wheelConn, idle, missed>>
    BY <1>7 DEF BytesArrive
  <2>2. 0 \in 0 .. Slots - 1
    BY <1>1
  <2> QED BY <1>1, <1>2, <2>1, <2>2 DEF WheelInv, WheelTypeOK, WheelConnInv
<1>8. CASE ClientCloses(c)
  <2>1. /\ wheelConn' = [wheelConn EXCEPT ![c] = "gone"]
        /\ UNCHANGED <<wheel, tail, lastUpdate, idle, missed>>
    BY <1>8 DEF ClientCloses
  <2>2. /\ wheelConn' \in
             [WheelConns -> {"new", "connected", "disconnecting", "gone"}]
        /\ \A d \in WheelConns : wheelConn'[d] \in {wheelConn[d], "gone"}
    BY <1>1, <2>1 DEF WheelTypeOK
  <2>3. ASSUME NEW d \in WheelConns PROVE WheelConnInv(d)'
    <3>1. WheelConnInv(d) /\ wheelConn'[d] \in {wheelConn[d], "gone"}
      BY <1>1, <2>2
    <3> QED BY <1>2, <2>1, <3>1 DEF WheelConnInv
  <2>4. WheelTypeOK'
    BY <1>1, <2>1, <2>2 DEF WheelTypeOK
  <2> QED BY <2>3, <2>4 DEF WheelInv
<1> QED BY <1>5, <1>6, <1>7, <1>8

\* onTimer() ends the connections that only the oldest slot still held.
LEMMA OnTimerKeeps == WheelInv /\ OnTimer => WheelInv'
<1> SUFFICES ASSUME WheelInv, OnTimer PROVE WheelInv'
  OBVIOUS
<1> DEFINE e == Expiring
           ends == {c \in wheel[e] : \A s \in 0..Slots-1 : c \notin wheel'[s]}
<1>1. /\ WheelTypeOK /\ \A c \in WheelConns : WheelConnInv(c)
      /\ Slots \in Nat /\ Slots > 0
      /\ wheel \in [0 .. Slots - 1 -> SUBSET WheelConns]
  BY WheelAssumption DEF WheelInv, WheelTypeOK
<1>2. /\ wheel' = [wheel EXCEPT ![e] = {}] /\ tail' = e
      /\ wheelConn' = [c \in WheelConns |->
           IF c \in ends /\ wheelConn[c] = "connected" THEN "disconnecting"
           ELSE wheelConn[c]]
      /\ idle' = [c \in WheelConns |->
           IF wheelConn[c] = "connected" THEN idle[c] + 1 ELSE idle[c]]
      /\ UNCHANGED <<lastUpdate, missed>>
  BY DEF OnTimer, Expiring
<1>3. e \in 0 .. Slots - 1
  <2>1. tail \in 0 .. Slots - 1
    BY <1>1 DEF WheelTypeOK
  <2> QED BY <1>1, <2>1, Ages
<1>4. /\ wheel' \in [0 .. Slots - 1 -> SUBSET WheelConns] /\ wheel'[e] = {}
      /\ \A s \in 0 .. Slots - 1 : s # e => wheel'[s] = wheel[s]
  BY <1>1, <1>2, <1>3
<1>5. \A s \in 0 .. Slots - 1 :
        /\ Age(s) \in 0 .. Slots - 1 /\ (Age(s) = Slots - 1 <=> s = e)
        /\ s # e => Age(s)' = Age(s) + 1
  BY <1>1, <1>2, Ages
<1>6. \A c \in WheelConns :
        c \in ends <=> /\ c \in wheel[e]
                       /\ \A s \in 0 .. Slots - 1 : s # e => c \notin wheel[s]
  BY <1>4
<1> HIDE DEF e, ends
<1>7. ASSUME NEW c \in WheelConns, wheelConn[c] = "connected"
      PROVE  idle[c] \in 0 .. Slots - 1
  BY <1>1, <1>5, <1>7 DEF WheelConnInv, WheelTypeOK
<1>8. /\ wheelConn' \in
           [WheelConns -> {"new", "connected", "disconnecting", "gone"}]
      /\ idle' \in [WheelConns -> 0 .. Slots]
  BY <1>1, <1>2, <1>7 DEF WheelTypeOK
<1>9. WheelTypeOK'
  BY <1>1, <1>2, <1>3, <1>4, <1>8 DEF WheelTypeOK
<1>10. ASSUME NEW c \in WheelConns PROVE WheelConnInv(c)'
  <2>1. WheelConnInv(c) /\ missed' = missed
    BY <1>1, <1>2
  <2>2. CASE wheelConn[c] # "connected"
    <3>1. wheelConn'[c] = wheelConn[c] /\ idle'[c] = idle[c]
      BY <1>2, <2>2
    <3> QED BY <1>4, <2>1, <2>2, <3>1 DEF WheelConnInv
  <2>3. CASE wheelConn[c] = "connected" /\ c \notin ends
    <3>1. wheelConn'[c] = "connected" /\ idle'[c] = idle[c] + 1
      BY <1>2, <2>3
    <3>2. PICK s \in 0 .. Slots - 1 : s # e /\ c \in wheel[s]
      BY <1>6, <2>1, <2>3 DEF WheelConnInv
    <3>3. ASSUME NEW k \in 0 .. Slots - 1, c \in wheel'[k]
          PROVE  k # e /\ c \in wheel[k] /\ Age(k)' = Age(k) + 1
      BY <1>4, <1>5, <3>3
    <3>4. \A k \in 0 .. Slots - 1 : c \in wheel'[k] => idle'[c] <= Age(k)'
      BY <1>5, <1>7, <2>1, <2>3, <3>1, <3>3 DEF WheelConnInv
    <3>5. ASSUME ~missed[c]
          PROVE  \E k \in 0 .. Slots - 1 : c \in wheel'[k] /\ Age(k)' = idle'[c]
      <4>1. PICK k \in 0 .. Slots - 1 : c \in wheel[k] /\ Age(k) = idle[c]
        BY <2>1, <2>3, <3>5 DEF WheelConnInv
      <4>2. k # e
        <5>1. /\ Age(s) # Slots - 1 /\ idle[c] <= Age(s)
              /\ Age(s) \in 0 .. Slots - 1
          BY <1>5, <2>1, <2>3, <3>2 DEF WheelConnInv
        <5>2. Age(k) # Slots - 1
          BY <1>1, <1>7, <2>3, <4>1, <5>1
        <5> QED BY <1>5, <5>2
      <4> QED BY <1>4, <1>5, <3>1, <4>1, <4>2
    <3>6. \E k \in 0 .. Slots - 1 : c \in wheel'[k]
      BY <1>4, <3>2
    <3> QED BY <2>1, <3>1, <3>4, <3>5, <3>6 DEF WheelConnInv
  <2>4. CASE wheelConn[c] = "connected" /\ c \in ends
    <3>1. wheelConn'[c] = "disconnecting" /\ idle'[c] = idle[c] + 1
      BY <1>2, <2>4
    <3>2. ASSUME ~missed[c] PROVE idle[c] + 1 = Slots
      <4>1. PICK k \in 0 .. Slots - 1 : c \in wheel[k] /\ Age(k) = idle[c]
        BY <2>1, <2>4, <3>2 DEF WheelConnInv
      <4>2. k = e
        BY <1>6, <2>4, <4>1
      <4> QED BY <1>1, <1>5, <4>1, <4>2
    <3> QED BY <2>1, <3>1, <3>2 DEF WheelConnInv
  <2> QED BY <2>2, <2>3, <2>4
<1> QED BY <1>9, <1>10 DEF WheelInv

LEMMA WheelStep == WheelInv /\ [WheelNext]_wheelVars => WheelInv'
<1> SUFFICES ASSUME WheelInv, [WheelNext]_wheelVars PROVE WheelInv'
  OBVIOUS
<1>1. CASE UNCHANGED wheelVars
  <2>1. \A s : Age(s)' = Age(s)
    BY <1>1 DEF wheelVars, Age
  <2> QED BY <1>1, <2>1 DEF wheelVars, WheelInv, WheelTypeOK, WheelConnInv
<1> QED BY <1>1, ConnStepKeeps, OnTimerKeeps DEF WheelNext

\* A silent connection is shut down by the tick that completes its round of
\* the wheel (TimingWheel.cpp:55), for any connections and any size of the
\* wheel that divides the range of size_t.
THEOREM IdleAlwaysKicked == WheelSpec => []IdleKicked
<1>1. WheelInv => IdleKicked
  <2> SUFFICES ASSUME WheelInv, NEW c \in WheelConns
               PROVE  /\ wheelConn[c] = "connected" => idle[c] < Slots
                      /\ wheelConn[c] = "disconnecting" =>
                           idle[c] = Slots \/ missed[c]
    BY DEF IdleKicked
  <2>1. /\ WheelTypeOK /\ WheelConnInv(c) /\ idle[c] \in 0 .. Slots
        /\ Slots \in Nat
    BY WheelAssumption DEF WheelInv, WheelTypeOK
  <2>2. ASSUME wheelConn[c] = "connected" PROVE idle[c] < Slots
    <3>1. PICK s \in 0 .. Slots - 1 : idle[c] <= Age(s)
      BY <2>1, <2>2 DEF WheelConnInv
    <3>2. Age(s) \in 0 .. Slots - 1
      BY <2>1, Ages
    <3> QED BY <2>1, <3>1, <3>2
  <2> QED BY <2>1, <2>2 DEF WheelConnInv
<1> QED BY <1>1, WheelInitInv, WheelStep, PTL DEF WheelSpec

-----------------------------------------------------------------------------
(* Multiplexer: the pool of ids.                                           *)

\* availIds_ takes an id back: it has each id once as long as the one that
\* comes back was not in it.
LEMMA PoolPush ==
  ASSUME NEW S, NEW s \in Seq(S), NEW e \in S
  PROVE  /\ Append(s, e) \in Seq(S)
         /\ ToSet(Append(s, e)) = ToSet(s) \cup {e}
         /\ IsInjective(s) /\ e \notin ToSet(s) => IsInjective(Append(s, e))
<1>1. /\ Append(s, e) \in Seq(S) /\ Len(Append(s, e)) = Len(s) + 1
      /\ DOMAIN s = 1 .. Len(s) /\ Len(s) \in Nat
      /\ DOMAIN Append(s, e) = 1 .. Len(s) + 1
      /\ \A k \in 1 .. Len(s) : Append(s, e)[k] = s[k]
      /\ Append(s, e)[Len(s) + 1] = e
  BY AppendProperties
<1>2. ToSet(Append(s, e)) = ToSet(s) \cup {e}
  BY <1>1 DEF ToSet
<1>3. ASSUME IsInjective(s), e \notin ToSet(s)
      PROVE  IsInjective(Append(s, e))
  <2>1. \A k \in 1 .. Len(s) : s[k] # e
    BY <1>1, <1>3 DEF ToSet
  <2> QED BY <1>1, <1>3, <2>1 DEF IsInjective
<1> QED BY <1>1, <1>2, <1>3

\* The id a new client gets is out of the pool then.
LEMMA PoolPop ==
  ASSUME NEW S, NEW s \in Seq(S), s # <<>>
  PROVE  /\ Head(s) \in S /\ Tail(s) \in Seq(S) /\ Head(s) \in ToSet(s)
         /\ IsInjective(s) => /\ IsInjective(Tail(s))
                              /\ ToSet(Tail(s)) = ToSet(s) \ {Head(s)}
<1>1. /\ Head(s) \in S /\ Tail(s) \in Seq(S) /\ Len(s) \in Nat /\ Len(s) > 0
      /\ Head(s) = s[1] /\ DOMAIN s = 1 .. Len(s)
      /\ DOMAIN Tail(s) = 1 .. Len(s) - 1
      /\ \A k \in 1 .. Len(s) - 1 : Tail(s)[k] = s[k + 1]
  BY HeadTailProperties
<1>2. ASSUME IsInjective(s)
      PROVE  IsInjective(Tail(s)) /\ ToSet(Tail(s)) = ToSet(s) \ {Head(s)}
  <2>1. IsInjective(Tail(s))
    BY <1>1, <1>2 DEF IsInjective
  <2>2. \A k \in 1 .. Len(s) - 1 : k + 1 \in DOMAIN s /\ s[k + 1] # s[1]
    BY <1>1, <1>2 DEF IsInjective
  <2>3. \A k \in DOMAIN s : k = 1 \/ (k - 1 \in 1 .. Len(s) - 1
                                        /\ Tail(s)[k - 1] = s[k])
    BY <1>1
  <2>4. ToSet(Tail(s)) \subseteq ToSet(s) \ {Head(s)}
    <3> SUFFICES ASSUME NEW k \in 1 .. Len(s) - 1
                 PROVE  Tail(s)[k] \in ToSet(s) \ {Head(s)}
      BY <1>1 DEF ToSet
    <3>1. Tail(s)[k] = s[k + 1] /\ s[k + 1] # s[1] /\ k + 1 \in DOMAIN s
      BY <1>1, <2>2
    <3> QED BY <1>1, <3>1 DEF ToSet
  <2>5. ToSet(s) \ {Head(s)} \subseteq ToSet(Tail(s))
    <3> SUFFICES ASSUME NEW k \in DOMAIN s, s[k] # Head(s)
                 PROVE  s[k] \in ToSet(Tail(s))
      BY DEF ToSet
    <3>1. k - 1 \in DOMAIN Tail(s) /\ Tail(s)[k - 1] = s[k]
      BY <1>1, <2>3
    <3> QED BY <3>1 DEF ToSet
  <2> QED BY <2>1, <2>4, <2>5
<1>3. Head(s) \in ToSet(s)
  <2>1. 1 \in DOMAIN s
    BY <1>1
  <2> QED BY <1>1, <2>1 DEF ToSet
<1> QED BY <1>1, <1>2, <1>3

-----------------------------------------------------------------------------
(* Multiplexer: the inductive invariant.                                   *)

\* A frame names its client by the id the client has had.
Frame == [id : Ids, type : {"CONN", "MSG", "DISCONN"}, client : MuxClients]
RightFrame == {f \in Frame : context[f.client] = f.id}

\* The typing, and that contexts, once given, tell what every frame and the
\* backend mean by an id; without a backend nothing is under way.
MuxBase ==
  /\ muxConn \in [MuxClients -> {"new", "connected", "disconnecting", "down"}]
  /\ context \in [MuxClients -> Ids \cup {NoId}]
  /\ clientOf \in [Ids -> Somebody] /\ known \in [Ids -> Somebody]
  /\ told \in [Ids -> Somebody] /\ availIds \in Seq(Ids)
  /\ backend \in {"new", "up", "down"}
  /\ {stale, strayed, crossed} \subseteq BOOLEAN
  /\ toBackend \in Seq(RightFrame) /\ toMux \in Seq(RightFrame)
  /\ \A i \in Ids : known[i] # Nobody => context[known[i]] = i
  /\ \A c \in MuxClients : muxConn[c] = "new" => context[c] = NoId
  /\ backend # "up" => toBackend = <<>> /\ toMux = <<>>
  /\ backend = "new" =>
       /\ availIds = <<>> /\ \A i \in Ids : clientOf[i] = Nobody
       /\ \A c \in MuxClients : context[c] = NoId /\ muxConn[c] # "connected"

\* The pool against the clients, while there is a backend.
PoolAgrees ==
  /\ IsInjective(availIds)
  /\ \A i \in Ids : i \in ToSet(availIds) <=> clientOf[i] = Nobody
  /\ \A i \in Ids : \A c \in MuxClients : clientOf[i] = c =>
       context[c] = i /\ muxConn[c] \in {"connected", "disconnecting"}

\* A client keeps its id until it or the backend ends the connection, and
\* whoever has an id is the one the backend was told of last.
IdsHeld ==
  /\ \A c \in MuxClients : muxConn[c] = "connected" =>
       context[c] \in Ids /\ clientOf[context[c]] = c
  /\ \A i \in Ids : clientOf[i] # Nobody => told[i] = clientOf[i]

MuxInv ==
  /\ MuxBase
  /\ ~stale => /\ strayed = FALSE /\ crossed = FALSE
               /\ backend = "up" => PoolAgrees /\ IdsHeld

\* sendBackendPacket(): what is under way stays right, and the backend is told.
LEMMA SendBackendRight ==
  ASSUME MuxBase, RightFrame \subseteq RightFrame', NEW id \in Ids,
         NEW type \in {"CONN", "MSG", "DISCONN"}, NEW c \in MuxClients,
         [id |-> id, type |-> type, client |-> c] \in RightFrame', NEW n \in Nat,
         SendBackend(id, type, c, n)
  PROVE  /\ toBackend' \in Seq(RightFrame') /\ (backend # "up" => toBackend' = toBackend)
         /\ told' \in [Ids -> Somebody] /\ strayed' \in BOOLEAN
         /\ backend = "up" =>
              /\ \A i \in Ids \ {id} : told'[i] = told[i]
              /\ type = "MSG" => told'[id] = told[id]
              /\ type = "CONN" => told'[id] = c
              /\ type = "DISCONN" => told'[id] = Nobody
         /\ strayed = FALSE /\ (type # "CONN" /\ backend = "up" => told[id] = c) =>
              strayed' = FALSE
<1> USE DEF MuxBase, Somebody
<1>1. toBackend \in Seq(RightFrame')
  <2>1. toBackend \in Seq(RightFrame)
    OBVIOUS
  <2> HIDE DEF MuxBase
  <2> QED BY <2>1
<1>2. CASE backend # "up"
  BY <1>1, <1>2 DEF SendBackend
<1>3. CASE backend = "up"
  <2> DEFINE frame == [id |-> id, type |-> type, client |-> c]
             flight == [k \in 1 .. n |-> frame]
  <2>1. toBackend' = toBackend \o flight
    BY <1>3 DEF SendBackend
  <2>2. frame \in RightFrame'
    OBVIOUS
  <2> HIDE DEF frame
  <2>3. flight \in Seq(RightFrame')
    BY <2>2
  <2> HIDE DEF flight
  <2>4. toBackend' \in Seq(RightFrame')
    BY <1>1, <2>1, <2>3, ConcatProperties
  <2>5. told' = [told EXCEPT ![id] =
            CASE type = "CONN" -> c [] type = "DISCONN" -> Nobody [] OTHER -> @]
    BY <1>3 DEF SendBackend
  <2>6. /\ told' \in [Ids -> Somebody]
        /\ \A i \in Ids \ {id} : told'[i] = told[i]
        /\ type = "MSG" => told'[id] = told[id]
        /\ type = "CONN" => told'[id] = c
        /\ type = "DISCONN" => told'[id] = Nobody
    BY <2>5
  <2>7. /\ strayed' \in BOOLEAN
        /\ strayed = FALSE /\ (type # "CONN" => told[id] = c) => strayed' = FALSE
    BY <1>3 DEF SendBackend
  <2> QED BY <1>3, <2>4, <2>6, <2>7
<1> QED BY <1>2, <1>3

\* A client comes, and takes the oldest id if there is one.
LEMMA ClientUpInv ==
  ASSUME MuxInv, NEW c \in MuxClients, ClientUp(c)
  PROVE  MuxInv'
<1> USE DEF MuxInv, MuxBase
<1>1. CASE availIds = <<>>
  <2>1. UNCHANGED RightFrame
    BY <1>1 DEF ClientUp, RightFrame
  <2>2. /\ muxConn' = [muxConn EXCEPT ![c] = "disconnecting"]
        /\ UNCHANGED <<context, clientOf, availIds, backend, toBackend, toMux,
                       known, stale, told, strayed, crossed>>
    BY <1>1 DEF ClientUp
  <2>3. MuxBase'
    BY <2>1, <2>2
  <2>4. backend = "up" /\ PoolAgrees /\ IdsHeld => PoolAgrees' /\ IdsHeld'
    BY <2>2 DEF PoolAgrees, IdsHeld, ClientUp
  <2> QED BY <2>2, <2>3, <2>4
<1>2. CASE availIds # <<>>
  <2> DEFINE id == Head(availIds)
  <2>1. /\ muxConn[c] = "new" /\ context[c] = NoId /\ backend # "new"
        /\ muxConn' = [muxConn EXCEPT ![c] = "connected"]
        /\ context' = [context EXCEPT ![c] = id]
        /\ clientOf' = [clientOf EXCEPT ![id] = c]
        /\ availIds' = Tail(availIds)
        /\ SendBackend(id, "CONN", c, 1)
        /\ UNCHANGED <<backend, toMux, known, stale, crossed>>
    BY <1>2 DEF ClientUp
  <2>2. /\ id \in Ids /\ Tail(availIds) \in Seq(Ids) /\ id \in ToSet(availIds)
        /\ IsInjective(availIds) =>
             /\ IsInjective(Tail(availIds))
             /\ ToSet(Tail(availIds)) = ToSet(availIds) \ {id}
    BY <1>2, PoolPop
  <2> HIDE DEF id
  <2>3. id # NoId
    BY <2>2, MuxAssumption DEF MuxAssumption, Ids, NoId
  <2>4. RightFrame \subseteq RightFrame'
    BY <2>1, <2>2, <2>3, MuxAssumption DEF RightFrame, Frame, MuxAssumption, Ids, NoId
  <2>5. [id |-> id, type |-> "CONN", client |-> c] \in RightFrame'
    BY <2>1, <2>2 DEF RightFrame, Frame
  <2>6. /\ toBackend' \in Seq(RightFrame')
        /\ (backend # "up" => toBackend' = toBackend)
        /\ told' \in [Ids -> Somebody] /\ strayed' \in BOOLEAN
        /\ \A i \in Ids : backend = "up" =>
             told'[i] = IF i # id THEN told[i] ELSE c
        /\ strayed = FALSE => strayed' = FALSE
    <3>1. MuxBase /\ 1 \in Nat /\ "CONN" \in {"CONN", "MSG", "DISCONN"}
      OBVIOUS
    <3> HIDE DEF MuxInv, MuxBase
    <3> QED BY <2>1, <2>2, <2>4, <2>5, <3>1, SendBackendRight
  <2>7. toMux' \in Seq(RightFrame')
    <3>1. toMux \in Seq(RightFrame)
      OBVIOUS
    <3> HIDE DEF MuxInv, MuxBase
    <3> QED BY <2>1, <2>4, <3>1
  <2>8. MuxBase'
    <3>1. \A i \in Ids : known[i] # Nobody => known[i] # c
      BY <2>1, MuxAssumption DEF MuxAssumption, Ids, NoId
    <3> QED BY <2>1, <2>2, <2>3, <2>6, <2>7, <3>1 DEF Somebody
  <2>9. ASSUME backend = "up", PoolAgrees, IdsHeld
        PROVE  PoolAgrees' /\ IdsHeld'
    <3>1. clientOf[id] = Nobody /\ c # Nobody
      BY <2>2, <2>9, MuxAssumption DEF PoolAgrees, MuxAssumption
    <3>2. PoolAgrees'
      BY <2>1, <2>2, <2>9, <3>1 DEF PoolAgrees
    <3>3. IdsHeld'
      BY <2>1, <2>2, <2>6, <2>9, <3>1, MuxAssumption
         DEF IdsHeld, MuxAssumption
    <3> QED BY <3>2, <3>3
  <2> QED BY <2>1, <2>6, <2>8, <2>9
<1> QED BY <1>1, <1>2

\* A client's message: under its id, unless the backend has returned that.
LEMMA ClientMessageInv ==
  ASSUME MuxInv, NEW c \in MuxClients, NEW n \in {1, 2}, ClientMessage(c, n)
  PROVE  MuxInv'
<1> USE DEF MuxInv, MuxBase
<1> DEFINE id == context[c]
<1>1. /\ id \in Ids /\ SendBackend(id, "MSG", c, n) /\ ActsStale(c)
      /\ UNCHANGED <<muxConn, context, clientOf, availIds, backend, toMux,
                     known, crossed>>
  BY DEF ClientMessage
<1>2. UNCHANGED RightFrame
  BY <1>1 DEF RightFrame
<1>3. [id |-> id, type |-> "MSG", client |-> c] \in RightFrame
  BY <1>1 DEF RightFrame, Frame
<1>4. /\ toBackend' \in Seq(RightFrame)
      /\ (backend # "up" => toBackend' = toBackend)
      /\ told' \in [Ids -> Somebody] /\ strayed' \in BOOLEAN
      /\ \A i \in Ids : backend = "up" => told'[i] = told[i]
      /\ strayed = FALSE /\ (backend = "up" => told[id] = c) => strayed' = FALSE
  <2>1. MuxBase /\ n \in Nat /\ "MSG" \in {"CONN", "MSG", "DISCONN"}
    OBVIOUS
  <2> HIDE DEF MuxInv, MuxBase, id
  <2> QED BY <1>1, <1>2, <1>3, <2>1, SendBackendRight
<1>5. stale' \in BOOLEAN
      /\ (~stale' => ~stale /\ (backend = "up" => clientOf[id] = c))
  BY DEF ActsStale, ClientMessage
<1>6. MuxBase'
  BY <1>1, <1>2, <1>4, <1>5
<1>7. ASSUME ~stale', backend = "up"
      PROVE  told[id] = c /\ PoolAgrees' /\ IdsHeld'
  BY <1>1, <1>4, <1>5, <1>7, MuxAssumption
     DEF PoolAgrees, IdsHeld, MuxAssumption
<1> QED BY <1>1, <1>4, <1>5, <1>6, <1>7

\* A client goes, and its id comes back: once, unless the backend has returned
\* it before.
LEMMA ClientDownInv ==
  ASSUME MuxInv, NEW c \in MuxClients, ClientDown(c)
  PROVE  MuxInv'
<1> USE DEF MuxInv, MuxBase
<1>1. /\ muxConn' = [muxConn EXCEPT ![c] = "down"] /\ muxConn[c] # "new"
      /\ UNCHANGED <<context, backend, toMux, known, crossed>>
  BY DEF ClientDown
<1>2. UNCHANGED RightFrame
  BY <1>1 DEF RightFrame
<1>3. CASE context[c] = NoId
  <2>1. UNCHANGED <<clientOf, availIds, toBackend, told, strayed, stale>>
    BY <1>3 DEF ClientDown
  <2>2. MuxBase'
    BY <1>1, <1>2, <2>1
  <2>3. backend = "up" /\ PoolAgrees /\ IdsHeld => PoolAgrees' /\ IdsHeld'
    <3>1. \A i \in Ids : i # NoId
      BY MuxAssumption DEF MuxAssumption, Ids, NoId
    <3> QED BY <1>1, <1>3, <2>1, <3>1 DEF PoolAgrees, IdsHeld
  <2> QED BY <1>1, <2>1, <2>2, <2>3
<1>4. CASE context[c] # NoId
  <2> DEFINE id == context[c]
  <2>1. /\ id \in Ids /\ SendBackend(id, "DISCONN", c, 1)
        /\ availIds' = Append(availIds, id)
        /\ clientOf' = [clientOf EXCEPT ![id] = Nobody]
        /\ backend # "new"
    BY <1>4 DEF ClientDown, GiveBack
  <2>2. stale' \in BOOLEAN
        /\ (~stale' => ~stale /\ (backend = "up" => clientOf[id] = c))
    BY <1>4 DEF ActsStale, ClientDown
  <2>3. [id |-> id, type |-> "DISCONN", client |-> c] \in RightFrame
    BY <2>1 DEF RightFrame, Frame
  <2>4. /\ toBackend' \in Seq(RightFrame)
        /\ (backend # "up" => toBackend' = toBackend)
        /\ told' \in [Ids -> Somebody] /\ strayed' \in BOOLEAN
        /\ \A i \in Ids : backend = "up" =>
             told'[i] = IF i # id THEN told[i] ELSE Nobody
        /\ strayed = FALSE /\ (backend = "up" => told[id] = c) =>
             strayed' = FALSE
    <3>1. MuxBase /\ 1 \in Nat /\ "DISCONN" \in {"CONN", "MSG", "DISCONN"}
      OBVIOUS
    <3> HIDE DEF MuxInv, MuxBase, id
    <3> QED BY <1>2, <2>1, <2>3, <3>1, SendBackendRight
  <2>5. /\ availIds' \in Seq(Ids) /\ ToSet(availIds') = ToSet(availIds) \cup {id}
        /\ IsInjective(availIds) /\ id \notin ToSet(availIds) =>
             IsInjective(availIds')
    <3>1. availIds \in Seq(Ids)
      OBVIOUS
    <3> HIDE DEF MuxInv, MuxBase, id
    <3> QED BY <2>1, <3>1, PoolPush
  <2> HIDE DEF id
  <2>6. MuxBase'
    BY <1>1, <1>2, <2>1, <2>2, <2>4, <2>5 DEF Somebody
  <2>7. ASSUME ~stale', backend = "up"
        PROVE  told[id] = c /\ PoolAgrees' /\ IdsHeld'
    <3>1. PoolAgrees /\ IdsHeld /\ clientOf[id] = c /\ c # Nobody
      BY <2>2, <2>7, MuxAssumption DEF MuxAssumption
    <3>2. id \notin ToSet(availIds)
      BY <2>1, <3>1 DEF PoolAgrees
    <3>3. PoolAgrees'
      BY <1>1, <2>1, <2>5, <3>1, <3>2, MuxAssumption
         DEF PoolAgrees, MuxAssumption, id
    <3>4. IdsHeld' /\ told[id] = c
      BY <1>1, <2>1, <2>4, <2>7, <3>1, MuxAssumption
         DEF IdsHeld, MuxAssumption, id
    <3> QED BY <3>3, <3>4
  <2> QED BY <1>1, <2>2, <2>4, <2>6, <2>7
<1> QED BY <1>3, <1>4

\* The backend is there: every id is free.
LEMMA BackendUpInv ==
  ASSUME MuxInv, BackendUp
  PROVE  MuxInv'
<1> USE DEF MuxInv, MuxBase
<1> DEFINE ids == [k \in 1 .. MaxConns |-> k - 1]
<1>1. /\ backend' = "up" /\ availIds' = availIds \o ids /\ availIds = <<>>
      /\ backend = "new"
      /\ UNCHANGED <<muxConn, context, clientOf, toBackend, toMux, known,
                     stale, told, strayed, crossed>>
  BY DEF BackendUp
<1>2. UNCHANGED RightFrame
  BY <1>1 DEF RightFrame
<1>3. /\ ids \in Seq(Ids) /\ IsInjective(ids) /\ ToSet(ids) = Ids
  <2>1. \A k \in 1 .. MaxConns : k - 1 \in Ids
    BY MuxAssumption DEF MuxAssumption, Ids
  <2>2. ids \in Seq(Ids)
    BY <2>1, MuxAssumption DEF MuxAssumption
  <2>3. IsInjective(ids)
    BY MuxAssumption DEF MuxAssumption, IsInjective
  <2>4. ASSUME NEW i \in Ids
        PROVE  i \in ToSet(ids)
    <3>1. i + 1 \in 1 .. MaxConns /\ ids[i + 1] = i
      BY MuxAssumption DEF MuxAssumption, Ids
    <3> QED BY <3>1 DEF ToSet
  <2>5. ToSet(ids) \subseteq Ids
    BY <2>1 DEF ToSet
  <2> QED BY <2>2, <2>3, <2>4, <2>5
<1> HIDE DEF ids
<1>4. availIds' = ids
  BY <1>1, <1>3
<1>5. MuxBase'
  BY <1>1, <1>2, <1>3, <1>4
<1>6. PoolAgrees' /\ IdsHeld'
  BY <1>1, <1>3, <1>4, MuxAssumption
     DEF PoolAgrees, IdsHeld, MuxAssumption
<1> QED BY <1>1, <1>5, <1>6

\* The backend has gone: whoever has an id is shut down.
LEMMA BackendDownInv ==
  ASSUME MuxInv, BackendDown
  PROVE  MuxInv'
<1> USE DEF MuxInv, MuxBase
<1>1. /\ backend' = "down" /\ toBackend' = <<>> /\ toMux' = <<>>
      /\ availIds' = <<>> /\ clientOf' = [i \in Ids |-> Nobody]
      /\ muxConn' = [c \in MuxClients |->
           IF c \in Range(clientOf) THEN Ended(muxConn[c]) ELSE muxConn[c]]
      /\ UNCHANGED <<context, known, stale, told, strayed, crossed>>
  BY DEF BackendDown
<1>2. UNCHANGED RightFrame
  BY <1>1 DEF RightFrame
<1>3. <<>> \in Seq(RightFrame) /\ <<>> \in Seq(Ids)
  OBVIOUS
<1>4. /\ muxConn' \in
           [MuxClients -> {"new", "connected", "disconnecting", "down"}]
      /\ \A c \in MuxClients : muxConn'[c] = "new" => muxConn[c] = "new"
  BY <1>1 DEF Ended
<1>5. MuxBase'
  BY <1>1, <1>2, <1>3, <1>4 DEF Somebody
<1> QED BY <1>1, <1>5

\* A frame of the backend: a disconnected client's id comes back at once.
LEMMA BackendMessageInv ==
  ASSUME MuxInv, BackendMessage
  PROVE  MuxInv'
<1> DEFINE f == Head(toMux)
           c == clientOf[f.id]
<1>1. f \in RightFrame /\ Tail(toMux) \in Seq(RightFrame)
  <2>1. toMux \in Seq(RightFrame) /\ toMux # <<>>
    BY DEF MuxInv, MuxBase, BackendMessage
  <2> QED BY <2>1, HeadTailProperties
<1>2. /\ f.id \in Ids /\ f.client \in MuxClients /\ context[f.client] = f.id
      /\ c \in Somebody
  BY <1>1 DEF RightFrame, Frame, MuxInv, MuxBase
<1>3. /\ toMux' = Tail(toMux) /\ backend = "up"
      /\ UNCHANGED <<context, backend, toBackend, known, stale, told, strayed>>
  BY DEF BackendMessage, MuxInv, MuxBase
<1>4. UNCHANGED RightFrame
  BY <1>3 DEF RightFrame
<1>5. CASE f.type = "MSG"
  <2>1. /\ crossed' =
             (crossed \/ (c # f.client /\ muxConn[f.client] = "connected"))
        /\ UNCHANGED <<muxConn, clientOf, availIds>>
    BY <1>5 DEF BackendMessage
  <2>2. ~stale => crossed' = FALSE
    <3>1. ~stale => crossed = FALSE /\ IdsHeld
      BY <1>3 DEF MuxInv
    <3> QED BY <1>2, <2>1, <3>1 DEF IdsHeld
  <2>3. crossed' \in BOOLEAN
    BY <2>1 DEF MuxInv, MuxBase
  <2> HIDE DEF f, c
  <2>4. MuxBase'
    BY <1>1, <1>3, <1>4, <2>1, <2>3 DEF MuxInv, MuxBase
  <2> QED BY <1>3, <2>1, <2>2, <2>4 DEF MuxInv, PoolAgrees, IdsHeld
<1>6. CASE f.type = "DISCONN" /\ c # Nobody
  <2>1. /\ muxConn' = [muxConn EXCEPT ![c] = Ended(@)]
        /\ availIds' = Append(availIds, f.id)
        /\ clientOf' = [clientOf EXCEPT ![f.id] = Nobody]
        /\ crossed' = crossed
    BY <1>6 DEF BackendMessage, GiveBack
  <2>2. /\ availIds' \in Seq(Ids)
        /\ ToSet(availIds') = ToSet(availIds) \cup {f.id}
        /\ IsInjective(availIds) /\ f.id \notin ToSet(availIds) =>
             IsInjective(availIds')
    <3>1. availIds \in Seq(Ids)
      BY DEF MuxInv, MuxBase
    <3> QED BY <1>2, <2>1, <3>1, PoolPush
  <2>3. c \in MuxClients
    BY <1>2, <1>6 DEF Somebody
  <2>4. /\ muxConn' \in
             [MuxClients -> {"new", "connected", "disconnecting", "down"}]
        /\ \A d \in MuxClients :
             /\ muxConn'[d] = "new" => muxConn[d] = "new"
             /\ muxConn'[d] = "connected" => muxConn[d] = "connected" /\ d # c
             /\ muxConn[d] \in {"connected", "disconnecting"} =>
                  muxConn'[d] \in {"connected", "disconnecting"}
    BY <2>1, <2>3 DEF Ended, MuxInv, MuxBase
  <2>5. ~stale => PoolAgrees' /\ IdsHeld'
    <3> SUFFICES ASSUME ~stale, PoolAgrees, IdsHeld
                 PROVE  PoolAgrees' /\ IdsHeld'
      BY <1>3 DEF MuxInv
    <3>1. f.id \notin ToSet(availIds)
      BY <1>2, <1>6 DEF PoolAgrees
    <3>2. clientOf \in [Ids -> Somebody]
      BY DEF MuxInv, MuxBase
    <3>3. PoolAgrees'
      BY <1>2, <1>3, <2>1, <2>2, <2>4, <3>1, <3>2, MuxAssumption
         DEF PoolAgrees, MuxAssumption
    <3>4. IdsHeld'
      BY <1>2, <1>3, <2>1, <2>4, <3>2, MuxAssumption
         DEF IdsHeld, MuxAssumption
    <3> QED BY <3>3, <3>4
  <2> HIDE DEF f, c
  <2>6. MuxBase'
    BY <1>1, <1>2, <1>3, <1>4, <2>1, <2>2, <2>4 DEF MuxInv, MuxBase, Somebody
  <2> QED BY <1>3, <2>1, <2>5, <2>6 DEF MuxInv
<1>7. CASE ~(f.type = "MSG") /\ ~(f.type = "DISCONN" /\ c # Nobody)
  <2>1. UNCHANGED <<muxConn, clientOf, availIds, crossed>>
    BY <1>7 DEF BackendMessage
  <2> HIDE DEF f, c
  <2> QED BY <1>1, <1>3, <1>4, <2>1 DEF MuxInv, MuxBase, PoolAgrees, IdsHeld
<1> QED BY <1>5, <1>6, <1>7

\* The backend hears of a client, or tells one something.
LEMMA BackendStepInv ==
  ASSUME MuxInv,
         \/ BackendReads
         \/ \E id \in Ids, type \in {"MSG", "DISCONN"} : BackendSends(id, type)
  PROVE  MuxInv'
<1>1. /\ UNCHANGED <<muxConn, context, clientOf, availIds, backend, stale, told,
                     strayed, crossed>>
  BY DEF BackendReads, BackendSends
<1>2. UNCHANGED RightFrame
  BY <1>1 DEF RightFrame
<1>3. CASE BackendReads
  <2> DEFINE f == Head(toBackend)
  <2>1. f \in RightFrame /\ Tail(toBackend) \in Seq(RightFrame)
    <3>1. toBackend \in Seq(RightFrame) /\ toBackend # <<>>
      BY <1>3 DEF MuxInv, MuxBase, BackendReads
    <3> QED BY <3>1, HeadTailProperties
  <2>2. f.id \in Ids /\ f.client \in MuxClients /\ context[f.client] = f.id
    BY <2>1 DEF RightFrame, Frame
  <2>3. /\ toBackend' = Tail(toBackend) /\ toMux' = toMux /\ backend = "up"
        /\ known' = [known EXCEPT ![f.id] =
             CASE f.type = "CONN" -> f.client
               [] f.type = "DISCONN" -> Nobody
               [] OTHER -> @]
    BY <1>3 DEF BackendReads, MuxInv, MuxBase
  <2>4. /\ known' \in [Ids -> Somebody]
        /\ \A i \in Ids : known'[i] # Nobody => context[known'[i]] = i
    BY <2>2, <2>3 DEF MuxInv, MuxBase, Somebody
  <2> HIDE DEF f
  <2> QED BY <1>1, <1>2, <2>1, <2>3, <2>4
          DEF MuxInv, MuxBase, PoolAgrees, IdsHeld
<1>4. ASSUME NEW id \in Ids, NEW type \in {"MSG", "DISCONN"},
             BackendSends(id, type)
      PROVE  MuxInv'
  <2> DEFINE f == [id |-> id, type |-> type, client |-> known[id]]
  <2>1. /\ backend = "up" /\ known[id] # Nobody /\ toMux' = Append(toMux, f)
        /\ known' = IF type = "MSG" THEN known
                    ELSE [known EXCEPT ![id] = Nobody]
        /\ toBackend' = toBackend
    BY <1>4 DEF BackendSends
  <2>2. known[id] \in MuxClients /\ context[known[id]] = id
    BY <2>1 DEF MuxInv, MuxBase, Somebody
  <2>3. f \in RightFrame
    BY <2>2 DEF RightFrame, Frame
  <2>4. toMux' \in Seq(RightFrame)
    <3>1. toMux \in Seq(RightFrame)
      BY DEF MuxInv, MuxBase
    <3> HIDE DEF f
    <3> QED BY <2>1, <2>3, <3>1, PoolPush
  <2>5. /\ known' \in [Ids -> Somebody]
        /\ \A i \in Ids : known'[i] # Nobody => context[known'[i]] = i
    BY <2>1 DEF MuxInv, MuxBase, Somebody
  <2> HIDE DEF f
  <2> QED BY <1>1, <1>2, <2>1, <2>4, <2>5
          DEF MuxInv, MuxBase, PoolAgrees, IdsHeld
<1> QED BY <1>3, <1>4

\* While a client acts under its own id, availIds_ and clientConnections_ are
\* two halves of the ids, and nothing goes to a client it is not meant for: for
\* any number of clients and ids (Multiplexer.cpp:40, :69, :156, :210).
THEOREM MuxAlwaysRight == MuxSpec => []MuxRight
<1>1. MuxInit => MuxInv
  <2> SUFFICES ASSUME MuxInit PROVE MuxInv
    OBVIOUS
  <2>1. <<>> \in Seq(RightFrame) /\ <<>> \in Seq(Ids)
    OBVIOUS
  <2> QED BY <2>1 DEF MuxInit, MuxInv, MuxBase, Somebody
<1>2. MuxInv /\ [MuxNext]_muxVars => MuxInv'
  <2> SUFFICES ASSUME MuxInv, [MuxNext]_muxVars PROVE MuxInv'
    OBVIOUS
  <2>1. CASE LoopEnds \/ UNCHANGED muxVars
    <3>1. UNCHANGED <<muxConn, context, clientOf, availIds, backend, toBackend,
                      toMux, known, stale, told, strayed, crossed>>
      BY <2>1 DEF LoopEnds, muxVars
    <3>2. UNCHANGED RightFrame
      BY <3>1 DEF RightFrame
    <3> QED BY <3>1, <3>2 DEF MuxInv, MuxBase, PoolAgrees, IdsHeld
  <2> QED BY <2>1, ClientUpInv, ClientDownInv, ClientMessageInv, BackendUpInv,
             BackendDownInv, BackendMessageInv, BackendStepInv DEF MuxNext
<1>3. MuxInv => MuxRight
  BY DEF MuxInv, MuxRight, PoolAgrees
<1> QED BY <1>1, <1>2, <1>3, PTL DEF MuxSpec

-----------------------------------------------------------------------------
(* Streams: what is on its way between two programs.                       *)

\* The sequence s is what f has behind its first k places.
From(f, s, k) == \A i \in 1 .. Len(s) : s[i] = f[k + i]

\* Two pieces that follow each other are one.
LEMMA FromConcat ==
  ASSUME NEW f, NEW s \in Seq(Int), NEW t \in Seq(Int), NEW k \in Nat,
         From(f, s, k), From(f, t, k + Len(s))
  PROVE  /\ s \o t \in Seq(Int) /\ Len(s \o t) = Len(s) + Len(t)
         /\ From(f, s \o t, k)
<1>1. /\ s \o t \in Seq(Int) /\ Len(s \o t) = Len(s) + Len(t)
      /\ \A i \in 1 .. Len(s) + Len(t) :
           (s \o t)[i] = IF i <= Len(s) THEN s[i] ELSE t[i - Len(s)]
  BY ConcatProperties
<1>2. Len(s) \in Nat /\ Len(t) \in Nat
  OBVIOUS
<1>3. ASSUME NEW i \in 1 .. Len(s) + Len(t)
      PROVE  (s \o t)[i] = f[k + i]
  <2>1. CASE i <= Len(s)
    <3>1. i \in 1 .. Len(s)
      BY <1>2, <2>1
    <3> QED BY <1>1, <2>1, <3>1 DEF From
  <2>2. CASE ~(i <= Len(s))
    <3>1. i - Len(s) \in 1 .. Len(t) /\ k + Len(s) + (i - Len(s)) = k + i
      BY <1>2, <2>2
    <3>2. t[i - Len(s)] = f[k + Len(s) + (i - Len(s))]
      BY <3>1 DEF From
    <3> QED BY <1>1, <2>2, <3>1, <3>2
  <2> QED BY <2>1, <2>2
<1> QED BY <1>1, <1>3 DEF From

\* The two parts of a piece.
LEMMA FromSplit ==
  ASSUME NEW f, NEW s \in Seq(Int), NEW k \in Nat, From(f, s, k),
         NEW n \in 0 .. Len(s)
  PROVE  /\ SubSeq(s, 1, n) \in Seq(Int) /\ Len(SubSeq(s, 1, n)) = n
         /\ From(f, SubSeq(s, 1, n), k)
         /\ SubSeq(s, n + 1, Len(s)) \in Seq(Int)
         /\ Len(SubSeq(s, n + 1, Len(s))) = Len(s) - n
         /\ From(f, SubSeq(s, n + 1, Len(s)), k + n)
<1> DEFINE l == Len(s)
<1>1. l \in Nat /\ n \in Nat /\ n <= l
  OBVIOUS
<1>2. SubSeq(s, 1, n) \in Seq(Int) /\ SubSeq(s, n + 1, l) \in Seq(Int)
  BY SplitAt
<1>3. \A i \in 1 .. l : s[i] \in Int
  OBVIOUS
<1> HIDE DEF l
<1>4. /\ Len(SubSeq(s, 1, n)) = n
      /\ \A i \in 1 .. n : SubSeq(s, 1, n)[i] = s[i]
  BY <1>1, <1>3, SubSeqProperties
<1>5. Len(SubSeq(s, n + 1, l)) = l - n
  BY <1>1, <1>3, SubSeqProperties
<1>6. ASSUME NEW i \in 1 .. l - n
      PROVE  SubSeq(s, n + 1, l)[i] = s[n + i]
  BY <1>1, <1>3, SubSeqProperties
<1>7. From(f, SubSeq(s, 1, n), k)
  <2>1. \A i \in 1 .. n : i \in 1 .. l
    BY <1>1
  <2> QED BY <1>4, <2>1 DEF From, l
<1>8. From(f, SubSeq(s, n + 1, l), k + n)
  <2>1. ASSUME NEW i \in 1 .. l - n PROVE SubSeq(s, n + 1, l)[i] = f[(k + n) + i]
    <3>1. n + i \in 1 .. l /\ k + (n + i) = (k + n) + i
      BY <1>1
    <3> QED BY <1>6, <3>1 DEF From, l
  <2> QED BY <1>5, <2>1 DEF From
<1> QED BY <1>2, <1>4, <1>5, <1>7, <1>8 DEF l

\* A sequence that agrees with another for its own length begins it.
LEMMA PrefixOf ==
  ASSUME NEW s \in Seq(Int), NEW t \in Seq(Int), Len(s) <= Len(t),
         \A i \in 1 .. Len(s) : s[i] = t[i]
  PROVE  IsPrefix(s, t)
<1> DEFINE l == Len(s)  u == SubSeq(t, 1, l)
<1>1. l \in Nat /\ Len(t) \in Nat
  OBVIOUS
<1>2. u \in Seq(Int) /\ Len(u) = l /\ \A i \in 1 .. l : u[i] = t[i]
  BY <1>1, SubSeqProperties
<1> HIDE DEF u
<1>3. s = u
  BY <1>2, SeqEqual
<1>4. SubSeq(s, 1, Len(s)) = s
  BY SubSeqFull
<1> QED BY <1>3, <1>4 DEF IsPrefix, u

-----------------------------------------------------------------------------
(* Sock4aServer: the inductive invariant.                                  *)

\* What the client sends, and what it is answered.
Requested == [i \in Nat |-> IF i <= 2 THEN -i ELSE i - 2]
Replied == [i \in Nat |-> IF i = 1 THEN Granted ELSE i - 1]

SocksTypes ==
  /\ sSide \in {"connected", "disconnecting", "down"}
  /\ tSide \in {"none", "connecting", "connected", "disconnecting", "down"}
  /\ clientSent \in Nat /\ clientSent <= MaxData + 2
  /\ targetSent \in Nat /\ targetSent <= MaxData
  /\ sIn \in Seq(Int) /\ tOut \in Seq(Int) /\ toTarget \in Seq(Int)
  /\ sOut \in Seq(Int) /\ toClient \in Seq(Int)
  /\ requestOk \in BOOLEAN /\ sRead \in BOOLEAN /\ tRead \in BOOLEAN
  /\ linked \in BOOLEAN /\ late \in BOOLEAN /\ early \in BOOLEAN

\* The way to the target: before there is a context the bytes are in the
\* client's buffer, the request with them until it is understood.
ToTargetInv ==
  /\ linked <=> tSide \notin {"none", "connecting"}
  /\ tSide = "none" => Len(sIn) = clientSent /\ From(Requested, sIn, 0)
  /\ ~linked => toTarget = <<>> /\ tOut = <<>>
  /\ ~linked /\ ~early => clientSent <= 2
  /\ linked /\ tSide = "connected" /\ ~early => sIn = <<>>
  /\ From(Requested, toTarget, 2)
  /\ From(Requested, tOut, 2 + Len(toTarget))
  /\ Len(toTarget) + Len(tOut) <= MaxData
  /\ tSide \in {"connecting", "connected"} =>
       /\ 2 + Len(toTarget) + Len(tOut) + Len(sIn) = clientSent
       /\ From(Requested, sIn, 2 + Len(toTarget) + Len(tOut))

\* The way to the client.
ToClientInv ==
  /\ tSide # "none" => requestOk
  /\ ~linked => targetSent = 0
  /\ ~linked =>
       \/ toClient = <<>> /\ sOut = <<>>
       \/ /\ ~requestOk /\ sSide # "connected"
          /\ \/ toClient = <<Rejected>> /\ sOut = <<>>
             \/ toClient = <<>> /\ sOut = <<Rejected>>
  /\ linked =>
       /\ From(Replied, toClient, 0)
       /\ From(Replied, sOut, Len(toClient))
       /\ Len(toClient) + Len(sOut) <= targetSent + 1
       /\ sSide = "connected" => Len(toClient) + Len(sOut) = targetSent + 1

\* The two connections against each other.
SidesInv ==
  /\ sSide # "down" /\ ~sRead => sOut # <<>>
  /\ tSide \in {"connected", "disconnecting"} /\ ~tRead => tOut # <<>>
  /\ sSide = "down" /\ tSide = "connected" => late
  /\ ~linked => tRead
  /\ tSide = "down" => sSide # "connected"
  /\ socks = "crashed" => tSide = "down" /\ sSide = "disconnecting"

SocksInv == SocksTypes /\ ToTargetInv /\ ToClientInv /\ SidesInv

\* What arrives of the client's stream and of the target's.
LEMMA Arrives ==
  ASSUME NEW c \in Nat, NEW n \in Nat, c + n <= MaxData + 2
  PROVE  LET more == SubSeq(Request \o Data, c + 1, c + n)
         IN  more \in Seq(Int) /\ Len(more) = n /\ From(Requested, more, c)
<1> DEFINE stream == Request \o Data  more == SubSeq(stream, c + 1, c + n)
<1>1. MaxData \in Nat
  BY SocksAssumption
<1>2. Data \in Seq(Int) /\ Len(Data) = MaxData /\ \A i \in 1 .. MaxData : Data[i] = i
  BY <1>1 DEF Data
<1>3. Request \in Seq(Int) /\ Len(Request) = 2 /\ Request[1] = -1 /\ Request[2] = -2
  BY DEF Request
<1>4. /\ stream \in Seq(Int) /\ Len(stream) = 2 + MaxData
      /\ \A i \in 1 .. 2 + MaxData :
           stream[i] = IF i <= 2 THEN Request[i] ELSE Data[i - 2]
  <2>1. /\ stream \in Seq(Int) /\ Len(stream) = Len(Request) + Len(Data)
        /\ \A i \in 1 .. Len(Request) + Len(Data) :
             stream[i] = IF i <= Len(Request) THEN Request[i]
                         ELSE Data[i - Len(Request)]
    BY <1>2, <1>3, ConcatProperties
  <2> QED BY <1>2, <1>3, <2>1
<1>5. ASSUME NEW i \in 1 .. 2 + MaxData PROVE stream[i] = Requested[i]
  <2>1. i \in Nat /\ Requested[i] = IF i <= 2 THEN -i ELSE i - 2
    BY <1>1 DEF Requested
  <2>2. CASE i <= 2
    <3>1. i = 1 \/ i = 2
      BY <1>1, <2>2
    <3> QED BY <1>3, <1>4, <2>1, <2>2, <3>1
  <2>3. CASE ~(i <= 2)
    <3>1. i - 2 \in 1 .. MaxData
      BY <1>1, <2>3
    <3> QED BY <1>2, <1>4, <2>1, <2>3, <3>1
  <2> QED BY <2>2, <2>3
<1> HIDE DEF stream
<1>6. \A i \in c + 1 .. c + n : i \in 1 .. 2 + MaxData /\ stream[i] \in Int
  BY <1>1, <1>4
<1>7. more \in Seq(Int) /\ Len(more) = n
  BY <1>6, SubSeqProperties
<1>8. ASSUME NEW i \in 1 .. n PROVE more[i] = Requested[c + i]
  <2>1. more[i] = stream[c + i] /\ c + i \in 1 .. 2 + MaxData
    BY <1>1, <1>6, SubSeqProperties
  <2> QED BY <1>5, <2>1
<1> HIDE DEF more
<1> QED BY <1>7, <1>8 DEF From, more, stream

\* What arrives of the target, behind the answer that granted the request.
LEMMA Replies ==
  ASSUME NEW c \in Nat, NEW n \in Nat, c + n <= MaxData
  PROVE  LET more == SubSeq(Data, c + 1, c + n)
         IN  more \in Seq(Int) /\ Len(more) = n /\ From(Replied, more, c + 1)
<1> DEFINE more == SubSeq(Data, c + 1, c + n)
<1>1. MaxData \in Nat
  BY SocksAssumption
<1>2. Data \in Seq(Int) /\ Len(Data) = MaxData /\ \A i \in 1 .. MaxData : Data[i] = i
  BY <1>1 DEF Data
<1>3. \A i \in c + 1 .. c + n : i \in 1 .. MaxData /\ Data[i] \in Int
  BY <1>1, <1>2
<1>4. more \in Seq(Int) /\ Len(more) = n
  BY <1>3, SubSeqProperties
<1>5. ASSUME NEW i \in 1 .. n PROVE more[i] = Replied[(c + 1) + i]
  <2>1. more[i] = Data[c + i] /\ c + i \in 1 .. MaxData
    BY <1>1, <1>3, SubSeqProperties
  <2>2. (c + 1) + i \in Nat /\ (c + 1) + i # 1 /\ (c + 1) + i - 1 = c + i
    OBVIOUS
  <2>3. Replied[(c + 1) + i] = c + i
    BY <2>2 DEF Replied
  <2> QED BY <1>2, <2>1, <2>3
<1> HIDE DEF more
<1> QED BY <1>4, <1>5 DEF From, more

\* The bounds are numbers.
LEMMA SocksConstants == MaxData \in Nat /\ MaxHead \in Nat /\ MaxBuffer \in Nat
  BY SocksAssumption

\* At first the client is connected and nothing is on its way.
LEMMA SocksInitInv == SocksInit => SocksInv
<1> SUFFICES ASSUME SocksInit PROVE SocksInv
  OBVIOUS
<1>1. SocksTypes
  <2>1. /\ requestOk \in BOOLEAN /\ sRead \in BOOLEAN /\ tRead \in BOOLEAN
        /\ linked \in BOOLEAN /\ late \in BOOLEAN /\ early \in BOOLEAN
    BY Zenon DEF SocksInit
  <2>2. /\ clientSent = 0 /\ targetSent = 0
        /\ sIn = <<>> /\ sOut = <<>> /\ tOut = <<>> /\ toClient = <<>> /\ toTarget = <<>>
        /\ sSide = "connected" /\ tSide = "none"
    BY DEF SocksInit
  <2>3. 0 <= MaxData + 2 /\ 0 <= MaxData
    BY SocksConstants
  <2> QED BY <2>1, <2>2, <2>3 DEF SocksTypes
<1>2. ToTargetInv
  BY SocksAssumption DEF SocksInit, ToTargetInv, From
<1>3. ToClientInv /\ SidesInv
  BY DEF SocksInit, ToClientInv, SidesInv
<1> QED BY <1>1, <1>2, <1>3 DEF SocksInv

\* What SendToClient() does while the target answers.
LEMMA ToClientSends ==
  ASSUME SocksInv, NEW more \in Seq(Int), SendToClient(more)
  PROVE  /\ sOut' \in Seq(Int) /\ sRead' \in BOOLEAN
         /\ sSide = "connected" => sOut' = sOut \o more
         /\ sSide # "connected" => sOut' = sOut
         /\ sSide # "down" /\ ~sRead' => sOut' # <<>>
<1> USE DEF SocksInv, SocksTypes
<1>1. CASE sSide # "connected"
  BY <1>1 DEF SendToClient, SidesInv
<1>2. CASE sSide = "connected"
  <2>1. sOut' = sOut \o more /\ sRead' = ReadsOn(sRead, sOut, more)
    BY <1>2 DEF SendToClient
  <2>2. sOut' \in Seq(Int) /\ Len(sOut') = Len(sOut) + Len(more)
    BY <2>1, ConcatProperties
  <2>3. sRead' \in BOOLEAN
    BY <2>1 DEF ReadsOn
  <2>4. ASSUME ~sRead' PROVE sOut' # <<>>
    <3>1. CASE ~sRead
      <4>1. sOut # <<>> /\ Len(sOut) \in Nat /\ Len(more) \in Nat /\ Len(sOut) # 0
        BY <1>2, <3>1 DEF SidesInv
      <4>2. Len(sOut') # 0
        BY <2>2, <4>1
      <4> QED BY <4>2
    <3>2. CASE sRead
      <4>1. /\ MaxBuffer \in Nat /\ Len(sOut) \in Nat /\ Len(more) \in Nat
            /\ Len(sOut) < MaxBuffer /\ Len(sOut) + Len(more) >= MaxBuffer
        <5>1. Len(sOut) < MaxBuffer /\ Len(sOut) + Len(more) >= MaxBuffer
          BY <2>1, <2>4, <3>2, Zenon DEF ReadsOn
        <5> QED BY <5>1, SocksConstants
      <4>2. Len(sOut') # 0
        BY <2>2, <4>1
      <4> QED BY <4>2
    <3> QED BY <3>1, <3>2
  <2> QED BY <1>2, <2>1, <2>2, <2>3, <2>4
<1> QED BY <1>1, <1>2

\* The client is gone: its tunnel is disconnected.
LEMMA ServerConnDownInv == SocksInv /\ socks = "runs" /\ ServerConnDown => SocksInv'
<1> SUFFICES ASSUME SocksInv, socks = "runs", ServerConnDown PROVE SocksInv'
  OBVIOUS
<1> USE DEF SocksInv, ServerConnDown
<1>1. /\ ~linked => tSide' = tSide
      /\ linked /\ tSide = "connected" => tSide' = "disconnecting"
      /\ linked /\ tSide # "connected" => tSide' = tSide
  BY DEF TargetAfterClient, HalfClosed
<1>2. SocksTypes'
  BY <1>1 DEF SocksTypes
<1>3. ToTargetInv'
  BY <1>1 DEF ToTargetInv, SocksTypes, From
<1>4. ToClientInv'
  <2>1. tSide' # "none" => requestOk'
    BY <1>1 DEF ToClientInv, ToTargetInv
  <2>2. Len(sOut') = 0 /\ From(Replied, sOut', Len(toClient'))
    BY DEF From
  <2>3. linked => Len(toClient') + Len(sOut') <= targetSent' + 1
    BY <2>2 DEF ToClientInv, SocksTypes
  <2>4. ~linked => \/ toClient' = <<>> /\ sOut' = <<>>
                   \/ ~requestOk' /\ toClient' = <<Rejected>> /\ sOut' = <<>>
    BY DEF ToClientInv
  <2>5. linked => From(Replied, toClient', 0)
    BY DEF ToClientInv
  <2>6. ~linked' => targetSent' = 0
    BY DEF ToClientInv
  <2> QED BY <2>1, <2>2, <2>3, <2>4, <2>5, <2>6 DEF ToClientInv
<1>5. SidesInv'
  <2>1. tSide' # "connected"
    BY <1>1 DEF ToTargetInv, SidesInv
  <2>2. tSide' \in {"connected", "disconnecting"} /\ ~tRead' => tOut' # <<>>
    BY <1>1 DEF SidesInv
  <2>3. sSide' = "down" /\ socks' # "crashed"
    BY DEF SidesInv
  <2>4. ~linked' => tRead'
    BY DEF SidesInv
  <2> QED BY <2>1, <2>2, <2>3, <2>4 DEF SidesInv
<1> QED BY <1>2, <1>3, <1>4, <1>5

\* The target is reached: the request is granted, what waited is forwarded.
LEMMA TargetUpInv == SocksInv /\ TargetUp => SocksInv'
<1> SUFFICES ASSUME SocksInv, TargetUp PROVE SocksInv'
  OBVIOUS
<1> USE DEF SocksInv
<1>1. /\ tSide = "connecting" /\ tSide' = "connected" /\ linked'
      /\ SendToClient(<<Granted>>) /\ late' = (sSide = "down")
      /\ UNCHANGED <<requestOk, clientSent, targetSent, sIn, tOut, sSide, tRead,
                     toClient, toTarget, early, socks>>
  BY DEF TargetUp
<1>2. <<Granted>> \in Seq(Int)
  BY DEF Granted
<1>3. /\ sOut' \in Seq(Int) /\ sRead' \in BOOLEAN
      /\ sSide = "connected" => sOut' = sOut \o <<Granted>>
      /\ sSide # "connected" => sOut' = sOut
      /\ sSide # "down" /\ ~sRead' => sOut' # <<>>
  BY <1>1, <1>2, ToClientSends
<1>4. ~linked /\ requestOk /\ toClient = <<>> /\ sOut = <<>> /\ targetSent = 0
      /\ toTarget = <<>> /\ tOut = <<>>
  BY <1>1 DEF ToTargetInv, ToClientInv
<1>5. SocksTypes'
  BY <1>1, <1>3 DEF SocksTypes
<1>6. ToTargetInv'
  <2>1. ~early => sIn' = <<>>
    <3> SUFFICES ASSUME ~early PROVE sIn = <<>>
      BY <1>1
    <3>1. clientSent <= 2 /\ 2 + 0 + 0 + Len(sIn) = clientSent /\ Len(sIn) \in Nat
      BY <1>1, <1>4 DEF ToTargetInv, SocksTypes
    <3>2. Len(sIn) = 0
      BY <3>1 DEF SocksTypes
    <3>3. sIn \in Seq(Int)
      BY DEF SocksTypes
    <3> QED BY <3>2, <3>3
  <2> QED BY <1>1, <1>4, <2>1 DEF ToTargetInv
<1>7. ToClientInv'
  <2>1. CASE sSide = "connected"
    <3>1. sOut' = <<Granted>> /\ Len(sOut') = 1 /\ sOut'[1] = Granted
      BY <1>2, <1>3, <1>4, <2>1, ConcatEmptySeq
    <3>2. Replied[1] = Granted
      BY DEF Replied
    <3>3. From(Replied, sOut', 0)
      BY <3>1, <3>2 DEF From
    <3>4. Len(toClient') = 0 /\ From(Replied, toClient', 0)
      BY <1>1, <1>4 DEF From
    <3> QED BY <1>1, <1>4, <3>1, <3>3, <3>4 DEF ToClientInv
  <2>2. CASE sSide # "connected"
    <3>1. Len(toClient') = 0 /\ Len(sOut') = 0
      BY <1>1, <1>3, <1>4, <2>2
    <3>2. From(Replied, toClient', 0) /\ From(Replied, sOut', Len(toClient'))
      BY <3>1 DEF From
    <3> QED BY <1>1, <1>4, <2>2, <3>1, <3>2 DEF ToClientInv
  <2> QED BY <2>1, <2>2
<1>8. SidesInv'
  <2>1. sSide' = "down" => late'
    BY <1>1
  <2>2. ~tRead' => tOut' # <<>>
    BY <1>1, <1>4 DEF SidesInv
  <2> QED BY <1>1, <1>3, <2>1, <2>2 DEF SidesInv
<1> QED BY <1>5, <1>6, <1>7, <1>8

\* The target is gone: the client is shut down.
LEMMA TargetDownInv == SocksInv /\ TargetDown => SocksInv'
<1> SUFFICES ASSUME SocksInv, TargetDown PROVE SocksInv'
  OBVIOUS
<1> USE DEF SocksInv, TargetDown
<1>1. /\ sSide = "connected" => sSide' = "disconnecting"
      /\ sSide # "connected" => sSide' = sSide
  BY DEF HalfClosed
<1>2. SocksTypes'
  BY <1>1 DEF SocksTypes
<1>3. ToTargetInv'
  <2>1. Len(tOut') = 0 /\ From(Requested, tOut', 2 + Len(toTarget'))
    BY DEF From
  <2>2. Len(toTarget') + Len(tOut') <= MaxData
    BY <2>1, SocksAssumption DEF ToTargetInv, SocksTypes
  <2> QED BY <2>1, <2>2 DEF ToTargetInv
<1>4. ToClientInv'
  BY <1>1 DEF ToClientInv, ToTargetInv
<1>5. SidesInv'
  BY <1>1 DEF SidesInv, SocksTypes
<1> QED BY <1>2, <1>3, <1>4, <1>5

\* onClientMessage(): bytes of the target for the client.
LEMMA OnClientMessageInv ==
  ASSUME SocksInv, NEW n \in 1 .. MaxData, OnClientMessage(n)
  PROVE  SocksInv'
<1> DEFINE more == SubSeq(Data, targetSent + 1, targetSent')
<1> USE DEF SocksInv
<1>1. /\ tSide \in {"connected", "disconnecting"}
      /\ targetSent + n <= MaxData /\ targetSent' = targetSent + n
      /\ SendToClient(more)
      /\ UNCHANGED <<requestOk, clientSent, sIn, tOut, sSide, tSide, tRead, linked,
                     toClient, toTarget, late, early, socks>>
  BY DEF OnClientMessage
<1>2. linked /\ targetSent \in Nat /\ n \in Nat /\ MaxData \in Nat
  BY <1>1, SocksAssumption DEF ToTargetInv, SocksTypes
<1>3. more \in Seq(Int) /\ Len(more) = n /\ From(Replied, more, targetSent + 1)
  BY <1>1, <1>2, Replies
<1> HIDE DEF more
<1>4. /\ sOut' \in Seq(Int) /\ sRead' \in BOOLEAN
      /\ sSide = "connected" => sOut' = sOut \o more
      /\ sSide # "connected" => sOut' = sOut
      /\ sSide # "down" /\ ~sRead' => sOut' # <<>>
  BY <1>1, <1>3, ToClientSends
<1>5. SocksTypes'
  BY <1>1, <1>2, <1>4 DEF SocksTypes
<1>6. ToTargetInv'
  BY <1>1 DEF ToTargetInv
<1>7. ToClientInv'
  <2>1. /\ From(Replied, toClient, 0) /\ From(Replied, sOut, Len(toClient))
        /\ Len(toClient) + Len(sOut) <= targetSent + 1
        /\ sSide = "connected" => Len(toClient) + Len(sOut) = targetSent + 1
        /\ requestOk
        /\ sOut \in Seq(Int) /\ Len(toClient) \in Nat /\ Len(sOut) \in Nat
    BY <1>1, <1>2 DEF ToClientInv, SocksTypes
  <2>2. CASE sSide = "connected"
    <3>1. Len(sOut') = Len(sOut) + n /\ From(Replied, sOut', Len(toClient))
      <4>1. Len(toClient) + Len(sOut) = targetSent + 1
        BY <2>1, <2>2
      <4>2. From(Replied, more, Len(toClient) + Len(sOut))
        BY <1>3, <4>1
      <4>3. /\ Len(sOut \o more) = Len(sOut) + Len(more)
            /\ From(Replied, sOut \o more, Len(toClient))
        BY <1>3, <2>1, <4>2, FromConcat
      <4> QED BY <1>3, <1>4, <2>2, <4>3
    <3>2. Len(toClient) + Len(sOut') = (targetSent + n) + 1
      BY <1>2, <2>1, <2>2, <3>1
    <3> QED BY <1>1, <1>2, <2>1, <3>1, <3>2 DEF ToClientInv
  <2>3. CASE sSide # "connected"
    <3>1. Len(toClient) + Len(sOut) <= (targetSent + n) + 1
      BY <1>2, <2>1
    <3> QED BY <1>1, <1>2, <1>4, <2>1, <2>3, <3>1 DEF ToClientInv
  <2> QED BY <2>2, <2>3
<1>8. SidesInv'
  BY <1>1, <1>4 DEF SidesInv
<1> QED BY <1>5, <1>6, <1>7, <1>8

\* The socket takes some of what waits for the client.
LEMMA DrainToClientInv ==
  ASSUME SocksInv, socks = "runs", NEW n \in Nat, DrainToClient(n)
  PROVE  SocksInv'
<1> USE DEF SocksInv
<1>1. /\ sSide # "down" /\ n \in 1 .. Len(sOut)
      /\ toClient' = toClient \o SubSeq(sOut, 1, n)
      /\ sOut' = SubSeq(sOut, n + 1, Len(sOut))
      /\ sRead' = (sRead \/ sOut' = <<>>)
      /\ UNCHANGED <<requestOk, clientSent, targetSent, sIn, tOut, sSide, tSide,
                     tRead, linked, toTarget, late, early, socks>>
  BY DEF DrainToClient
<1>2. /\ sOut \in Seq(Int) /\ toClient \in Seq(Int) /\ Len(sOut) \in Nat
      /\ Len(toClient) \in Nat /\ n \in 0 .. Len(sOut)
  BY <1>1 DEF SocksTypes
<1>3. ASSUME linked
      PROVE  /\ sOut' \in Seq(Int) /\ toClient' \in Seq(Int)
             /\ From(Replied, toClient', 0) /\ From(Replied, sOut', Len(toClient'))
             /\ Len(toClient') + Len(sOut') = Len(toClient) + Len(sOut)
  <2>1. From(Replied, toClient, 0) /\ From(Replied, sOut, Len(toClient))
    BY <1>3 DEF ToClientInv
  <2> DEFINE taken == SubSeq(sOut, 1, n)
  <2>2. /\ taken \in Seq(Int) /\ Len(taken) = n
        /\ From(Replied, taken, Len(toClient))
        /\ sOut' \in Seq(Int) /\ Len(sOut') = Len(sOut) - n
        /\ From(Replied, sOut', Len(toClient) + n)
    BY <1>1, <1>2, <2>1, FromSplit
  <2> HIDE DEF taken
  <2>3. From(Replied, taken, 0 + Len(toClient))
    BY <1>2, <2>2
  <2>4. /\ toClient \o taken \in Seq(Int) /\ Len(toClient \o taken) = Len(toClient) + Len(taken)
        /\ From(Replied, toClient \o taken, 0)
    BY <1>2, <2>1, <2>2, <2>3, FromConcat
  <2>5. toClient' = toClient \o taken
    BY <1>1 DEF taken
  <2>6. Len(toClient') = Len(toClient) + n /\ Len(sOut') = Len(sOut) - n
    BY <2>2, <2>4, <2>5
  <2>7. Len(toClient') + Len(sOut') = Len(toClient) + Len(sOut)
    BY <1>2, <2>6
  <2> QED BY <2>2, <2>4, <2>5, <2>6, <2>7
<1>4. ASSUME ~linked
      PROVE  /\ ~requestOk /\ sSide # "connected"
             /\ toClient' = <<Rejected>> /\ sOut' = <<>>
  <2>1. /\ ~requestOk /\ sSide # "connected" /\ toClient = <<>> /\ sOut = <<Rejected>>
    BY <1>1, <1>4 DEF ToClientInv
  <2>2. n = 1 /\ Len(sOut) = 1
    BY <1>1, <2>1
  <2>3. <<Rejected>> \in Seq(Int) /\ sOut \in Seq(Int)
    BY <2>1 DEF Rejected
  <2>4. SubSeq(sOut, 1, 1) = <<Rejected>>
    BY <2>1, <2>2, <2>3, SubSeqFull
  <2>5. sOut' = <<>>
    BY <1>1, <2>2, SubSeqEmpty
  <2> QED BY <1>1, <2>1, <2>2, <2>3, <2>4, <2>5, ConcatEmptySeq
<1>5. sOut' \in Seq(Int) /\ toClient' \in Seq(Int)
  <2>1. <<Rejected>> \in Seq(Int) /\ <<>> \in Seq(Int)
    BY DEF Rejected
  <2> QED BY <1>3, <1>4, <2>1
<1>6. SocksTypes'
  <2>1. sRead' \in BOOLEAN
    BY <1>1
  <2> QED BY <1>1, <1>5, <2>1 DEF SocksTypes
<1>7. ToTargetInv'
  BY <1>1 DEF ToTargetInv
<1>8. ToClientInv'
  BY <1>1, <1>3, <1>4 DEF ToClientInv
<1>9. SidesInv'
  BY <1>1 DEF SidesInv
<1> QED BY <1>6, <1>7, <1>8, <1>9

\* And some of what waits for the target.
LEMMA DrainToTargetInv ==
  ASSUME SocksInv, NEW n \in Nat, DrainToTarget(n)
  PROVE  SocksInv'
<1> USE DEF SocksInv
<1>1. /\ tSide \in {"connected", "disconnecting"} /\ n \in 1 .. Len(tOut)
      /\ toTarget' = toTarget \o SubSeq(tOut, 1, n)
      /\ tOut' = SubSeq(tOut, n + 1, Len(tOut))
      /\ tRead' = (tRead \/ tOut' = <<>>)
      /\ UNCHANGED <<requestOk, clientSent, targetSent, sIn, sOut, sSide, tSide,
                     sRead, linked, toClient, late, early, socks>>
  BY DEF DrainToTarget
<1>2. /\ tOut \in Seq(Int) /\ toTarget \in Seq(Int) /\ Len(tOut) \in Nat
      /\ Len(toTarget) \in Nat /\ n \in 0 .. Len(tOut)
  BY <1>1 DEF SocksTypes
<1>3. linked /\ From(Requested, toTarget, 2) /\ From(Requested, tOut, 2 + Len(toTarget))
  BY <1>1 DEF ToTargetInv
<1> DEFINE taken == SubSeq(tOut, 1, n)
<1>4. /\ taken \in Seq(Int) /\ Len(taken) = n
      /\ From(Requested, taken, 2 + Len(toTarget))
      /\ tOut' \in Seq(Int) /\ Len(tOut') = Len(tOut) - n
      /\ From(Requested, tOut', (2 + Len(toTarget)) + n)
  <2> DEFINE k == 2 + Len(toTarget)
  <2>1. k \in Nat /\ From(Requested, tOut, k)
    BY <1>2, <1>3
  <2> HIDE DEF k
  <2>2. /\ taken \in Seq(Int) /\ Len(taken) = n /\ From(Requested, taken, k)
        /\ tOut' \in Seq(Int) /\ Len(tOut') = Len(tOut) - n
        /\ From(Requested, tOut', k + n)
    BY <1>1, <1>2, <2>1, FromSplit
  <2> QED BY <2>2 DEF k
<1> HIDE DEF taken
<1>5. /\ toTarget \o taken \in Seq(Int)
      /\ Len(toTarget \o taken) = Len(toTarget) + Len(taken)
      /\ From(Requested, toTarget \o taken, 2)
  <2>1. 2 \in Nat /\ taken \in Seq(Int) /\ From(Requested, taken, 2 + Len(toTarget))
    BY <1>4
  <2> QED BY <1>2, <1>3, <2>1, FromConcat
<1>6. toTarget' = toTarget \o taken
  BY <1>1 DEF taken
<1>7. Len(toTarget') = Len(toTarget) + n /\ Len(tOut') = Len(tOut) - n
  BY <1>4, <1>5, <1>6
<1>8. /\ 2 + Len(toTarget') = (2 + Len(toTarget)) + n
      /\ Len(toTarget') + Len(tOut') = Len(toTarget) + Len(tOut)
      /\ (2 + Len(toTarget')) + Len(tOut') = (2 + Len(toTarget)) + Len(tOut)
  BY <1>2, <1>7
<1>9. SocksTypes'
  <2>1. tRead' \in BOOLEAN
    BY <1>1
  <2> QED BY <1>1, <1>4, <1>5, <1>6, <2>1 DEF SocksTypes
<1>10. ToTargetInv'
  <2>1. From(Requested, toTarget', 2) /\ From(Requested, tOut', 2 + Len(toTarget'))
    BY <1>4, <1>5, <1>6, <1>8
  <2> QED BY <1>1, <1>3, <1>8, <2>1 DEF ToTargetInv
<1>11. ToClientInv'
  BY <1>1 DEF ToClientInv
<1>12. SidesInv'
  BY <1>1, <1>3 DEF SidesInv
<1> QED BY <1>9, <1>10, <1>11, <1>12

\* A buffer that holds both parts of the request begins with its first.
LEMMA BeginsRequest ==
  ASSUME NEW buf \in Seq(Int), IsPrefix(Request, buf)
  PROVE  Len(buf) >= 2 /\ buf[1] = -1
<1>1. Request \in Seq(Int) /\ Len(Request) = 2 /\ Request[1] = -1
  BY DEF Request
<1>2. Len(buf) \in Nat /\ Len(buf) >= 2 /\ SubSeq(Request, 1, 2) = SubSeq(buf, 1, 2)
  BY <1>1 DEF IsPrefix
<1>3. SubSeq(buf, 1, 2)[1] = buf[1]
  BY <1>2, SubSeqProperties
<1>4. SubSeq(Request, 1, 2)[1] = Request[1]
  BY <1>1, SubSeqProperties
<1> QED BY <1>1, <1>2, <1>3, <1>4

\* onServerMessage() without a context: what it may do.
LEMMA WithoutContextDoes ==
  ASSUME NEW buf \in Seq(Int), WithoutContext(buf)
  PROVE  \/ sIn' = buf /\ sSide' = HalfClosed(sSide) /\ UNCHANGED <<tSide, sOut, sRead>>
         \/ /\ IsPrefix(Request, buf) /\ requestOk
            /\ sIn' = SubSeq(buf, Len(Request) + 1, Len(buf))
            /\ tSide' = "connecting" /\ UNCHANGED <<sSide, sOut, sRead>>
         \/ /\ IsPrefix(Request, buf) /\ ~requestOk /\ sIn' = buf
            /\ SendToClient(<<Rejected>>) /\ sSide' = HalfClosed(sSide) /\ UNCHANGED tSide
         \/ sIn' = buf /\ UNCHANGED <<tSide, sSide, sOut, sRead>>
<1> DEFINE Long == Len(buf) > MaxHead
           Good == Len(buf) <= MaxHead /\ IsPrefix(Request, buf) /\ requestOk
           Bad == Len(buf) <= MaxHead /\ IsPrefix(Request, buf) /\ ~requestOk
<1>1. /\ ~(Long /\ Good) /\ ~(Long /\ Bad) /\ ~(Good /\ Bad)
  <2>1. Len(buf) \in Nat /\ MaxHead \in Nat
    BY SocksConstants
  <2>2. ~(Len(buf) > MaxHead /\ Len(buf) <= MaxHead)
    BY <2>1
  <2> QED BY <2>2
<1>2. CASE Long
  BY <1>1, <1>2 DEF WithoutContext
<1>3. CASE Good
  BY <1>1, <1>3 DEF WithoutContext
<1>4. CASE Bad
  BY <1>1, <1>4 DEF WithoutContext
<1>5. CASE ~Long /\ ~Good /\ ~Bad
  BY <1>5 DEF WithoutContext
<1> QED BY <1>2, <1>3, <1>4, <1>5

\* The client's buffer with n more bytes.
LEMMA BufferGrows ==
  ASSUME SocksInv, NEW n \in Nat, n >= 1, clientSent + n <= MaxData + 2
  PROVE  LET buf == sIn \o SubSeq(Request \o Data, clientSent + 1, clientSent + n)
         IN  /\ buf \in Seq(Int)
             /\ tSide = "none" => Len(buf) = clientSent + n /\ From(Requested, buf, 0)
             /\ tSide = "connecting" => ~IsPrefix(Request, buf)
             /\ tSide \in {"connecting", "connected"} =>
                  /\ 2 + Len(toTarget) + Len(tOut) + Len(buf) = clientSent + n
                  /\ From(Requested, buf, 2 + Len(toTarget) + Len(tOut))
<1> DEFINE more == SubSeq(Request \o Data, clientSent + 1, clientSent + n)
           buf == sIn \o more
<1> USE DEF SocksInv
<1>1. more \in Seq(Int) /\ Len(more) = n /\ From(Requested, more, clientSent)
  BY Arrives DEF SocksTypes
<1> HIDE DEF more
<1>2. /\ sIn \in Seq(Int) /\ Len(sIn) \in Nat /\ clientSent \in Nat
      /\ Len(toTarget) \in Nat /\ Len(tOut) \in Nat
  BY DEF SocksTypes
<1>3. buf \in Seq(Int) /\ Len(buf) = Len(sIn) + n
  BY <1>1, <1>2, ConcatProperties
<1>4. ASSUME tSide = "none"
      PROVE  Len(buf) = clientSent + n /\ From(Requested, buf, 0)
  <2>1. Len(sIn) = clientSent /\ From(Requested, sIn, 0)
    BY <1>4 DEF ToTargetInv
  <2>2. 0 \in Nat /\ From(Requested, more, 0 + Len(sIn))
    BY <1>1, <1>2, <2>1
  <2>3. From(Requested, buf, 0)
    BY <1>1, <1>2, <2>1, <2>2, FromConcat
  <2> QED BY <1>3, <2>1, <2>3
<1>5. ASSUME tSide \in {"connecting", "connected"}
      PROVE  /\ 2 + Len(toTarget) + Len(tOut) + Len(buf) = clientSent + n
             /\ From(Requested, buf, 2 + Len(toTarget) + Len(tOut))
  <2> DEFINE k == 2 + Len(toTarget) + Len(tOut)
  <2>1. k \in Nat /\ k + Len(sIn) = clientSent /\ From(Requested, sIn, k)
    BY <1>2, <1>5 DEF ToTargetInv
  <2> HIDE DEF k
  <2>2. From(Requested, more, k + Len(sIn))
    BY <1>1, <2>1
  <2>3. From(Requested, buf, k)
    BY <1>1, <1>2, <2>1, <2>2, FromConcat
  <2> HIDE DEF buf
  <2>4. k + Len(buf) = clientSent + n
    BY <1>2, <1>3, <2>1
  <2> QED BY <2>3, <2>4 DEF k
<1>6. ASSUME tSide = "connecting" PROVE ~IsPrefix(Request, buf)
  <2>1. Len(toTarget) = 0 /\ Len(tOut) = 0
    BY <1>6 DEF ToTargetInv
  <2>2. From(Requested, buf, 2)
    BY <1>5, <1>6, <2>1
  <2>3. 1 \in 1 .. Len(buf)
    BY <1>2, <1>3
  <2>4. buf[1] = Requested[2 + 1]
    BY <2>2, <2>3 DEF From
  <2>5. Requested[3] = 1
    BY DEF Requested
  <2>6. buf[1] # -1
    BY <2>4, <2>5
  <2> HIDE DEF buf
  <2> QED BY <1>3, <2>6, BeginsRequest
<1> HIDE DEF buf
<1> QED BY <1>3, <1>4, <1>5, <1>6 DEF buf, more

\* How long what a client sends is.
LEMMA StreamLen == Len(Request) = 2 /\ Len(Request \o Data) = MaxData + 2
<1>1. MaxData \in Nat
  BY SocksConstants
<1>2. Data \in Seq(Int) /\ Len(Data) = MaxData
  BY <1>1 DEF Data
<1>3. Request \in Seq(Int) /\ Len(Request) = 2
  BY DEF Request
<1>4. Len(Request \o Data) = Len(Request) + Len(Data)
  BY <1>2, <1>3, ConcatProperties
<1> QED BY <1>1, <1>2, <1>3, <1>4

\* onServerMessage() before there is a context: the request.
LEMMA WithoutContextInv ==
  ASSUME SocksInv, socks = "runs", ~linked, NEW n \in Nat, n >= 1,
         OnServerMessage(n)
  PROVE  SocksInv'
<1> DEFINE buf == sIn \o SubSeq(Request \o Data, clientSent + 1, clientSent + n)
<1> USE DEF SocksInv
<1>1. /\ sSide # "down" /\ clientSent + n <= Len(Request \o Data)
      /\ clientSent' = clientSent + n
      /\ early' = (early \/ (~linked /\ clientSent' > Len(Request)))
      /\ WithoutContext(buf)
      /\ UNCHANGED <<tOut, tRead, socks, requestOk, targetSent, linked, toClient,
                     toTarget, late>>
  BY DEF OnServerMessage
<1>2. Len(Request) = 2 /\ Len(Request \o Data) = MaxData + 2
  BY StreamLen
<1>3. clientSent + n <= MaxData + 2
  BY <1>1, <1>2
<1>4. /\ buf \in Seq(Int)
      /\ tSide = "none" => Len(buf) = clientSent + n /\ From(Requested, buf, 0)
      /\ tSide = "connecting" => ~IsPrefix(Request, buf)
      /\ tSide \in {"connecting", "connected"} =>
           /\ 2 + Len(toTarget) + Len(tOut) + Len(buf) = clientSent + n
           /\ From(Requested, buf, 2 + Len(toTarget) + Len(tOut))
  BY <1>3, BufferGrows
<1> HIDE DEF buf
<1>5. /\ tSide \in {"none", "connecting"} /\ toTarget = <<>> /\ tOut = <<>>
      /\ Len(toTarget) = 0 /\ Len(tOut) = 0 /\ targetSent = 0
  BY DEF ToTargetInv, ToClientInv, SocksTypes
<1>6. early' \in BOOLEAN /\ (~early' => clientSent' <= 2)
  <2>1. early' \in BOOLEAN
    BY <1>1
  <2>2. ASSUME ~early' PROVE clientSent' <= 2
    <3>1. ~(clientSent' > Len(Request))
      BY <1>1, <2>2
    <3>2. clientSent' \in Nat
      BY <1>1 DEF SocksTypes
    <3> QED BY <1>2, <3>1, <3>2
  <2> QED BY <2>1, <2>2
<1>7. /\ clientSent' \in Nat /\ clientSent' <= MaxData + 2 /\ clientSent' = clientSent + n
  BY <1>1, <1>3 DEF SocksTypes
<1>8. /\ HalfClosed(sSide) \in {"connected", "disconnecting", "down"}
      /\ HalfClosed(sSide) # "connected" /\ HalfClosed(sSide) # "down"
      /\ sSide # "connected" => HalfClosed(sSide) = sSide
  BY <1>1 DEF HalfClosed, SocksTypes
<1>9. ASSUME sIn' = buf, tSide' = tSide PROVE ToTargetInv'
  <2>1. From(Requested, toTarget', 2) /\ From(Requested, tOut', 2 + Len(toTarget'))
    BY <1>1 DEF ToTargetInv
  <2> QED BY <1>1, <1>4, <1>5, <1>6, <1>7, <1>9, <2>1 DEF ToTargetInv
<1>10. ASSUME sSide' = sSide \/ sSide' = HalfClosed(sSide), UNCHANGED <<sOut, sRead>>,
              tSide' \in {"none", "connecting"}, tSide' # "none" => requestOk,
              tSide' \in {"none", tSide, "connecting"}, sIn' \in Seq(Int)
       PROVE  SocksTypes' /\ ToClientInv' /\ SidesInv'
  <2>1. SocksTypes'
    BY <1>1, <1>6, <1>7, <1>8, <1>10 DEF SocksTypes
  <2>2. ToClientInv'
    <3>1. sSide # "connected" => sSide' # "connected"
      BY <1>8, <1>10
    <3> QED BY <1>1, <1>5, <1>10, <3>1 DEF ToClientInv
  <2>3. SidesInv'
    <3>1. sSide' # "down"
      BY <1>1, <1>8, <1>10
    <3> QED BY <1>1, <1>10, <3>1 DEF SidesInv
  <2> QED BY <2>1, <2>2, <2>3
<1>11. CASE sIn' = buf /\ sSide' = HalfClosed(sSide) /\ UNCHANGED <<tSide, sOut, sRead>>
  <2>1. tSide' # "none" => requestOk
    BY <1>11 DEF ToClientInv
  <2> QED BY <1>4, <1>5, <1>9, <1>10, <1>11, <2>1
<1>12. CASE sIn' = buf /\ UNCHANGED <<tSide, sSide, sOut, sRead>>
  <2>1. tSide' # "none" => requestOk
    BY <1>12 DEF ToClientInv
  <2> QED BY <1>4, <1>5, <1>9, <1>10, <1>12, <2>1
<1>13. CASE /\ IsPrefix(Request, buf) /\ requestOk
            /\ sIn' = SubSeq(buf, Len(Request) + 1, Len(buf))
            /\ tSide' = "connecting" /\ UNCHANGED <<sSide, sOut, sRead>>
  <2>1. tSide = "none" /\ Len(buf) = clientSent + n /\ From(Requested, buf, 0)
    BY <1>4, <1>5, <1>13
  <2>2. Len(buf) >= 2 /\ Len(buf) \in Nat /\ 2 \in 0 .. Len(buf)
    BY <1>4, <1>13, BeginsRequest
  <2> DEFINE k == 0  m == Len(Request)
  <2>3. k \in Nat /\ m \in 0 .. Len(buf) /\ m = 2 /\ k + m = 2 /\ From(Requested, buf, k)
    BY <1>2, <2>1, <2>2
  <2> HIDE DEF k
  <2>4. /\ sIn' \in Seq(Int) /\ Len(sIn') = Len(buf) - m
        /\ From(Requested, sIn', k + m)
    <3>1. /\ SubSeq(buf, m + 1, Len(buf)) \in Seq(Int)
          /\ Len(SubSeq(buf, m + 1, Len(buf))) = Len(buf) - m
          /\ From(Requested, SubSeq(buf, m + 1, Len(buf)), k + m)
      <4> HIDE DEF m
      <4>1. buf \in Seq(Int) /\ k \in Nat /\ m \in 0 .. Len(buf) /\ From(Requested, buf, k)
        BY <1>4, <2>3
      <4> QED BY <4>1, FromSplit
    <3> QED BY <1>13, <3>1
  <2>5. sIn' \in Seq(Int) /\ Len(sIn') = Len(buf) - 2 /\ From(Requested, sIn', 2)
    BY <2>3, <2>4
  <2>6. /\ 2 + Len(toTarget') + Len(tOut') = 2
        /\ 2 + Len(toTarget') + Len(tOut') + Len(sIn') = clientSent'
    BY <1>1, <1>5, <1>7, <2>1, <2>2, <2>5
  <2>7. From(Requested, sIn', 2 + Len(toTarget') + Len(tOut'))
    BY <2>5, <2>6
  <2>8. From(Requested, toTarget', 2) /\ From(Requested, tOut', 2 + Len(toTarget'))
    BY <1>1 DEF ToTargetInv
  <2>9. Len(toTarget') + Len(tOut') <= MaxData
    BY <1>1 DEF ToTargetInv
  <2>10. ToTargetInv'
    BY <1>1, <1>5, <1>6, <1>13, <2>6, <2>7, <2>8, <2>9 DEF ToTargetInv
  <2> QED BY <1>10, <1>13, <2>5, <2>10
<1>14. CASE /\ IsPrefix(Request, buf) /\ ~requestOk /\ sIn' = buf
            /\ SendToClient(<<Rejected>>) /\ sSide' = HalfClosed(sSide) /\ UNCHANGED tSide
  <2>1. <<Rejected>> \in Seq(Int)
    BY DEF Rejected
  <2>2. /\ sOut' \in Seq(Int) /\ sRead' \in BOOLEAN
        /\ sSide = "connected" => sOut' = sOut \o <<Rejected>>
        /\ sSide # "connected" => sOut' = sOut
        /\ sSide # "down" /\ ~sRead' => sOut' # <<>>
    BY <1>14, <2>1, ToClientSends
  <2>3. tSide = "none" /\ sSide' # "connected" /\ sSide' # "down"
    BY <1>8, <1>14 DEF ToClientInv
  <2>4. SocksTypes'
    BY <1>1, <1>4, <1>6, <1>7, <1>8, <1>14, <2>2 DEF SocksTypes
  <2>5. ToTargetInv'
    BY <1>9, <1>14
  <2>6. ToClientInv'
    <3>1. sSide = "connected" => toClient = <<>> /\ sOut' = <<Rejected>>
      BY <2>1, <2>2, ConcatEmptySeq DEF ToClientInv
    <3>2. \/ toClient' = <<>> /\ sOut' = <<>>
          \/ toClient' = <<Rejected>> /\ sOut' = <<>>
          \/ toClient' = <<>> /\ sOut' = <<Rejected>>
      BY <1>1, <2>2, <3>1 DEF ToClientInv
    <3> QED BY <1>1, <1>5, <1>14, <2>3, <3>2 DEF ToClientInv
  <2>7. SidesInv'
    BY <1>1, <1>14, <2>2, <2>3 DEF SidesInv
  <2> QED BY <2>4, <2>5, <2>6, <2>7
<1> QED BY <1>1, <1>4, <1>11, <1>12, <1>13, <1>14, WithoutContextDoes

\* onServerMessage() with a context: bytes of the client for the target.
LEMMA WithContextInv ==
  ASSUME SocksInv, socks = "runs", linked, NEW n \in Nat, n >= 1,
         OnServerMessage(n)
  PROVE  SocksInv'
<1> DEFINE buf == sIn \o SubSeq(Request \o Data, clientSent + 1, clientSent + n)
<1> USE DEF SocksInv
<1>1. /\ sSide # "down" /\ clientSent + n <= Len(Request \o Data)
      /\ clientSent' = clientSent + n
      /\ early' = (early \/ (~linked /\ clientSent' > Len(Request)))
      /\ UNCHANGED <<requestOk, targetSent, linked, toClient, toTarget, late>>
      /\ \/ tSide # "down" /\ SendToTarget(buf)
            /\ UNCHANGED <<sOut, sSide, tSide, sRead, socks>>
         \/ /\ tSide = "down" /\ socks' = "crashed"
            /\ UNCHANGED <<sIn, sOut, tOut, sSide, tSide, sRead, tRead>>
  BY DEF OnServerMessage
<1>2. clientSent + n <= MaxData + 2 /\ MaxData \in Nat
  BY <1>1, StreamLen, SocksConstants
<1>3. /\ buf \in Seq(Int)
      /\ tSide = "connected" =>
           /\ 2 + Len(toTarget) + Len(tOut) + Len(buf) = clientSent + n
           /\ From(Requested, buf, 2 + Len(toTarget) + Len(tOut))
  BY <1>2, BufferGrows
<1> HIDE DEF buf
<1>4. clientSent' \in Nat /\ clientSent' <= MaxData + 2 /\ early' = early
  <2>1. early' = early
    BY <1>1 DEF SocksTypes
  <2> QED BY <1>1, <1>2, <2>1 DEF SocksTypes
<1>5. ASSUME UNCHANGED <<sOut, sSide, sRead, tSide>> PROVE ToClientInv'
  BY <1>1, <1>5 DEF ToClientInv
<1>6. CASE tSide = "connected"
  <2>1. /\ tOut' = tOut \o buf /\ tRead' = ReadsOn(tRead, tOut, buf) /\ sIn' = <<>>
        /\ UNCHANGED <<sOut, sSide, tSide, sRead, socks>>
    BY <1>1, <1>6 DEF SendToTarget
  <2> DEFINE k == 2 + Len(toTarget)
  <2>2. /\ k \in Nat /\ Len(toTarget) \in Nat /\ Len(tOut) \in Nat
        /\ Len(buf) \in Nat /\ tOut \in Seq(Int) /\ From(Requested, tOut, k)
    BY <1>3 DEF SocksTypes, ToTargetInv
  <2>3. /\ k + Len(tOut) + Len(buf) = clientSent + n
        /\ From(Requested, buf, k + Len(tOut)) /\ k = 2 + Len(toTarget)
    BY <1>3, <1>6
  <2> HIDE DEF k
  <2>4. /\ tOut' \in Seq(Int) /\ Len(tOut') = Len(tOut) + Len(buf)
        /\ From(Requested, tOut', k)
    <3>1. /\ tOut \o buf \in Seq(Int) /\ Len(tOut \o buf) = Len(tOut) + Len(buf)
          /\ From(Requested, tOut \o buf, k)
      BY <1>3, <2>2, <2>3, FromConcat
    <3> QED BY <2>1, <3>1
  <2>5. k + Len(tOut') = clientSent' /\ Len(toTarget) + Len(tOut') <= MaxData
    BY <1>1, <1>2, <2>2, <2>3, <2>4
  <2>6. Len(sIn') = 0 /\ \A f, j : From(f, sIn', j)
    BY <2>1 DEF From
  <2>7. k + Len(tOut') + Len(sIn') = clientSent'
    BY <2>2, <2>4, <2>5, <2>6
  <2>8. ToTargetInv'
    BY <1>1, <1>4, <1>6, <2>1, <2>3, <2>4, <2>5, <2>6, <2>7 DEF ToTargetInv
  <2>9. tRead' \in BOOLEAN /\ (~tRead' => tOut' # <<>>)
    <3>1. tRead' \in BOOLEAN
      BY <2>1 DEF ReadsOn, SocksTypes
    <3>2. ASSUME ~tRead' PROVE tOut' # <<>>
      <4>1. CASE ~tRead
        <5>1. tOut # <<>> /\ Len(tOut) # 0
          BY <1>6, <2>2, <4>1 DEF SidesInv
        <5>2. Len(tOut') # 0
          BY <2>2, <2>4, <5>1
        <5> QED BY <5>2
      <4>2. CASE tRead
        <5>1. Len(tOut) < MaxBuffer /\ Len(tOut) + Len(buf) >= MaxBuffer
          BY <2>1, <3>2, <4>2, Zenon DEF ReadsOn
        <5>2. Len(tOut') # 0
          BY <2>2, <2>4, <5>1, SocksConstants
        <5> QED BY <5>2
      <4> QED BY <4>1, <4>2
    <3> QED BY <3>1, <3>2
  <2>10. SocksTypes'
    BY <1>1, <1>4, <2>1, <2>4, <2>9 DEF SocksTypes
  <2>11. SidesInv'
    BY <1>1, <1>6, <2>1, <2>9 DEF SidesInv
  <2> QED BY <1>5, <2>1, <2>8, <2>10, <2>11
<1>7. CASE tSide # "connected" /\ tSide # "down"
  <2>1. sIn' = buf /\ UNCHANGED <<tOut, tRead, sOut, sSide, tSide, sRead, socks>>
    BY <1>1, <1>7 DEF SendToTarget
  <2>2. tSide = "disconnecting"
    BY <1>7 DEF SocksTypes, ToTargetInv
  <2>3. SocksTypes'
    BY <1>1, <1>3, <1>4, <2>1 DEF SocksTypes
  <2>4. ToTargetInv'
    BY <1>1, <1>4, <2>1, <2>2 DEF ToTargetInv
  <2>5. SidesInv'
    BY <1>1, <2>1 DEF SidesInv
  <2> QED BY <1>5, <2>1, <2>3, <2>4, <2>5
<1>8. CASE tSide = "down"
  <2>1. socks' = "crashed" /\ UNCHANGED <<sIn, sOut, tOut, sSide, tSide, sRead, tRead>>
    BY <1>1, <1>8
  <2>2. SocksTypes'
    BY <1>1, <1>4, <2>1 DEF SocksTypes
  <2>3. ToTargetInv'
    BY <1>1, <1>4, <1>8, <2>1 DEF ToTargetInv
  <2>4. sSide = "disconnecting"
    BY <1>1, <1>8 DEF SidesInv, SocksTypes
  <2>5. SidesInv'
    BY <1>1, <1>8, <2>1, <2>4 DEF SidesInv
  <2> QED BY <1>5, <2>1, <2>2, <2>3, <2>5
<1> QED BY <1>6, <1>7, <1>8

\* What SocksInv says is what was to be shown.
LEMMA SocksInvRight == SocksInv => SocksRight
<1> SUFFICES ASSUME SocksInv PROVE SocksRight
  OBVIOUS
<1> USE DEF SocksInv
<1> DEFINE onward == toTarget \o tOut  got == toClient \o sOut
<1>1. /\ toTarget \in Seq(Int) /\ tOut \in Seq(Int) /\ Len(toTarget) \in Nat
      /\ Len(tOut) \in Nat /\ toClient \in Seq(Int) /\ sOut \in Seq(Int)
      /\ Len(toClient) \in Nat /\ Len(sOut) \in Nat /\ clientSent \in Nat
      /\ targetSent \in Nat /\ targetSent <= MaxData
  BY DEF SocksTypes
<1>2. /\ onward \in Seq(Int) /\ Len(onward) = Len(toTarget) + Len(tOut)
      /\ got \in Seq(Int) /\ Len(got) = Len(toClient) + Len(sOut)
  BY <1>1, ConcatProperties
<1>3. /\ MaxData \in Nat /\ Data \in Seq(Int) /\ Len(Data) = MaxData
      /\ \A i \in 1 .. MaxData : Data[i] = i
  <2>1. MaxData \in Nat
    BY SocksConstants
  <2> QED BY <2>1 DEF Data
<1>4. From(Requested, onward, 2) /\ Len(onward) <= MaxData
  <2>1. From(Requested, toTarget, 2) /\ From(Requested, tOut, 2 + Len(toTarget)) /\ 2 \in Nat
    BY DEF ToTargetInv
  <2>2. From(Requested, onward, 2)
    BY <1>1, <2>1, FromConcat
  <2> HIDE DEF onward
  <2> QED BY <1>2, <2>2 DEF ToTargetInv
<1>5. ASSUME linked
      PROVE  From(Replied, got, 0) /\ Len(got) <= MaxData + 1
  <2>1. /\ From(Replied, toClient, 0) /\ From(Replied, sOut, 0 + Len(toClient))
        /\ 0 \in Nat /\ Len(toClient) + Len(sOut) <= targetSent + 1
    BY <1>1, <1>5 DEF ToClientInv
  <2>2. From(Replied, got, 0)
    BY <1>1, <2>1, FromConcat
  <2> HIDE DEF got
  <2> QED BY <1>1, <1>2, <1>3, <2>1, <2>2
<1>6. ASSUME ~linked PROVE got = <<>> \/ got = <<Rejected>>
  <2>1. <<Rejected>> \in Seq(Int) /\ <<>> \in Seq(Int)
    BY DEF Rejected
  <2> QED BY <1>6, <2>1, ConcatEmptySeq DEF ToClientInv
<1> HIDE DEF onward, got
<1>7. IsPrefix(onward, Data)
  <2>1. ASSUME NEW i \in 1 .. Len(onward) PROVE onward[i] = Data[i]
    <3>1. i \in Nat /\ i \in 1 .. MaxData /\ i >= 1
      BY <1>2, <1>3, <1>4
    <3>2. onward[i] = Requested[2 + i]
      BY <1>4 DEF From
    <3>3. 2 + i \in Nat /\ ~(2 + i <= 2) /\ (2 + i) - 2 = i
      BY <3>1
    <3>4. Requested[2 + i] = i
      BY <3>3 DEF Requested
    <3> QED BY <1>3, <3>1, <3>2, <3>4
  <2> QED BY <1>2, <1>3, <1>4, <2>1, PrefixOf
<1>8. ASSUME linked
      PROVE  /\ IsPrefix(got, <<Granted>> \o Data)
             /\ got # <<>> => Head(got) = Granted
  <2>1. <<Granted>> \in Seq(Int) /\ Len(<<Granted>>) = 1 /\ <<Granted>>[1] = Granted
    BY DEF Granted
  <2> DEFINE all == <<Granted>> \o Data
  <2>2. /\ all \in Seq(Int) /\ Len(all) = 1 + MaxData
        /\ \A i \in 1 .. 1 + MaxData :
             all[i] = IF i <= 1 THEN <<Granted>>[i] ELSE Data[i - 1]
    <3>1. /\ all \in Seq(Int) /\ Len(all) = Len(<<Granted>>) + Len(Data)
          /\ \A i \in 1 .. Len(<<Granted>>) + Len(Data) :
               all[i] = IF i <= Len(<<Granted>>) THEN <<Granted>>[i]
                        ELSE Data[i - Len(<<Granted>>)]
      BY <1>3, <2>1, ConcatProperties
    <3> HIDE DEF all
    <3> QED BY <1>3, <2>1, <3>1
  <2> HIDE DEF all
  <2>3. ASSUME NEW i \in 1 .. Len(got) PROVE got[i] = all[i]
    <3>1. i \in Nat /\ i \in 1 .. 1 + MaxData
      BY <1>2, <1>3, <1>5, <1>8
    <3>2. got[i] = Replied[0 + i]
      BY <1>5, <1>8 DEF From
    <3>3. Replied[i] = IF i = 1 THEN Granted ELSE i - 1
      BY <3>1 DEF Replied
    <3>4. 0 + i = i
      BY <3>1
    <3>5. CASE i = 1
      BY <2>1, <2>2, <3>1, <3>2, <3>3, <3>4, <3>5
    <3>6. CASE i # 1
      <4>1. i - 1 \in 1 .. MaxData /\ ~(i <= 1)
        BY <1>3, <3>1, <3>6
      <4> QED BY <1>3, <2>2, <3>1, <3>2, <3>3, <3>4, <3>6, <4>1
    <3> QED BY <3>5, <3>6
  <2>4. IsPrefix(got, all)
    <3>1. Len(got) <= Len(all)
      BY <1>2, <1>3, <1>5, <1>8, <2>2
    <3> QED BY <1>2, <2>2, <2>3, <3>1, PrefixOf
  <2>5. ASSUME got # <<>> PROVE Head(got) = Granted
    <3>1. 1 \in 1 .. Len(got) /\ Head(got) = got[1]
      BY <1>2, <2>5
    <3>2. got[1] = all[1]
      BY <2>3, <3>1
    <3>3. all[1] = Granted
      BY <1>3, <2>1, <2>2
    <3> QED BY <3>1, <3>2, <3>3
  <2> QED BY <2>4, <2>5 DEF all
<1>9. got # <<>> => Head(got) \in {Granted, Rejected}
  <2>1. CASE linked
    BY <1>8, <2>1
  <2>2. CASE ~linked
    <3>1. Head(<<Rejected>>) = Rejected
      OBVIOUS
    <3> QED BY <1>6, <2>2, <3>1
  <2> QED BY <2>1, <2>2
<1>10. got \in {<<>>, <<Rejected>>} \/ IsPrefix(got, <<Granted>> \o Data)
  BY <1>6, <1>8
<1>11. ASSUME linked, ~early, tSide = "connected"
       PROVE  sIn = <<>> /\ Len(onward) = clientSent - Len(Request)
  <2>1. sIn = <<>>
    BY <1>11 DEF ToTargetInv
  <2>2. 2 + Len(toTarget) + Len(tOut) + Len(sIn) = clientSent
    BY <1>11 DEF ToTargetInv
  <2>3. Len(sIn) = 0 /\ Len(Request) = 2
    BY <2>1, StreamLen
  <2>4. Len(onward) = clientSent - 2
    BY <1>1, <1>2, <2>2, <2>3
  <2> QED BY <2>1, <2>3, <2>4
<1> QED BY <1>7, <1>9, <1>10, <1>11 DEF SocksRight, SidesInv, onward, got

\* Sock4aServer: whatever arrives in whatever pieces, each side gets the other's
\* bytes whole and in order, and the two connections end together, for any
\* number of bytes and any sizes of a request and of MAX_BUFFER.
THEOREM SocksAlwaysRight == SocksSpec => []SocksRight
<1>1. SocksInv /\ [SocksNext]_socksVars => SocksInv'
  <2> SUFFICES ASSUME SocksInv, [SocksNext]_socksVars PROVE SocksInv'
    OBVIOUS
  <2>1. CASE UNCHANGED socksVars
    BY <2>1 DEF socksVars, SocksInv, SocksTypes, ToTargetInv, ToClientInv, SidesInv
  <2>2. CASE SocksNext
    <3>1. socks = "runs"
      BY <2>2 DEF SocksNext
    <3>2. ASSUME NEW n \in 1 .. Len(Request) + MaxData, OnServerMessage(n) PROVE SocksInv'
      <4>1. n \in Nat /\ n >= 1
        OBVIOUS
      <4> QED BY <3>1, <3>2, <4>1, WithContextInv, WithoutContextInv
    <3>3. ASSUME NEW n \in 1 .. MaxData, OnClientMessage(n) PROVE SocksInv'
      BY <3>3, OnClientMessageInv
    <3>4. ASSUME NEW n \in 1 .. MaxData + 1, DrainToClient(n) \/ DrainToTarget(n)
          PROVE  SocksInv'
      <4>1. n \in Nat
        OBVIOUS
      <4> QED BY <3>1, <3>4, <4>1, DrainToClientInv, DrainToTargetInv
    <3> QED BY <2>2, <3>1, <3>2, <3>3, <3>4, TargetUpInv, TargetDownInv, ServerConnDownInv
            DEF SocksNext
  <2> QED BY <2>1, <2>2
<1> QED BY <1>1, SocksInitInv, SocksInvRight, PTL DEF SocksSpec

-----------------------------------------------------------------------------
(* download and chargen: the inductive invariant.                          *)

\* The functors of a connection.
FinishOf(c) == <<"onWriteComplete", c>>
DropOf(c) == <<"connectDestroyed", c>>

Has(q, e) == \E i \in DOMAIN q : q[i] = e
Once(q, e) == \A i, j \in DOMAIN q : q[i] = e /\ q[j] = e => i = j
InFrontOf(q, e, f) == \A i, j \in DOMAIN q : q[i] = e /\ q[j] = f => i < j

\* The numbers behind k, in order.
Numbers == [i \in Nat |-> i]
Counts(s, k) == From(Numbers, s, k)

DFunctions == {"onWriteComplete", "connectDestroyed"} \X Downloads

DownloadTypes ==
  /\ program \in {"download", "download2", "download3", "chargen"}
  /\ fileSize \in Nat
  /\ program = "chargen" => fileSize = LineLen * ChunkSize
  /\ down \in [Downloads -> {"new", "kConnected", "kDisconnecting",
                             "kDisconnected", "destroyed"}]
  /\ file \in [Downloads -> {"none", "open", "closed"}]
  /\ fileContext \in [Downloads -> {"empty", "FILE", "NULL"}]
  /\ position \in [Downloads -> Nat]
  /\ message \in Nat /\ message <= LineLen
  /\ output \in [Downloads -> Seq(Int)] /\ delivered \in [Downloads -> Seq(Int)]
  /\ fin \in [Downloads -> BOOLEAN]
  /\ completions \in Seq(DFunctions)
  /\ undefined \in {"no", "closed FILE", "no such line"}

\* chargen's lines are one connection's only.
Alone ==
  program = "chargen" =>
    \A c, d \in Downloads : down[c] # "new" /\ down[d] # "new" => c = d

\* A write completion is queued once, when nothing waits for the socket, and
\* never behind the connection's end.
CompletionInv(c) ==
  /\ Once(completions, FinishOf(c))
  /\ InFrontOf(completions, FinishOf(c), DropOf(c))
  /\ Has(completions, FinishOf(c)) =>
       /\ output[c] = <<>> /\ program # "download"
       /\ down[c] \notin {"new", "destroyed"}
  /\ Has(completions, DropOf(c)) => down[c] \in {"kDisconnected", "destroyed"}

Sent(c) == Len(delivered[c]) + Len(output[c])

\* How far a connection is: all that was read or composed is on its way.
SentInv(c) ==
  /\ position[c] <= fileSize
  /\ down[c] = "new" =>
       /\ delivered[c] = <<>> /\ output[c] = <<>> /\ position[c] = 0
       /\ file[c] = "none"
  /\ down[c] = "kConnected" => program # "download"
  /\ down[c] = "kConnected" /\ undefined = "no" =>
       output[c] # <<>> \/ Has(completions, FinishOf(c))
  /\ Chunked => Len(output[c]) <= ChunkSize
  /\ fin[c] => output[c] = <<>> /\ down[c] \notin {"new", "kConnected"}
  /\ Alone =>
       /\ Counts(delivered[c], 0) /\ Counts(output[c], Len(delivered[c]))
       /\ Sent(c) <= fileSize
       /\ down[c] = "kConnected" /\ Chunked => Sent(c) = position[c]
       /\ down[c] = "kConnected" /\ program = "chargen" /\ undefined = "no" =>
            Sent(c) = message * ChunkSize
       /\ (down[c] = "kDisconnecting" \/ fin[c]) /\ (Chunked => file[c] # "none") =>
            Sent(c) = fileSize

\* A FILE is closed by the last of its connection.
FileInv(c) ==
  /\ file[c] = "open" => fileContext[c] = "FILE"
  /\ fileContext[c] = "FILE" /\ file[c] = "closed" =>
       \/ program = "download2" /\ down[c] \in {"kDisconnected", "destroyed"}
       \/ program = "download3" /\ down[c] = "destroyed"
  /\ fileContext[c] = "FILE" => file[c] # "none"
  /\ file[c] # "none" => Chunked
  /\ down[c] = "destroyed" => file[c] # "open"
  /\ program = "download2" /\ down[c] = "kDisconnected" => file[c] # "open"

UndefinedInv ==
  /\ (\A c \in Downloads : down[c] = "new") => message = 0
  /\ undefined = "closed FILE" =>
       program = "download2" /\ \E c \in Downloads : down[c] = "kDisconnected"
  /\ undefined = "no such line" => ~Alone

DownloadInv ==
  /\ DownloadTypes /\ UndefinedInv
  /\ \A c \in Downloads : CompletionInv(c) /\ SentInv(c) /\ FileInv(c)

\* What the queue still holds when its first is gone.
LEMMA TailHas ==
  ASSUME NEW S, NEW q \in Seq(S), q # <<>>, NEW e, NEW f
  PROVE  /\ Has(Tail(q), e) => Has(q, e)
         /\ Has(q, e) /\ Head(q) # e => Has(Tail(q), e)
         /\ Once(q, e) => Once(Tail(q), e)
         /\ Once(q, e) /\ Head(q) = e => ~Has(Tail(q), e)
         /\ InFrontOf(q, e, f) => InFrontOf(Tail(q), e, f)
         /\ InFrontOf(q, e, f) /\ Head(q) = f => ~Has(q, e)
         /\ Has(q, Head(q))
<1> DEFINE t == Tail(q)  l == Len(q)
<1>1. /\ l \in Nat /\ l >= 1 /\ Len(t) = l - 1 /\ Head(q) = q[1]
      /\ DOMAIN q = 1 .. l
  <2>1. Len(q) \in Nat /\ Len(q) # 0
    OBVIOUS
  <2> QED BY <2>1, HeadTailProperties
<1>2. t \in Seq(S) /\ \A i \in 1 .. l - 1 : t[i] = q[i + 1]
  BY <1>1, HeadTailProperties
<1>3. DOMAIN t = 1 .. l - 1
  BY <1>1, <1>2
<1> HIDE DEF t, l
<1>4. \A i \in DOMAIN t : i \in Nat /\ i + 1 \in DOMAIN q /\ t[i] = q[i + 1]
  BY <1>1, <1>2, <1>3
<1>5. \A i \in DOMAIN q : i \in Nat /\ (i = 1 \/ (i - 1 \in DOMAIN t /\ t[i - 1] = q[i] /\ i >= 2))
  BY <1>1, <1>2, <1>3
<1>6. Has(t, e) => Has(q, e)
  BY <1>4 DEF Has
<1>7. Has(q, e) /\ Head(q) # e => Has(t, e)
  BY <1>1, <1>5 DEF Has
<1>8. ASSUME Once(q, e) PROVE Once(t, e)
  <2> SUFFICES ASSUME NEW i \in DOMAIN t, NEW j \in DOMAIN t, t[i] = e, t[j] = e
               PROVE  i = j
    BY DEF Once
  <2>1. i \in Nat /\ j \in Nat /\ i + 1 = j + 1
    BY <1>4, <1>8 DEF Once
  <2> QED BY <2>1
<1>9. ASSUME Once(q, e), Head(q) = e PROVE ~Has(t, e)
  <2> SUFFICES ASSUME NEW i \in DOMAIN t, t[i] = e PROVE FALSE
    BY DEF Has
  <2>1. i + 1 = 1 /\ i \in 1 .. l - 1
    BY <1>1, <1>3, <1>4, <1>9 DEF Once
  <2> QED BY <1>1, <2>1
<1>10. ASSUME InFrontOf(q, e, f) PROVE InFrontOf(t, e, f)
  <2> SUFFICES ASSUME NEW i \in DOMAIN t, NEW j \in DOMAIN t, t[i] = e, t[j] = f
               PROVE  i < j
    BY DEF InFrontOf
  <2>1. i \in Nat /\ j \in Nat /\ i + 1 < j + 1
    BY <1>4, <1>10 DEF InFrontOf
  <2> QED BY <2>1
<1>11. ASSUME InFrontOf(q, e, f), Head(q) = f PROVE ~Has(q, e)
  <2> SUFFICES ASSUME NEW i \in DOMAIN q, q[i] = e PROVE FALSE
    BY DEF Has
  <2>1. i < 1 /\ i \in 1 .. l
    BY <1>1, <1>11 DEF InFrontOf
  <2> QED BY <1>1, <2>1
<1>12. Has(q, Head(q))
  BY <1>1 DEF Has
<1> QED BY <1>6, <1>7, <1>8, <1>9, <1>10, <1>11, <1>12 DEF t

\* And with one more.
LEMMA AppendHas ==
  ASSUME NEW S, NEW q \in Seq(S), NEW x \in S, NEW e, NEW f
  PROVE  /\ Has(Append(q, x), e) <=> (Has(q, e) \/ e = x)
         /\ Once(q, e) /\ (x = e => ~Has(q, e)) => Once(Append(q, x), e)
         /\ InFrontOf(q, e, f) /\ (x = e => ~Has(q, f)) /\ e # f =>
              InFrontOf(Append(q, x), e, f)
<1> DEFINE a == Append(q, x)  l == Len(q)
<1>1. l \in Nat /\ DOMAIN q = 1 .. l
  OBVIOUS
<1>2. /\ DOMAIN a = 1 .. l + 1 /\ a[l + 1] = x /\ \A i \in 1 .. l : a[i] = q[i]
  BY <1>1, AppendProperties
<1> HIDE DEF a, l
<1>3. \A i \in DOMAIN a : i \in Nat /\ ((i \in DOMAIN q /\ a[i] = q[i] /\ i <= l)
                                      \/ (i = l + 1 /\ a[i] = x))
  BY <1>1, <1>2
<1>4. \A i \in DOMAIN q : i \in DOMAIN a /\ a[i] = q[i]
  BY <1>1, <1>2
<1>5. l + 1 \in DOMAIN a /\ a[l + 1] = x
  BY <1>1, <1>2
<1>6. Has(a, e) <=> (Has(q, e) \/ e = x)
  BY <1>3, <1>4, <1>5 DEF Has
<1>7. ASSUME Once(q, e), x = e => ~Has(q, e) PROVE Once(a, e)
  <2> SUFFICES ASSUME NEW i \in DOMAIN a, NEW j \in DOMAIN a, a[i] = e, a[j] = e
               PROVE  i = j
    BY DEF Once
  <2> QED BY <1>3, <1>7 DEF Once, Has
<1>8. ASSUME InFrontOf(q, e, f), x = e => ~Has(q, f), e # f PROVE InFrontOf(a, e, f)
  <2> SUFFICES ASSUME NEW i \in DOMAIN a, NEW j \in DOMAIN a, a[i] = e, a[j] = f
               PROVE  i < j
    BY DEF InFrontOf
  <2>1. CASE i \in DOMAIN q /\ j \in DOMAIN q
    BY <1>4, <1>8, <2>1 DEF InFrontOf
  <2>2. CASE i \notin DOMAIN q
    BY <1>3, <1>8, <2>2 DEF Has
  <2>3. CASE i \in DOMAIN q /\ j \notin DOMAIN q
    BY <1>1, <1>3, <2>3
  <2> QED BY <2>1, <2>2, <2>3
<1> QED BY <1>6, <1>7, <1>8 DEF a

\* A step of one connection takes at most the first functor, its own, and
\* queues one of its own.
Moved(c) ==
  \E q : /\ \/ q = completions
            \/ /\ completions # <<>> /\ q = Tail(completions)
               /\ Head(completions) \in {FinishOf(c), DropOf(c)}
         /\ completions' \in {q, Append(q, FinishOf(c)), Append(q, DropOf(c))}

\* A step of connection c leaves the functors of the others where they were.
LEMMA OthersQueued ==
  ASSUME completions \in Seq(DFunctions), NEW c \in Downloads, NEW d \in Downloads, c # d,
         Moved(c)
  PROVE  /\ completions' \in Seq(DFunctions)
         /\ Has(completions', FinishOf(d)) <=> Has(completions, FinishOf(d))
         /\ Has(completions', DropOf(d)) <=> Has(completions, DropOf(d))
         /\ Once(completions, FinishOf(d)) => Once(completions', FinishOf(d))
         /\ InFrontOf(completions, FinishOf(d), DropOf(d)) =>
              InFrontOf(completions', FinishOf(d), DropOf(d))
<1> PICK q : /\ \/ q = completions
                \/ /\ completions # <<>> /\ q = Tail(completions)
                   /\ Head(completions) \in {FinishOf(c), DropOf(c)}
             /\ completions' \in {q, Append(q, FinishOf(c)), Append(q, DropOf(c))}
  BY DEF Moved
<1>1. /\ FinishOf(c) # FinishOf(d) /\ FinishOf(c) # DropOf(d) /\ FinishOf(d) # DropOf(d)
      /\ DropOf(c) # FinishOf(d) /\ DropOf(c) # DropOf(d)
      /\ FinishOf(c) \in DFunctions /\ DropOf(c) \in DFunctions
  BY DEF FinishOf, DropOf, DFunctions
<1>2. /\ q \in Seq(DFunctions)
      /\ Has(q, FinishOf(d)) <=> Has(completions, FinishOf(d))
      /\ Has(q, DropOf(d)) <=> Has(completions, DropOf(d))
      /\ Once(completions, FinishOf(d)) => Once(q, FinishOf(d))
      /\ InFrontOf(completions, FinishOf(d), DropOf(d)) =>
           InFrontOf(q, FinishOf(d), DropOf(d))
  <2>1. CASE q = completions
    BY <2>1
  <2>2. CASE /\ completions # <<>> /\ q = Tail(completions)
             /\ Head(completions) \in {FinishOf(c), DropOf(c)}
    <3>1. q \in Seq(DFunctions)
      BY <2>2
    <3> QED BY <1>1, <2>2, <3>1, TailHas
  <2> QED BY <2>1, <2>2
<1>3. CASE completions' = q
  BY <1>2, <1>3
<1>4. CASE completions' = Append(q, FinishOf(c))
  BY <1>1, <1>2, <1>4, AppendHas, AppendProperties
<1>5. CASE completions' = Append(q, DropOf(c))
  BY <1>1, <1>2, <1>5, AppendHas, AppendProperties
<1> QED BY <1>3, <1>4, <1>5

\* What of a step of connection c remains to be shown when c itself is right.
LEMMA OnlyOne ==
  ASSUME DownloadInv, NEW c \in Downloads, undefined = "no",
         program' = program, fileSize' = fileSize, DownloadTypes', Moved(c),
         down'[c] # "new",
         \A d \in Downloads : d # c =>
           /\ down'[d] = down[d] /\ file'[d] = file[d]
           /\ fileContext'[d] = fileContext[d] /\ position'[d] = position[d]
           /\ output'[d] = output[d] /\ delivered'[d] = delivered[d]
           /\ fin'[d] = fin[d],
         message' = message \/ program = "chargen",
         CompletionInv(c)', SentInv(c)', FileInv(c)',
         undefined' = "closed FILE" =>
           program = "download2" /\ \E d \in Downloads : down'[d] = "kDisconnected",
         undefined' = "no such line" => ~Alone'
  PROVE  DownloadInv'
<1>1. UndefinedInv'
  BY DEF UndefinedInv
<1>2. ASSUME NEW d \in Downloads, d # c
      PROVE  CompletionInv(d)' /\ SentInv(d)' /\ FileInv(d)'
  <2>1. /\ down'[d] = down[d] /\ file'[d] = file[d]
        /\ fileContext'[d] = fileContext[d] /\ position'[d] = position[d]
        /\ output'[d] = output[d] /\ delivered'[d] = delivered[d]
        /\ fin'[d] = fin[d]
    BY <1>2
  <2>2. /\ Has(completions', FinishOf(d)) <=> Has(completions, FinishOf(d))
        /\ Has(completions', DropOf(d)) <=> Has(completions, DropOf(d))
        /\ Once(completions, FinishOf(d)) => Once(completions', FinishOf(d))
        /\ InFrontOf(completions, FinishOf(d), DropOf(d)) =>
             InFrontOf(completions', FinishOf(d), DropOf(d))
    BY <1>2, OthersQueued DEF DownloadInv, DownloadTypes
  <2>3. CompletionInv(d) /\ SentInv(d) /\ FileInv(d)
    BY DEF DownloadInv
  <2>4. CompletionInv(d)'
    BY <2>1, <2>2, <2>3 DEF CompletionInv
  <2>5. FileInv(d)'
    BY <2>1, <2>3 DEF FileInv, Chunked
  <2>6. Alone' => Alone
    BY DEF Alone
  <2>7. Alone' /\ program = "chargen" => down[d] = "new"
    BY <1>2, <2>1 DEF Alone
  <2>8. Sent(d)' = Sent(d) /\ (Chunked' <=> Chunked)
    BY <2>1 DEF Sent, Chunked
  <2>9. SentInv(d)'
    <3>1. ASSUME Alone'
          PROVE  /\ Counts(delivered'[d], 0) /\ Counts(output'[d], Len(delivered'[d]))
                 /\ Sent(d)' <= fileSize'
                 /\ down'[d] = "kConnected" /\ Chunked' => Sent(d)' = position'[d]
                 /\ down'[d] = "kConnected" /\ program' = "chargen" /\ undefined' = "no" =>
                      Sent(d)' = message' * ChunkSize
                 /\ (down'[d] = "kDisconnecting" \/ fin'[d]) /\ (Chunked' => file'[d] # "none") =>
                      Sent(d)' = fileSize'
      BY <2>1, <2>3, <2>6, <2>7, <2>8, <3>1 DEF SentInv
    <3> QED BY <2>1, <2>2, <2>3, <2>8, <3>1 DEF SentInv
  <2> QED BY <2>4, <2>5, <2>9
<1> QED BY <1>1, <1>2 DEF DownloadInv

\* The content, and how much of it is read at a time.
LEMMA ContentIs ==
  ASSUME fileSize \in Nat
  PROVE  /\ Content \in Seq(Int) /\ Len(Content) = fileSize /\ Counts(Content, 0)
         /\ \A m \in Nat, n \in Nat : m <= n /\ n <= fileSize =>
              /\ SubSeq(Content, m + 1, n) \in Seq(Int)
              /\ Len(SubSeq(Content, m + 1, n)) = n - m
              /\ Counts(SubSeq(Content, m + 1, n), m)
<1>1. /\ Content \in Seq(Int) /\ Len(Content) = fileSize
      /\ \A i \in 1 .. fileSize : Content[i] = i
  BY DEF Content
<1>2. Counts(Content, 0)
  BY <1>1 DEF Counts, From, Numbers
<1>3. ASSUME NEW m \in Nat, NEW n \in Nat, m <= n, n <= fileSize
      PROVE  /\ SubSeq(Content, m + 1, n) \in Seq(Int)
             /\ Len(SubSeq(Content, m + 1, n)) = n - m
             /\ Counts(SubSeq(Content, m + 1, n), m)
  <2>1. \A i \in m + 1 .. n : i \in 1 .. fileSize /\ Content[i] \in Int
    BY <1>1, <1>3
  <2>2. /\ SubSeq(Content, m + 1, n) \in Seq(Int)
        /\ Len(SubSeq(Content, m + 1, n)) = n - m
    BY <1>3, <2>1, SubSeqProperties
  <2>3. ASSUME NEW i \in 1 .. n - m
        PROVE  SubSeq(Content, m + 1, n)[i] = Numbers[m + i]
    <3>1. SubSeq(Content, m + 1, n)[i] = Content[m + i] /\ m + i \in 1 .. fileSize
      BY <1>3, <2>1, SubSeqProperties
    <3>2. m + i \in Nat
      OBVIOUS
    <3> QED BY <1>1, <3>1, <3>2 DEF Numbers
  <2> QED BY <2>2, <2>3 DEF Counts, From
<1> QED BY <1>1, <1>2, <1>3

\* A chunk is what the content has behind the position.
LEMMA ChunkIs ==
  ASSUME fileSize \in Nat, NEW p \in Nat, p <= fileSize
  PROVE  /\ Chunk(p) \in Seq(Int) /\ Len(Chunk(p)) \in Nat
         /\ Len(Chunk(p)) <= ChunkSize /\ p + Len(Chunk(p)) <= fileSize
         /\ Counts(Chunk(p), p)
         /\ Chunk(p) = <<>> => p = fileSize
<1> DEFINE m == Min({p + ChunkSize, fileSize})
<1>1. ChunkSize \in Nat /\ ChunkSize # 0
  BY DownloadAssumption
<1>2. m = IF p + ChunkSize <= fileSize THEN p + ChunkSize ELSE fileSize
  <2>1. p + ChunkSize \in Int /\ fileSize \in Int
    BY <1>1
  <2> QED BY <2>1 DEF Min
<1> HIDE DEF m
<1>3. m \in Nat /\ p <= m /\ m <= fileSize /\ m - p <= ChunkSize /\ (m = p => p = fileSize)
  BY <1>1, <1>2
<1>4. Chunk(p) = SubSeq(Content, p + 1, m)
  BY DEF Chunk, m
<1>5. Chunk(p) \in Seq(Int) /\ Len(Chunk(p)) = m - p /\ Counts(Chunk(p), p)
  BY <1>3, <1>4, ContentIs
<1>6. Chunk(p) = <<>> => m - p = 0
  BY <1>5
<1> QED BY <1>3, <1>5, <1>6

\* So is a line of chargen.
LEMMA LineIs ==
  ASSUME DownloadTypes, program = "chargen", NEW n \in Nat, n < LineLen
  PROVE  /\ Line(n) \in Seq(Int) /\ Len(Line(n)) = ChunkSize
         /\ Counts(Line(n), n * ChunkSize)
         /\ n * ChunkSize + ChunkSize = (n + 1) * ChunkSize
         /\ (n + 1) * ChunkSize <= fileSize
<1>1. ChunkSize \in Nat /\ LineLen \in Nat /\ fileSize = LineLen * ChunkSize
  BY DownloadAssumption DEF DownloadTypes
<1>2. n * ChunkSize \in Nat /\ (n + 1) * ChunkSize \in Nat
  BY <1>1
<1>3. (n + 1) * ChunkSize = n * ChunkSize + ChunkSize
  BY <1>1
<1>4. (n + 1) * ChunkSize <= LineLen * ChunkSize
  <2> DEFINE r == LineLen - (n + 1)
  <2>1. r \in Nat /\ LineLen = (n + 1) + r
    BY <1>1
  <2> HIDE DEF r
  <2>2. LineLen * ChunkSize = (n + 1) * ChunkSize + r * ChunkSize
    BY <1>1, <2>1
  <2>3. r * ChunkSize \in Nat
    BY <1>1, <2>1
  <2> QED BY <1>2, <2>2, <2>3
<1> DEFINE a == n * ChunkSize  b == (n + 1) * ChunkSize
<1>5. a \in Nat /\ b \in Nat /\ b = a + ChunkSize /\ b <= fileSize /\ fileSize \in Nat
  BY <1>1, <1>2, <1>3, <1>4 DEF DownloadTypes
<1>6. Line(n) = SubSeq(Content, a + 1, b)
  BY DEF Line
<1> HIDE DEF a, b
<1>7. Line(n) \in Seq(Int) /\ Len(Line(n)) = b - a /\ Counts(Line(n), a)
  BY <1>1, <1>5, <1>6, ContentIs
<1>8. Len(Line(n)) = ChunkSize
  BY <1>1, <1>5, <1>7
<1> QED BY <1>3, <1>5, <1>7, <1>8 DEF a, b

\* What sendInLoop() leaves of the connection and of the queue.
LEMMA Sends ==
  ASSUME output \in [Downloads -> Seq(Int)], delivered \in [Downloads -> Seq(Int)],
         NEW c \in Downloads, NEW data \in Seq(Int), NEW q \in Seq(DFunctions),
         SendInLoop(c, data, q)
  PROVE  /\ output' \in [Downloads -> Seq(Int)] /\ delivered' \in [Downloads -> Seq(Int)]
         /\ \A d \in Downloads : d # c =>
              output'[d] = output[d] /\ delivered'[d] = delivered[d]
         /\ Sent(c)' = Sent(c) + Len(data)
         /\ /\ Counts(delivered[c], 0) /\ Counts(output[c], Len(delivered[c]))
            /\ Counts(data, Sent(c))
            => Counts(delivered'[c], 0) /\ Counts(output'[c], Len(delivered'[c]))
         /\ output[c] = <<>> => Len(output'[c]) <= Len(data)
         /\ \/ completions' = q /\ (output'[c] # <<>> \/ program = "download")
            \/ /\ completions' = Append(q, FinishOf(c)) /\ output'[c] = <<>>
               /\ program # "download"
<1> PICK k \in 0 .. Len(data) :
      /\ output[c] # <<>> => k = 0
      /\ delivered' = [delivered EXCEPT ![c] = @ \o SubSeq(data, 1, k)]
      /\ output' = [output EXCEPT ![c] = @ \o SubSeq(data, k + 1, Len(data))]
      /\ completions' = IF output[c] = <<>> /\ k = Len(data)
                          THEN q \o Completed(c) ELSE q
  BY DEF SendInLoop
<1> DEFINE a == SubSeq(data, 1, k)  b == SubSeq(data, k + 1, Len(data))
           o == output[c]  l == delivered[c]
<1>1. /\ o \in Seq(Int) /\ l \in Seq(Int) /\ Len(o) \in Nat /\ Len(l) \in Nat
      /\ Len(data) \in Nat /\ k \in Nat /\ k <= Len(data)
  OBVIOUS
<1>2. /\ a \in Seq(Int) /\ Len(a) = k /\ b \in Seq(Int) /\ Len(b) = Len(data) - k
      /\ \A j \in Nat : Counts(data, j) => Counts(a, j) /\ Counts(b, j + k)
  <2>1. a \in Seq(Int) /\ b \in Seq(Int)
    BY SplitAt
  <2>2. Len(a) = k /\ Len(b) = Len(data) - k
    <3>1. From([i \in 1 .. Len(data) |-> data[i]], data, 0)
      BY DEF From
    <3>2. 0 \in Nat
      OBVIOUS
    <3> QED BY <3>1, <3>2, FromSplit
  <2>3. ASSUME NEW j \in Nat, Counts(data, j) PROVE Counts(a, j) /\ Counts(b, j + k)
    BY <2>3, FromSplit DEF Counts
  <2> QED BY <2>1, <2>2, <2>3
<1>3. delivered'[c] = l \o a /\ output'[c] = o \o b
  OBVIOUS
<1> HIDE DEF a, b
<1>4. /\ l \o a \in Seq(Int) /\ Len(l \o a) = Len(l) + k
      /\ o \o b \in Seq(Int) /\ Len(o \o b) = Len(o) + (Len(data) - k)
  <2>1. l \o a \in Seq(Int) /\ Len(l \o a) = Len(l) + Len(a)
    BY <1>1, <1>2, ConcatProperties
  <2>2. o \o b \in Seq(Int) /\ Len(o \o b) = Len(o) + Len(b)
    BY <1>1, <1>2, ConcatProperties
  <2> QED BY <1>2, <2>1, <2>2
<1>5. output' \in [Downloads -> Seq(Int)] /\ delivered' \in [Downloads -> Seq(Int)]
  BY <1>4 DEF a, b
<1>6. \A d \in Downloads : d # c => output'[d] = output[d] /\ delivered'[d] = delivered[d]
  OBVIOUS
<1>7. Sent(c)' = Sent(c) + Len(data)
  <2>1. Len(delivered'[c]) = Len(l) + k /\ Len(output'[c]) = Len(o) + (Len(data) - k)
    BY <1>3, <1>4
  <2>2. Sent(c)' = Len(delivered'[c]) + Len(output'[c]) /\ Sent(c) = Len(l) + Len(o)
    BY DEF Sent
  <2> HIDE DEF l, o
  <2> QED BY <1>1, <2>1, <2>2
<1>8. ASSUME Counts(l, 0), Counts(o, Len(l)), Counts(data, Sent(c))
      PROVE  Counts(delivered'[c], 0) /\ Counts(output'[c], Len(delivered'[c]))
  <2> DEFINE n == Sent(c)
  <2>1. n \in Nat /\ n = Len(l) + Len(o)
    BY <1>1 DEF Sent
  <2>2. Counts(data, n)
    BY <1>8
  <2> HIDE DEF n, o, l
  <2>3. Counts(a, n) /\ Counts(b, n + k)
    BY <1>2, <2>1, <2>2
  <2>4. CASE o = <<>>
    <3>1. n = Len(l) /\ Len(o) = 0
      BY <1>1, <2>1, <2>4
    <3>2. Counts(a, 0 + Len(l)) /\ 0 \in Nat
      BY <2>1, <2>3, <3>1
    <3>3. Counts(l \o a, 0)
      BY <1>1, <1>2, <1>8, <3>2, FromConcat DEF Counts
    <3>4. o \o b = b
      BY <1>2, <2>4, ConcatEmptySeq
    <3>5. Counts(o \o b, Len(l \o a))
      BY <1>4, <2>3, <3>1, <3>4
    <3> QED BY <1>3, <3>3, <3>5
  <2>5. CASE o # <<>>
    <3>1. k = 0
      BY <2>5 DEF o
    <3>2. l \o a = l
      <4>1. a = <<>>
        BY <1>2, <3>1
      <4> QED BY <1>1, <4>1, ConcatEmptySeq
    <3>3. Counts(b, Len(l) + Len(o))
      BY <2>1, <2>3, <3>1
    <3>4. Counts(o \o b, Len(l))
      BY <1>1, <1>2, <1>8, <3>3, FromConcat DEF Counts
    <3> QED BY <1>3, <1>8, <3>2, <3>4
  <2> QED BY <2>4, <2>5
<1>9. ASSUME o = <<>> PROVE Len(output'[c]) <= Len(data)
  BY <1>1, <1>3, <1>4, <1>9
<1>10. CASE o = <<>> /\ k = Len(data)
  <2>1. completions' = q \o Completed(c)
    BY <1>10
  <2>2. output'[c] = <<>>
    <3>1. Len(output'[c]) = 0 /\ output'[c] \in Seq(Int)
      BY <1>1, <1>3, <1>4, <1>10
    <3> QED BY <3>1
  <2>3. CASE program = "download"
    <3>1. completions' = q
      BY <2>1, <2>3, ConcatEmptySeq DEF Completed
    <3> QED BY <1>5, <1>6, <1>7, <1>8, <1>9, <2>3, <3>1 DEF o, l
  <2>4. CASE program # "download"
    <3>1. Completed(c) = <<FinishOf(c)>> /\ FinishOf(c) \in DFunctions
      BY <2>4 DEF Completed, FinishOf, DFunctions
    <3>2. completions' = Append(q, FinishOf(c))
      BY <2>1, <3>1, AppendIsConcat
    <3> QED BY <1>5, <1>6, <1>7, <1>8, <1>9, <2>2, <2>4, <3>2 DEF o, l
  <2> QED BY <2>3, <2>4
<1>11. CASE ~(o = <<>> /\ k = Len(data))
  <2>1. completions' = q
    BY <1>11
  <2>2. output'[c] # <<>>
    <3>1. Len(output'[c]) # 0
      <4>1. CASE o # <<>>
        <5>1. k = 0 /\ Len(o) # 0
          BY <1>1, <4>1
        <5> QED BY <1>1, <1>3, <1>4, <5>1
      <4>2. CASE k # Len(data)
        BY <1>1, <1>3, <1>4, <4>2
      <4> QED BY <1>11, <4>1, <4>2
    <3> QED BY <3>1
  <2> QED BY <1>5, <1>6, <1>7, <1>8, <1>9, <2>1, <2>2 DEF o, l
<1> QED BY <1>10, <1>11

\* Connection c's functors after a send from the queue q that held none of them.
LEMMA SentQueued ==
  ASSUME NEW c \in Downloads, NEW q \in Seq(DFunctions),
         InFrontOf(q, FinishOf(c), DropOf(c)), Once(q, FinishOf(c)),
         ~Has(q, FinishOf(c)), ~Has(q, DropOf(c)),
         \/ completions' = q
         \/ /\ completions' = Append(q, FinishOf(c)) /\ output'[c] = <<>>
            /\ program' # "download",
         down'[c] \notin {"new", "destroyed"}
  PROVE  /\ CompletionInv(c)' /\ completions' \in Seq(DFunctions)
         /\ completions' = Append(q, FinishOf(c)) => Has(completions', FinishOf(c))
<1>1. FinishOf(c) \in DFunctions /\ FinishOf(c) # DropOf(c)
  BY DEF FinishOf, DropOf, DFunctions
<1>2. CASE completions' = q
  <2>1. Len(Append(q, FinishOf(c))) # Len(q)
    BY <1>1
  <2> QED BY <1>2, <2>1 DEF CompletionInv
<1>3. CASE /\ completions' = Append(q, FinishOf(c)) /\ output'[c] = <<>>
           /\ program' # "download"
  <2>1. /\ Has(completions', FinishOf(c)) /\ ~Has(completions', DropOf(c))
        /\ Once(completions', FinishOf(c))
        /\ InFrontOf(completions', FinishOf(c), DropOf(c))
    BY <1>1, <1>3, AppendHas
  <2> QED BY <1>1, <1>3, <2>1, AppendProperties DEF CompletionInv
<1> QED BY <1>2, <1>3

\* shutdown() behind the last piece.
LEMMA ShutsDown ==
  ASSUME down \in [Downloads -> {"new", "kConnected", "kDisconnecting",
                                 "kDisconnected", "destroyed"}],
         fin \in [Downloads -> BOOLEAN], NEW c \in Downloads, ShutDown(c)
  PROVE  /\ down' \in [Downloads -> {"new", "kConnected", "kDisconnecting",
                                     "kDisconnected", "destroyed"}]
         /\ fin' \in [Downloads -> BOOLEAN]
         /\ \A d \in Downloads : d # c => down'[d] = down[d] /\ fin'[d] = fin[d]
         /\ down[c] \in {"new", "kConnected"} =>
              /\ down'[c] = "kDisconnecting"
              /\ fin'[c] <=> (fin[c] \/ output'[c] = <<>>)
         /\ down[c] \notin {"new", "kConnected"} =>
              down'[c] = down[c] /\ (fin'[c] <=> fin[c])
<1>1. /\ down' = [down EXCEPT ![c] = IF @ \in {"new", "kConnected"}
                                      THEN "kDisconnecting" ELSE @]
      /\ fin' = [fin EXCEPT ![c] =
                   @ \/ (down[c] \in {"new", "kConnected"} /\ output'[c] = <<>>)]
  BY DEF ShutDown
<1>2. fin'[c] <=> (fin[c] \/ (down[c] \in {"new", "kConnected"} /\ output'[c] = <<>>))
  BY <1>1
<1>3. /\ fin' \in [Downloads -> BOOLEAN]
      /\ \A d \in Downloads : d # c => fin'[d] = fin[d]
  BY <1>1
<1>4. /\ down' \in [Downloads -> {"new", "kConnected", "kDisconnecting",
                                  "kDisconnected", "destroyed"}]
      /\ \A d \in Downloads : d # c => down'[d] = down[d]
      /\ down[c] \in {"new", "kConnected"} => down'[c] = "kDisconnecting"
      /\ down[c] \notin {"new", "kConnected"} => down'[c] = down[c]
  BY <1>1
<1> QED BY <1>2, <1>3, <1>4

\* A connection that is new has nothing yet.
LEMMA NewIs ==
  ASSUME DownloadInv, NEW c \in Downloads, down[c] = "new"
  PROVE  /\ output[c] = <<>> /\ delivered[c] = <<>> /\ Sent(c) = 0 /\ ~fin[c]
         /\ position[c] = 0 /\ file[c] = "none" /\ fileContext[c] # "FILE"
         /\ ~Has(completions, FinishOf(c)) /\ ~Has(completions, DropOf(c))
         /\ Once(completions, FinishOf(c))
         /\ InFrontOf(completions, FinishOf(c), DropOf(c))
         /\ completions \in Seq(DFunctions)
         /\ Counts(delivered[c], 0) /\ Counts(output[c], Len(delivered[c]))
<1>1. CompletionInv(c) /\ SentInv(c) /\ FileInv(c) /\ completions \in Seq(DFunctions)
  BY DEF DownloadInv, DownloadTypes
<1>2. output[c] = <<>> /\ delivered[c] = <<>> /\ position[c] = 0 /\ file[c] = "none"
  BY <1>1 DEF SentInv
<1>3. /\ Sent(c) = 0 /\ Counts(delivered[c], 0) /\ Counts(output[c], Len(delivered[c]))
  BY <1>2 DEF Sent, Counts, From
<1>4. ~fin[c]
  BY <1>1 DEF SentInv
<1>5. /\ ~Has(completions, FinishOf(c)) /\ ~Has(completions, DropOf(c))
      /\ Once(completions, FinishOf(c))
      /\ InFrontOf(completions, FinishOf(c), DropOf(c))
  BY <1>1 DEF CompletionInv
<1>6. fileContext[c] # "FILE"
  BY <1>1, <1>2 DEF FileInv
<1> QED BY <1>1, <1>2, <1>3, <1>4, <1>5, <1>6

\* download: the whole file in one message.
LEMMA DownloadAllInv ==
  ASSUME DownloadInv, NEW c \in Downloads, DownloadAll(c)
  PROVE  DownloadInv'
<1>1. /\ program = "download" /\ undefined = "no" /\ down[c] = "new"
      /\ SendInLoop(c, Content, completions) /\ ShutDown(c)
      /\ UNCHANGED <<program, fileSize, file, fileContext, position, message, undefined>>
  BY DEF DownloadAll, Accepted
<1>2. /\ output[c] = <<>> /\ delivered[c] = <<>> /\ Sent(c) = 0 /\ ~fin[c]
      /\ position[c] = 0 /\ file[c] = "none" /\ fileContext[c] # "FILE"
      /\ ~Has(completions, FinishOf(c)) /\ ~Has(completions, DropOf(c))
      /\ Once(completions, FinishOf(c))
      /\ InFrontOf(completions, FinishOf(c), DropOf(c))
      /\ completions \in Seq(DFunctions)
      /\ Counts(delivered[c], 0) /\ Counts(output[c], Len(delivered[c]))
  BY <1>1, NewIs
<1>3. DownloadTypes
  BY DEF DownloadInv
<1>4. Content \in Seq(Int) /\ Len(Content) = fileSize /\ Counts(Content, 0)
  BY <1>3, ContentIs DEF DownloadTypes
<1>5. /\ output' \in [Downloads -> Seq(Int)] /\ delivered' \in [Downloads -> Seq(Int)]
      /\ \A d \in Downloads : d # c =>
           output'[d] = output[d] /\ delivered'[d] = delivered[d]
      /\ Sent(c)' = Sent(c) + Len(Content)
      /\ Counts(delivered'[c], 0) /\ Counts(output'[c], Len(delivered'[c]))
      /\ completions' = completions
  BY <1>1, <1>2, <1>3, <1>4, Sends DEF DownloadTypes
<1>6. /\ down' \in [Downloads -> {"new", "kConnected", "kDisconnecting",
                                 "kDisconnected", "destroyed"}]
      /\ fin' \in [Downloads -> BOOLEAN]
      /\ \A d \in Downloads : d # c => down'[d] = down[d] /\ fin'[d] = fin[d]
      /\ down'[c] = "kDisconnecting" /\ (fin'[c] => output'[c] = <<>>)
  BY <1>1, <1>2, <1>3, ShutsDown DEF DownloadTypes
<1>7. DownloadTypes'
  BY <1>1, <1>3, <1>5, <1>6 DEF DownloadTypes
<1>8. Moved(c)
  BY <1>5 DEF Moved
<1>9. CompletionInv(c)'
  BY <1>2, <1>5, <1>6 DEF CompletionInv
<1>10. SentInv(c)'
  <2>1. Sent(c)' = fileSize' /\ fileSize \in Nat /\ position'[c] <= fileSize'
    BY <1>1, <1>2, <1>3, <1>4, <1>5 DEF DownloadTypes
  <2>2. ~Chunked'
    BY <1>1 DEF Chunked
  <2> QED BY <1>1, <1>5, <1>6, <2>1, <2>2 DEF SentInv, DownloadTypes
<1>11. FileInv(c)'
  BY <1>1, <1>2, <1>6 DEF FileInv
<1> QED BY <1>1, <1>5, <1>6, <1>7, <1>8, <1>9, <1>10, <1>11, OnlyOne

\* No file: the connection is shut down at once.
LEMMA OpenFailsInv ==
  ASSUME DownloadInv, NEW c \in Downloads, OpenFails(c)
  PROVE  DownloadInv'
<1>1. /\ Chunked /\ undefined = "no" /\ down[c] = "new" /\ ShutDown(c)
      /\ UNCHANGED <<output, delivered, completions>>
      /\ UNCHANGED <<program, fileSize, file, fileContext, position, message, undefined>>
  BY DEF OpenFails, Accepted
<1>2. /\ output[c] = <<>> /\ delivered[c] = <<>> /\ Sent(c) = 0 /\ ~fin[c]
      /\ position[c] = 0 /\ file[c] = "none" /\ fileContext[c] # "FILE"
      /\ ~Has(completions, FinishOf(c)) /\ ~Has(completions, DropOf(c))
      /\ Once(completions, FinishOf(c))
      /\ InFrontOf(completions, FinishOf(c), DropOf(c))
      /\ completions \in Seq(DFunctions)
      /\ Counts(delivered[c], 0) /\ Counts(output[c], Len(delivered[c]))
  BY <1>1, NewIs
<1>3. DownloadTypes
  BY DEF DownloadInv
<1>6. /\ down' \in [Downloads -> {"new", "kConnected", "kDisconnecting",
                                 "kDisconnected", "destroyed"}]
      /\ fin' \in [Downloads -> BOOLEAN]
      /\ \A d \in Downloads : d # c => down'[d] = down[d] /\ fin'[d] = fin[d]
      /\ down'[c] = "kDisconnecting"
  BY <1>1, <1>3, ShutsDown DEF DownloadTypes
<1>7. DownloadTypes'
  BY <1>1, <1>3, <1>6 DEF DownloadTypes
<1>8. Moved(c)
  BY <1>1 DEF Moved
<1>9. CompletionInv(c)'
  BY <1>1, <1>2, <1>6 DEF CompletionInv
<1>10. SentInv(c)'
  <2>1. Sent(c)' = 0 /\ fileSize' \in Nat /\ position'[c] <= fileSize' /\ Sent(c)' <= fileSize'
    BY <1>1, <1>2, <1>3 DEF DownloadTypes, Sent
  <2>2. Chunked' /\ ChunkSize \in Nat /\ Len(output'[c]) = 0
    BY <1>1, <1>2, DownloadAssumption DEF Chunked
  <2>3. Counts(delivered'[c], 0) /\ Counts(output'[c], Len(delivered'[c]))
    BY <1>1, <1>2
  <2> QED BY <1>1, <1>2, <1>6, <2>1, <2>2, <2>3 DEF SentInv
<1>11. FileInv(c)'
  BY <1>1, <1>2, <1>6 DEF FileInv
<1> QED BY <1>1, <1>6, <1>7, <1>8, <1>9, <1>10, <1>11, OnlyOne

\* download2 and download3: the file opened and its first chunk sent.
LEMMA OpenAndSendInv ==
  ASSUME DownloadInv, NEW c \in Downloads, OpenAndSend(c)
  PROVE  DownloadInv'
<1>1. /\ Chunked /\ undefined = "no" /\ down[c] = "new"
      /\ file' = [file EXCEPT ![c] = "open"]
      /\ fileContext' = [fileContext EXCEPT ![c] = "FILE"]
      /\ position' = [position EXCEPT ![c] = Len(Chunk(0))]
      /\ SendInLoop(c, Chunk(0), completions)
      /\ down' = [down EXCEPT ![c] = "kConnected"]
      /\ UNCHANGED <<program, fileSize, message, fin, undefined>>
  BY DEF OpenAndSend, Accepted
<1>2. /\ output[c] = <<>> /\ delivered[c] = <<>> /\ Sent(c) = 0 /\ ~fin[c]
      /\ position[c] = 0 /\ file[c] = "none" /\ fileContext[c] # "FILE"
      /\ ~Has(completions, FinishOf(c)) /\ ~Has(completions, DropOf(c))
      /\ Once(completions, FinishOf(c))
      /\ InFrontOf(completions, FinishOf(c), DropOf(c))
      /\ completions \in Seq(DFunctions)
      /\ Counts(delivered[c], 0) /\ Counts(output[c], Len(delivered[c]))
  BY <1>1, NewIs
<1>3. DownloadTypes /\ fileSize \in Nat
  BY DEF DownloadInv, DownloadTypes
<1>4. /\ Chunk(0) \in Seq(Int) /\ Len(Chunk(0)) \in Nat
      /\ Len(Chunk(0)) <= ChunkSize /\ Len(Chunk(0)) <= fileSize /\ Counts(Chunk(0), 0)
  <2>1. 0 \in Nat /\ 0 <= fileSize
    BY <1>3
  <2>2. /\ Chunk(0) \in Seq(Int) /\ Len(Chunk(0)) \in Nat
        /\ Len(Chunk(0)) <= ChunkSize /\ 0 + Len(Chunk(0)) <= fileSize /\ Counts(Chunk(0), 0)
    BY <1>3, <2>1, ChunkIs
  <2> QED BY <2>2
<1> DEFINE data == Chunk(0)
<1> HIDE DEF data
<1>5. /\ output' \in [Downloads -> Seq(Int)] /\ delivered' \in [Downloads -> Seq(Int)]
      /\ \A d \in Downloads : d # c =>
           output'[d] = output[d] /\ delivered'[d] = delivered[d]
      /\ Sent(c)' = Sent(c) + Len(data)
      /\ Counts(delivered'[c], 0) /\ Counts(output'[c], Len(delivered'[c]))
      /\ Len(output'[c]) <= Len(data)
      /\ \/ completions' = completions /\ output'[c] # <<>>
         \/ /\ completions' = Append(completions, FinishOf(c)) /\ output'[c] = <<>>
            /\ program # "download"
  BY <1>1, <1>2, <1>3, <1>4, Sends DEF DownloadTypes, Chunked, data
<1>6. down'[c] = "kConnected" /\ position'[c] = Len(data) /\ file'[c] = "open"
      /\ fileContext'[c] = "FILE"
  BY <1>1, <1>3 DEF DownloadTypes, data
<1>7. /\ CompletionInv(c)' /\ completions' \in Seq(DFunctions)
      /\ output'[c] # <<>> \/ Has(completions', FinishOf(c))
  BY <1>1, <1>2, <1>5, <1>6, SentQueued
<1>8. DownloadTypes'
  BY <1>1, <1>3, <1>4, <1>5, <1>7 DEF DownloadTypes
<1>9. Moved(c)
  BY <1>5 DEF Moved
<1>10. SentInv(c)'
  <2>1. /\ Sent(c)' = position'[c] /\ Sent(c)' <= fileSize' /\ position'[c] <= fileSize'
        /\ Len(output'[c]) <= ChunkSize
    <3>1. /\ Len(data) \in Nat /\ Len(data) <= fileSize /\ Len(data) <= ChunkSize
          /\ ChunkSize \in Nat /\ Len(output'[c]) \in Nat
      BY <1>4, <1>5, DownloadAssumption DEF data
    <3> QED BY <1>1, <1>2, <1>3, <1>5, <1>6, <3>1
  <2>2. Chunked' /\ program' # "download" /\ program' # "chargen" /\ ~fin'[c]
    BY <1>1, <1>2 DEF Chunked
  <2> QED BY <1>5, <1>6, <1>7, <2>1, <2>2 DEF SentInv
<1>11. FileInv(c)'
  <2>1. Chunked'
    BY <1>1 DEF Chunked
  <2> QED BY <1>6, <2>1 DEF FileInv
<1>12. \A d \in Downloads : d # c =>
        /\ down'[d] = down[d] /\ file'[d] = file[d]
        /\ fileContext'[d] = fileContext[d] /\ position'[d] = position[d]
        /\ output'[d] = output[d] /\ delivered'[d] = delivered[d]
        /\ fin'[d] = fin[d]
  BY <1>1, <1>3, <1>5 DEF DownloadTypes
<1> QED BY <1>1, <1>6, <1>7, <1>8, <1>9, <1>10, <1>11, <1>12, OnlyOne

\* chargen: the first line.
LEMMA SendFirstLineInv ==
  ASSUME DownloadInv, NEW c \in Downloads, SendFirstLine(c)
  PROVE  DownloadInv'
<1>1. /\ program = "chargen" /\ undefined = "no" /\ down[c] = "new"
      /\ down' = [down EXCEPT ![c] = "kConnected"]
      /\ \/ /\ message < LineLen /\ message' = message + 1
            /\ SendInLoop(c, Line(message), completions) /\ undefined' = undefined
         \/ /\ ~(message < LineLen) /\ undefined' = "no such line"
            /\ UNCHANGED <<message, output, delivered, completions>>
      /\ UNCHANGED <<program, fileSize, file, fileContext, position, fin>>
  BY DEF SendFirstLine, Accepted
<1>2. /\ output[c] = <<>> /\ delivered[c] = <<>> /\ Sent(c) = 0 /\ ~fin[c]
      /\ position[c] = 0 /\ file[c] = "none" /\ fileContext[c] # "FILE"
      /\ ~Has(completions, FinishOf(c)) /\ ~Has(completions, DropOf(c))
      /\ Once(completions, FinishOf(c))
      /\ InFrontOf(completions, FinishOf(c), DropOf(c))
      /\ completions \in Seq(DFunctions)
      /\ Counts(delivered[c], 0) /\ Counts(output[c], Len(delivered[c]))
  BY <1>1, NewIs
<1>3. DownloadTypes
  BY DEF DownloadInv
<1>10. /\ fileSize \in Nat /\ message \in Nat /\ LineLen \in Nat /\ LineLen # 0
       /\ ChunkSize \in Nat
  BY <1>3, DownloadAssumption DEF DownloadTypes
<1>11. position'[c] <= fileSize' /\ fileSize' = fileSize
  <2>1. position' = position /\ fileSize' = fileSize
    BY <1>1
  <2>2. position[c] = 0
    BY <1>2
  <2> QED BY <1>10, <2>1, <2>2
<1>4. ~Chunked' /\ ~Chunked
  BY <1>1 DEF Chunked
<1>5. /\ down'[c] = "kConnected"
      /\ \A d \in Downloads : d # c =>
           /\ down'[d] = down[d] /\ file'[d] = file[d]
           /\ fileContext'[d] = fileContext[d] /\ position'[d] = position[d]
           /\ fin'[d] = fin[d]
  BY <1>1, <1>3 DEF DownloadTypes
\* chargen's first connection finds no line sent.
<1>6. Alone' => message = 0
  <2> SUFFICES ASSUME Alone' PROVE message = 0
    OBVIOUS
  <2>1. ASSUME NEW d \in Downloads PROVE down[d] = "new"
    BY <1>1, <1>5 DEF Alone
  <2> QED BY <2>1 DEF DownloadInv, UndefinedInv
<1>7. FileInv(c)'
  BY <1>1, <1>2, <1>5 DEF FileInv
<1>8. CASE /\ message < LineLen /\ message' = message + 1
           /\ SendInLoop(c, Line(message), completions) /\ undefined' = undefined
  <2> DEFINE data == Line(message)
  <2>1. /\ data \in Seq(Int) /\ Len(data) = ChunkSize
        /\ Counts(data, message * ChunkSize)
        /\ (message + 1) * ChunkSize <= fileSize
    BY <1>1, <1>3, <1>8, <1>10, LineIs
  <2> HIDE DEF data
  <2>2. /\ output' \in [Downloads -> Seq(Int)] /\ delivered' \in [Downloads -> Seq(Int)]
        /\ \A d \in Downloads : d # c =>
             output'[d] = output[d] /\ delivered'[d] = delivered[d]
        /\ Sent(c)' = Sent(c) + Len(data)
        /\ /\ Counts(delivered[c], 0) /\ Counts(output[c], Len(delivered[c]))
           /\ Counts(data, Sent(c))
           => Counts(delivered'[c], 0) /\ Counts(output'[c], Len(delivered'[c]))
        /\ \/ completions' = completions /\ output'[c] # <<>>
           \/ /\ completions' = Append(completions, FinishOf(c)) /\ output'[c] = <<>>
              /\ program # "download"
    BY <1>1, <1>2, <1>3, <1>8, <2>1, Sends DEF DownloadTypes, data
  <2>3. /\ CompletionInv(c)' /\ completions' \in Seq(DFunctions)
        /\ output'[c] # <<>> \/ Has(completions', FinishOf(c))
    BY <1>1, <1>2, <1>5, <2>2, SentQueued
  <2>4. DownloadTypes'
    <3>1. message' \in Nat /\ message' <= LineLen
      BY <1>8, <1>10
    <3> QED BY <1>1, <1>3, <1>8, <2>2, <2>3, <3>1 DEF DownloadTypes
  <2>5. Moved(c)
    BY <2>2 DEF Moved
  <2>6. ASSUME Alone'
        PROVE  /\ Counts(delivered'[c], 0) /\ Counts(output'[c], Len(delivered'[c]))
               /\ Sent(c)' = message' * ChunkSize /\ Sent(c)' <= fileSize'
    <3>1. message = 0 /\ message' = 1
      BY <1>6, <1>8, <2>6
    <3>2. message * ChunkSize = 0 /\ (message + 1) * ChunkSize = ChunkSize
          /\ message' * ChunkSize = ChunkSize
      BY <1>10, <3>1
    <3>3. Counts(data, Sent(c))
      BY <1>2, <2>1, <3>2
    <3>4. Sent(c)' = ChunkSize
      BY <1>2, <1>10, <2>1, <2>2
    <3>5. ChunkSize <= fileSize
      BY <2>1, <3>2
    <3> QED BY <1>2, <1>11, <2>2, <3>2, <3>3, <3>4, <3>5
  <2>7. SentInv(c)'
    BY <1>1, <1>2, <1>4, <1>5, <1>11, <2>3, <2>6 DEF SentInv
  <2> QED BY <1>1, <1>5, <1>7, <1>8, <2>2, <2>3, <2>4, <2>5, <2>7, OnlyOne
<1>9. CASE /\ ~(message < LineLen) /\ undefined' = "no such line"
           /\ UNCHANGED <<message, output, delivered, completions>>
  <2>1. ~Alone'
    <3>1. 0 < LineLen
      BY <1>10
    <3> QED BY <1>6, <1>9, <3>1
  <2>2. DownloadTypes'
    BY <1>1, <1>3, <1>9 DEF DownloadTypes
  <2>3. Moved(c)
    BY <1>9 DEF Moved
  <2>4. CompletionInv(c)'
    BY <1>2, <1>5, <1>9 DEF CompletionInv
  <2>5. SentInv(c)'
    BY <1>1, <1>2, <1>4, <1>5, <1>9, <1>11, <2>1 DEF SentInv
  <2> QED BY <1>1, <1>5, <1>7, <1>9, <2>1, <2>2, <2>3, <2>4, <2>5, OnlyOne
<1> QED BY <1>1, <1>8, <1>9

\* A completion that is called back was its connection's last.
LEMMA CalledBack ==
  ASSUME DownloadInv, NEW c \in Downloads, CallsBack(c)
  PROVE  /\ completions # <<>> /\ Head(completions) = FinishOf(c)
         /\ Tail(completions) \in Seq(DFunctions)
         /\ ~Has(Tail(completions), FinishOf(c))
         /\ Once(Tail(completions), FinishOf(c))
         /\ InFrontOf(Tail(completions), FinishOf(c), DropOf(c))
         /\ Has(Tail(completions), DropOf(c)) => down[c] \in {"kDisconnected", "destroyed"}
         /\ output[c] = <<>> /\ program # "download" /\ down[c] \notin {"new", "destroyed"}
<1>1. completions # <<>> /\ Head(completions) = FinishOf(c)
  BY DEF CallsBack, FinishOf
<1>2. completions \in Seq(DFunctions) /\ CompletionInv(c)
  BY DEF DownloadInv, DownloadTypes
<1>3. Tail(completions) \in Seq(DFunctions)
  BY <1>1, <1>2
<1>4. Has(completions, FinishOf(c))
  BY <1>1, <1>2, TailHas
<1>5. Has(Tail(completions), DropOf(c)) => Has(completions, DropOf(c))
  BY <1>1, <1>2, TailHas
<1>6. /\ ~Has(Tail(completions), FinishOf(c))
      /\ Once(Tail(completions), FinishOf(c))
      /\ InFrontOf(Tail(completions), FinishOf(c), DropOf(c))
  BY <1>1, <1>2, TailHas DEF CompletionInv
<1> QED BY <1>1, <1>2, <1>3, <1>4, <1>5, <1>6 DEF CompletionInv

\* Its functors when nothing is sent.
LEMMA OnlyTaken ==
  ASSUME DownloadInv, NEW c \in Downloads, CallsBack(c),
         completions' = Tail(completions),
         down[c] \in {"kDisconnected", "destroyed"} => down'[c] = down[c]
  PROVE  CompletionInv(c)' /\ Moved(c) /\ completions' \in Seq(DFunctions)
<1>1. CompletionInv(c)'
  BY CalledBack DEF CompletionInv
<1>2. Moved(c)
  BY CalledBack DEF Moved
<1> QED BY <1>1, <1>2, CalledBack

\* The next chunk behind a completion.
LEMMA NextChunkInv ==
  ASSUME DownloadInv, NEW c \in Downloads, CallsBack(c), NextChunk(c),
         UNCHANGED <<program, fileSize>>
  PROVE  DownloadInv'
<1>1. /\ Chunked /\ fileContext[c] = "FILE" /\ file[c] = "open" /\ undefined = "no"
      /\ position' = [position EXCEPT ![c] = @ + Len(Chunk(@))]
      /\ SendFrom(c, Chunk(position[c]))
      /\ UNCHANGED <<down, file, fileContext, message, fin, undefined>>
  BY DEF NextChunk, CallsBack
<1>2. DownloadTypes /\ fileSize \in Nat /\ SentInv(c) /\ FileInv(c) /\ ChunkSize \in Nat
      /\ position[c] \in Nat /\ position[c] <= fileSize
  BY DownloadAssumption DEF DownloadInv, DownloadTypes, SentInv
<1> DEFINE data == Chunk(position[c])  q == Tail(completions)
<1>3. /\ data \in Seq(Int) /\ Len(data) \in Nat /\ Len(data) <= ChunkSize
      /\ position[c] + Len(data) <= fileSize /\ Counts(data, position[c])
  BY <1>2, ChunkIs
<1>4. /\ position'[c] = position[c] + Len(data)
      /\ position' \in [Downloads -> Nat]
      /\ \A d \in Downloads : d # c => position'[d] = position[d]
  BY <1>1, <1>2, <1>3 DEF DownloadTypes
<1> HIDE DEF data
<1>5. Chunked' /\ program # "chargen" /\ program # "download" /\ Alone /\ Alone'
  BY <1>1 DEF Chunked, Alone
<1>6. FileInv(c)'
  BY <1>1, <1>2, <1>5 DEF FileInv
<1>7. /\ q \in Seq(DFunctions) /\ ~Has(q, FinishOf(c)) /\ Once(q, FinishOf(c))
      /\ InFrontOf(q, FinishOf(c), DropOf(c))
      /\ Has(q, DropOf(c)) => down[c] \in {"kDisconnected", "destroyed"}
      /\ output[c] = <<>> /\ down[c] \notin {"new", "destroyed"}
      /\ completions # <<>> /\ Head(completions) = FinishOf(c)
  BY CalledBack
<1>8. CASE down[c] # "kConnected"
  <2>1. completions' = q /\ UNCHANGED <<output, delivered>>
    BY <1>1, <1>8 DEF SendFrom
  <2>2. CompletionInv(c)' /\ Moved(c) /\ completions' \in Seq(DFunctions)
    BY <1>1, <2>1, OnlyTaken
  <2>3. DownloadTypes'
    BY <1>1, <1>2, <1>4, <2>1, <2>2 DEF DownloadTypes
  <2>4. SentInv(c)'
    <3>1. position'[c] <= fileSize' /\ Sent(c)' = Sent(c)
      BY <1>3, <1>4, <2>1 DEF Sent
    <3> QED BY <1>1, <1>2, <1>5, <1>8, <2>1, <3>1 DEF SentInv
  <2> QED BY <1>1, <1>4, <1>6, <1>7, <2>1, <2>2, <2>3, <2>4, OnlyOne
<1>9. CASE down[c] = "kConnected"
  <2>1. SendInLoop(c, data, q)
    BY <1>1, <1>9 DEF SendFrom, data
  <2>2. /\ output' \in [Downloads -> Seq(Int)] /\ delivered' \in [Downloads -> Seq(Int)]
        /\ \A d \in Downloads : d # c =>
             output'[d] = output[d] /\ delivered'[d] = delivered[d]
        /\ Sent(c)' = Sent(c) + Len(data)
        /\ /\ Counts(delivered[c], 0) /\ Counts(output[c], Len(delivered[c]))
           /\ Counts(data, Sent(c))
           => Counts(delivered'[c], 0) /\ Counts(output'[c], Len(delivered'[c]))
        /\ Len(output'[c]) <= Len(data)
        /\ \/ completions' = q /\ output'[c] # <<>>
           \/ /\ completions' = Append(q, FinishOf(c)) /\ output'[c] = <<>>
              /\ program # "download"
    <3> HIDE DEF q
    <3> QED BY <1>2, <1>3, <1>5, <1>7, <2>1, Sends DEF DownloadTypes
  <2>3. /\ CompletionInv(c)' /\ completions' \in Seq(DFunctions)
        /\ output'[c] # <<>> \/ Has(completions', FinishOf(c))
    <3> HIDE DEF q
    <3> QED BY <1>1, <1>7, <1>9, <2>2, SentQueued
  <2>4. DownloadTypes'
    BY <1>1, <1>2, <1>4, <2>2, <2>3 DEF DownloadTypes
  <2>5. Moved(c)
    BY <1>7, <2>2 DEF Moved
  <2>6. /\ Counts(delivered[c], 0) /\ Counts(output[c], Len(delivered[c]))
        /\ Sent(c) = position[c] /\ ~fin[c]
    BY <1>1, <1>2, <1>5, <1>9 DEF SentInv
  <2>7. /\ Counts(delivered'[c], 0) /\ Counts(output'[c], Len(delivered'[c]))
        /\ Sent(c)' = position'[c]
    BY <1>3, <1>4, <2>2, <2>6
  <2>8. Len(output'[c]) <= ChunkSize /\ Sent(c)' <= fileSize' /\ position'[c] <= fileSize'
    <3>1. Len(output'[c]) \in Nat
      BY <2>2
    <3> QED BY <1>2, <1>3, <1>4, <2>2, <2>7, <3>1
  <2>9. SentInv(c)'
    BY <1>1, <1>5, <1>9, <2>3, <2>6, <2>7, <2>8 DEF SentInv
  <2> QED BY <1>1, <1>4, <1>6, <1>9, <2>2, <2>3, <2>4, <2>5, <2>9, OnlyOne
<1> QED BY <1>8, <1>9

\* Nothing is left to read: the file closed, the connection shut down.
LEMMA FileEndsInv ==
  ASSUME DownloadInv, NEW c \in Downloads, CallsBack(c), FileEnds(c),
         UNCHANGED <<program, fileSize>>
  PROVE  DownloadInv'
<1>1. /\ Chunked /\ fileContext[c] = "FILE" /\ file[c] = "open" /\ undefined = "no"
      /\ Chunk(position[c]) = <<>>
      /\ completions' = Tail(completions) /\ UNCHANGED <<output, delivered>>
      /\ \/ /\ program = "download2"
            /\ file' = [file EXCEPT ![c] = "closed"]
            /\ fileContext' = [fileContext EXCEPT ![c] = "NULL"]
         \/ program # "download2" /\ UNCHANGED <<file, fileContext>>
      /\ ShutDown(c)
      /\ UNCHANGED <<position, message, undefined>>
  BY DEF FileEnds, CallsBack, FileDone
<1>2. DownloadTypes /\ SentInv(c) /\ FileInv(c)
  BY DEF DownloadInv
<1>3. /\ fileSize \in Nat /\ position[c] \in Nat /\ position[c] <= fileSize
      /\ down[c] \in {"new", "kConnected", "kDisconnecting", "kDisconnected", "destroyed"}
  BY <1>2 DEF DownloadTypes, SentInv
<1>4. position[c] = fileSize
  BY <1>1, <1>3, ChunkIs
<1>5. output[c] = <<>> /\ down[c] \notin {"new", "destroyed"}
  BY CalledBack
<1>6. /\ down' \in [Downloads -> {"new", "kConnected", "kDisconnecting",
                                  "kDisconnected", "destroyed"}]
      /\ fin' \in [Downloads -> BOOLEAN]
      /\ \A d \in Downloads : d # c => down'[d] = down[d] /\ fin'[d] = fin[d]
      /\ down[c] \in {"new", "kConnected"} =>
           /\ down'[c] = "kDisconnecting"
           /\ fin'[c] <=> (fin[c] \/ output'[c] = <<>>)
      /\ down[c] \notin {"new", "kConnected"} =>
           down'[c] = down[c] /\ (fin'[c] <=> fin[c])
  BY <1>1, <1>2, ShutsDown DEF DownloadTypes
<1>7. CompletionInv(c)' /\ Moved(c) /\ completions' \in Seq(DFunctions)
  BY <1>1, <1>6, OnlyTaken
<1>8. /\ file' \in [Downloads -> {"none", "open", "closed"}]
      /\ fileContext' \in [Downloads -> {"empty", "FILE", "NULL"}]
      /\ \A d \in Downloads : d # c =>
           file'[d] = file[d] /\ fileContext'[d] = fileContext[d]
      /\ file'[c] # "none"
      /\ \/ program = "download2" /\ file'[c] = "closed" /\ fileContext'[c] = "NULL"
         \/ /\ program # "download2" /\ file'[c] = "open" /\ fileContext'[c] = "FILE"
  BY <1>1, <1>2 DEF DownloadTypes
<1>9. DownloadTypes'
  BY <1>1, <1>2, <1>6, <1>7, <1>8 DEF DownloadTypes
<1>10. /\ Chunked' /\ program # "chargen" /\ program # "download" /\ Alone /\ Alone'
       /\ Sent(c)' = Sent(c)
  BY <1>1 DEF Chunked, Alone, Sent
<1>11. FileInv(c)'
  BY <1>1, <1>2, <1>5, <1>6, <1>8, <1>10 DEF FileInv
<1>12. down[c] = "kConnected" => Sent(c) = fileSize
  BY <1>1, <1>2, <1>4, <1>10 DEF SentInv
<1>13. SentInv(c)'
  <2>1. down'[c] # "new" /\ down'[c] # "kConnected"
    BY <1>3, <1>5, <1>6
  <2>2. position'[c] <= fileSize' /\ fileSize' = fileSize /\ output'[c] = output[c]
        /\ delivered'[c] = delivered[c]
    BY <1>1, <1>3
  <2>3. down'[c] = "kDisconnecting" \/ fin'[c] => Sent(c) = fileSize
    BY <1>1, <1>2, <1>3, <1>5, <1>6, <1>10, <1>12 DEF SentInv
  <2>4. /\ Counts(delivered[c], 0) /\ Counts(output[c], Len(delivered[c]))
        /\ Sent(c) <= fileSize /\ Len(output[c]) <= ChunkSize
    BY <1>1, <1>2, <1>10 DEF SentInv
  <2> QED BY <1>5, <1>10, <2>1, <2>2, <2>3, <2>4 DEF SentInv
<1>14. down'[c] # "new"
  BY <1>5, <1>6
<1> QED BY <1>1, <1>6, <1>7, <1>8, <1>9, <1>11, <1>13, <1>14, OnlyOne

\* download2 reads a FILE its connection has closed.
LEMMA ReadClosedInv ==
  ASSUME DownloadInv, NEW c \in Downloads, CallsBack(c), ReadClosed(c),
         UNCHANGED <<program, fileSize>>
  PROVE  DownloadInv'
<1>1. /\ fileContext[c] = "FILE" /\ file[c] = "closed" /\ undefined = "no"
      /\ undefined' = "closed FILE"
      /\ UNCHANGED <<down, file, fileContext, position, message, output, delivered,
                     fin, completions>>
  BY DEF ReadClosed, CallsBack
<1>2. DownloadTypes /\ SentInv(c) /\ FileInv(c) /\ CompletionInv(c)
  BY DEF DownloadInv
<1>3. down[c] \notin {"new", "destroyed"}
  BY CalledBack
<1>4. program = "download2" /\ down[c] = "kDisconnected"
  BY <1>1, <1>2, <1>3 DEF FileInv
<1>5. DownloadTypes'
  BY <1>1, <1>2 DEF DownloadTypes
<1>6. Moved(c)
  BY <1>1 DEF Moved
<1>7. CompletionInv(c)'
  BY <1>1, <1>2 DEF CompletionInv
<1>8. FileInv(c)'
  BY <1>1, <1>2 DEF FileInv, Chunked
<1>9. SentInv(c)'
  <2>1. Alone' => Alone
    BY <1>1 DEF Alone
  <2>2. Sent(c)' = Sent(c) /\ (Chunked' <=> Chunked)
    BY <1>1 DEF Sent, Chunked
  <2> QED BY <1>1, <1>2, <1>4, <2>1, <2>2 DEF SentInv
<1> QED BY <1>1, <1>3, <1>4, <1>5, <1>6, <1>7, <1>8, <1>9, OnlyOne

\* The next line behind a completion.
LEMMA NextLineInv ==
  ASSUME DownloadInv, NEW c \in Downloads, CallsBack(c), NextLine(c),
         UNCHANGED <<program, fileSize>>
  PROVE  DownloadInv'
<1>1. /\ program = "chargen" /\ message # LineLen /\ undefined = "no"
      /\ message' = message + 1
      /\ SendFrom(c, Line(message))
      /\ UNCHANGED <<down, file, fileContext, position, fin, undefined>>
  BY DEF NextLine, CallsBack
<1>2. DownloadTypes /\ SentInv(c) /\ FileInv(c)
  BY DEF DownloadInv
<1>3. /\ fileSize \in Nat /\ ChunkSize \in Nat /\ LineLen \in Nat
      /\ message \in Nat /\ message < LineLen /\ message' \in Nat /\ message' <= LineLen
  <2>1. message \in Nat /\ message <= LineLen /\ fileSize \in Nat
    BY <1>2 DEF DownloadTypes
  <2> QED BY <1>1, <2>1, DownloadAssumption
<1> DEFINE data == Line(message)  q == Tail(completions)
<1>4. /\ data \in Seq(Int) /\ Len(data) = ChunkSize
      /\ Counts(data, message * ChunkSize)
      /\ message * ChunkSize + ChunkSize = (message + 1) * ChunkSize
      /\ (message + 1) * ChunkSize <= fileSize
  BY <1>1, <1>2, <1>3, LineIs
<1> HIDE DEF data
<1>5. ~Chunked' /\ ~Chunked /\ (Alone' => Alone)
  BY <1>1 DEF Chunked, Alone
<1>6. FileInv(c)'
  BY <1>1, <1>2, <1>5 DEF FileInv
<1>7. /\ q \in Seq(DFunctions) /\ ~Has(q, FinishOf(c)) /\ Once(q, FinishOf(c))
      /\ InFrontOf(q, FinishOf(c), DropOf(c))
      /\ Has(q, DropOf(c)) => down[c] \in {"kDisconnected", "destroyed"}
      /\ output[c] = <<>> /\ down[c] \notin {"new", "destroyed"}
      /\ completions # <<>> /\ Head(completions) = FinishOf(c)
  BY CalledBack
<1>8. position'[c] <= fileSize' /\ fileSize' = fileSize
  BY <1>1, <1>2 DEF SentInv
<1>9. CASE down[c] # "kConnected"
  <2>1. completions' = q /\ UNCHANGED <<output, delivered>>
    BY <1>1, <1>9 DEF SendFrom
  <2>2. CompletionInv(c)' /\ Moved(c) /\ completions' \in Seq(DFunctions)
    BY <1>1, <2>1, OnlyTaken
  <2>3. DownloadTypes'
    BY <1>1, <1>2, <1>3, <2>1, <2>2 DEF DownloadTypes
  <2>4. SentInv(c)'
    <3>1. Sent(c)' = Sent(c)
      BY <2>1 DEF Sent
    <3> QED BY <1>1, <1>2, <1>5, <1>8, <1>9, <2>1, <3>1 DEF SentInv
  <2> QED BY <1>1, <1>6, <1>7, <2>1, <2>2, <2>3, <2>4, OnlyOne
<1>10. CASE down[c] = "kConnected"
  <2>1. SendInLoop(c, data, q)
    BY <1>1, <1>10 DEF SendFrom, data
  <2>2. /\ output' \in [Downloads -> Seq(Int)] /\ delivered' \in [Downloads -> Seq(Int)]
        /\ \A d \in Downloads : d # c =>
             output'[d] = output[d] /\ delivered'[d] = delivered[d]
        /\ Sent(c)' = Sent(c) + Len(data)
        /\ /\ Counts(delivered[c], 0) /\ Counts(output[c], Len(delivered[c]))
           /\ Counts(data, Sent(c))
           => Counts(delivered'[c], 0) /\ Counts(output'[c], Len(delivered'[c]))
        /\ \/ completions' = q /\ output'[c] # <<>>
           \/ /\ completions' = Append(q, FinishOf(c)) /\ output'[c] = <<>>
              /\ program # "download"
    <3> HIDE DEF q
    <3> QED BY <1>1, <1>2, <1>4, <1>7, <2>1, Sends DEF DownloadTypes
  <2>3. /\ CompletionInv(c)' /\ completions' \in Seq(DFunctions)
        /\ output'[c] # <<>> \/ Has(completions', FinishOf(c))
    <3> HIDE DEF q
    <3> QED BY <1>1, <1>7, <1>10, <2>2, SentQueued
  <2>4. DownloadTypes'
    BY <1>1, <1>2, <1>3, <2>2, <2>3 DEF DownloadTypes
  <2>5. Moved(c)
    BY <1>7, <2>2 DEF Moved
  <2>6. ~fin[c]
    BY <1>2, <1>10 DEF SentInv
  <2>7. ASSUME Alone'
        PROVE  /\ Counts(delivered'[c], 0) /\ Counts(output'[c], Len(delivered'[c]))
               /\ Sent(c)' = message' * ChunkSize /\ Sent(c)' <= fileSize'
    <3>1. /\ Counts(delivered[c], 0) /\ Counts(output[c], Len(delivered[c]))
          /\ Sent(c) = message * ChunkSize
      BY <1>1, <1>2, <1>5, <1>10, <2>7 DEF SentInv
    <3>2. Sent(c)' = (message + 1) * ChunkSize
      BY <1>4, <2>2, <3>1
    <3>3. Counts(data, Sent(c))
      BY <1>4, <3>1
    <3> QED BY <1>1, <1>4, <1>8, <2>2, <3>1, <3>2, <3>3
  <2>8. SentInv(c)'
    BY <1>1, <1>5, <1>8, <1>10, <2>3, <2>6, <2>7 DEF SentInv
  <2> QED BY <1>1, <1>6, <1>10, <2>2, <2>3, <2>4, <2>5, <2>8, OnlyOne
<1> QED BY <1>9, <1>10

\* No line is left.
LEMMA LinesEndInv ==
  ASSUME DownloadInv, NEW c \in Downloads, CallsBack(c), LinesEnd(c),
         UNCHANGED <<program, fileSize>>
  PROVE  DownloadInv'
<1>1. /\ program = "chargen" /\ message = LineLen /\ undefined = "no"
      /\ completions' = Tail(completions) /\ UNCHANGED <<output, delivered>>
      /\ ShutDown(c)
      /\ UNCHANGED <<file, fileContext, position, message, undefined>>
  BY DEF LinesEnd, CallsBack
<1>2. DownloadTypes /\ SentInv(c) /\ FileInv(c)
  BY DEF DownloadInv
<1>3. /\ fileSize = LineLen * ChunkSize
      /\ down[c] \in {"new", "kConnected", "kDisconnecting", "kDisconnected", "destroyed"}
  BY <1>1, <1>2 DEF DownloadTypes
<1>4. output[c] = <<>> /\ down[c] \notin {"new", "destroyed"}
  BY CalledBack
<1>5. /\ down' \in [Downloads -> {"new", "kConnected", "kDisconnecting",
                                  "kDisconnected", "destroyed"}]
      /\ fin' \in [Downloads -> BOOLEAN]
      /\ \A d \in Downloads : d # c => down'[d] = down[d] /\ fin'[d] = fin[d]
      /\ down[c] \in {"new", "kConnected"} =>
           /\ down'[c] = "kDisconnecting"
           /\ fin'[c] <=> (fin[c] \/ output'[c] = <<>>)
      /\ down[c] \notin {"new", "kConnected"} =>
           down'[c] = down[c] /\ (fin'[c] <=> fin[c])
  BY <1>1, <1>2, ShutsDown DEF DownloadTypes
<1>6. CompletionInv(c)' /\ Moved(c) /\ completions' \in Seq(DFunctions)
  BY <1>1, <1>5, OnlyTaken
<1>7. DownloadTypes'
  BY <1>1, <1>2, <1>5, <1>6 DEF DownloadTypes
<1>8. ~Chunked' /\ ~Chunked /\ Sent(c)' = Sent(c)
  BY <1>1 DEF Chunked, Sent
<1>9. down'[c] # "new" /\ down'[c] # "kConnected" /\ down'[c] # "destroyed"
  BY <1>3, <1>4, <1>5
<1>10. FileInv(c)'
  BY <1>1, <1>2, <1>8, <1>9 DEF FileInv
<1>11. Alone' => Alone
  BY <1>4, <1>5 DEF Alone
<1>12. SentInv(c)'
  <2>1. position'[c] <= fileSize' /\ fileSize' = fileSize /\ output'[c] = output[c]
        /\ delivered'[c] = delivered[c]
    BY <1>1, <1>2 DEF SentInv
  <2>2. Alone /\ (down'[c] = "kDisconnecting" \/ fin'[c]) => Sent(c) = fileSize
    BY <1>1, <1>2, <1>3, <1>4, <1>5, <1>8 DEF SentInv
  <2>3. Alone => /\ Counts(delivered[c], 0) /\ Counts(output[c], Len(delivered[c]))
                 /\ Sent(c) <= fileSize
    BY <1>2 DEF SentInv
  <2> QED BY <1>4, <1>8, <1>9, <1>11, <2>1, <2>2, <2>3 DEF SentInv
<1> QED BY <1>1, <1>5, <1>6, <1>7, <1>9, <1>10, <1>12, OnlyOne

\* handleWrite(): the socket takes some of what waits.
LEMMA HandleWriteOfInv ==
  ASSUME DownloadInv, NEW c \in Downloads, HandleWriteOf(c)
  PROVE  DownloadInv'
<1>21. output \in [Downloads -> Seq(Int)] /\ delivered \in [Downloads -> Seq(Int)]
  BY DEF DownloadInv, DownloadTypes
<1> DEFINE o == output[c]  l == delivered[c]
<1> PICK k \in 1 .. Len(o) :
      LET empty == k = Len(output[c])
      IN /\ delivered' = [delivered EXCEPT ![c] = @ \o SubSeq(output[c], 1, k)]
         /\ output' = [output EXCEPT ![c] = SubSeq(@, k + 1, Len(@))]
         /\ completions' =
              IF empty THEN completions \o Completed(c) ELSE completions
         /\ fin' = [fin EXCEPT ![c] =
                      @ \/ (empty /\ down[c] = "kDisconnecting")]
  BY DEF HandleWriteOf
<1>1. /\ undefined = "no" /\ o # <<>>
      /\ down[c] \in {"kConnected", "kDisconnecting"}
      /\ UNCHANGED <<program, fileSize, down, file, fileContext, position, message,
                     undefined>>
  BY DEF HandleWriteOf
<1>2. DownloadTypes /\ SentInv(c) /\ FileInv(c) /\ CompletionInv(c)
  BY DEF DownloadInv
<1>3. /\ o \in Seq(Int) /\ l \in Seq(Int) /\ Len(o) \in Nat /\ Len(l) \in Nat
      /\ k \in 0 .. Len(o) /\ k \in Nat /\ k <= Len(o) /\ k >= 1
  <2>1. o \in Seq(Int) /\ l \in Seq(Int)
    BY <1>21
  <2> HIDE DEF o, l
  <2>2. Len(o) \in Nat /\ Len(l) \in Nat
    BY <2>1
  <2>3. k \in 1 .. Len(o)
    OBVIOUS
  <2> QED BY <2>1, <2>2, <2>3
<1> DEFINE a == SubSeq(o, 1, k)  b == SubSeq(o, k + 1, Len(o))
<1>4. /\ a \in Seq(Int) /\ Len(a) = k /\ b \in Seq(Int) /\ Len(b) = Len(o) - k
      /\ Counts(o, Len(l)) => Counts(a, Len(l)) /\ Counts(b, Len(l) + k)
  <2>1. a \in Seq(Int) /\ b \in Seq(Int)
    BY <1>3, SplitAt
  <2>2. Len(a) = k /\ Len(b) = Len(o) - k
    <3>1. From([i \in 1 .. Len(o) |-> o[i]], o, 0) /\ 0 \in Nat
      BY DEF From
    <3> HIDE DEF o
    <3> QED BY <1>3, <3>1, FromSplit
  <2>3. ASSUME Counts(o, Len(l)) PROVE Counts(a, Len(l)) /\ Counts(b, Len(l) + k)
    <3> HIDE DEF o, l
    <3> QED BY <1>3, <2>3, FromSplit DEF Counts
  <2> QED BY <2>1, <2>2, <2>3
<1>5. delivered'[c] = l \o a /\ output'[c] = b
  BY <1>21
<1>6. /\ l \o a \in Seq(Int) /\ Len(l \o a) = Len(l) + Len(a)
  <2>1. l \in Seq(Int) /\ a \in Seq(Int)
    BY <1>3, <1>4
  <2> HIDE DEF l, a, o, b
  <2> QED BY <2>1, ConcatProperties
<1>7. /\ output' \in [Downloads -> Seq(Int)] /\ delivered' \in [Downloads -> Seq(Int)]
      /\ fin' \in [Downloads -> BOOLEAN]
      /\ \A d \in Downloads : d # c =>
           output'[d] = output[d] /\ delivered'[d] = delivered[d] /\ fin'[d] = fin[d]
  BY <1>2, <1>4, <1>6 DEF DownloadTypes
<1>8. fin'[c] => k = Len(o) /\ down[c] = "kDisconnecting"
  <2>1. ~fin[c]
    BY <1>1, <1>2 DEF SentInv
  <2> QED BY <1>2, <2>1 DEF DownloadTypes
<1>9. ~Has(completions, FinishOf(c)) /\ ~Has(completions, DropOf(c))
  BY <1>1, <1>2 DEF CompletionInv
<1>10. \/ completions' = completions /\ (k # Len(o) \/ program = "download")
       \/ /\ completions' = Append(completions, FinishOf(c)) /\ k = Len(o)
          /\ program # "download"
  <2>1. CASE k # Len(o)
    BY <2>1
  <2>2. CASE k = Len(o)
    <3>1. completions' = completions \o Completed(c) /\ completions \in Seq(DFunctions)
      BY <1>2, <2>2 DEF DownloadTypes
    <3>2. CASE program = "download"
      BY <3>1, <3>2, ConcatEmptySeq DEF Completed
    <3>3. CASE program # "download"
      <4>1. Completed(c) = <<FinishOf(c)>> /\ FinishOf(c) \in DFunctions
        BY <3>3 DEF Completed, FinishOf, DFunctions
      <4> QED BY <2>2, <3>1, <3>3, <4>1, AppendIsConcat
    <3> QED BY <3>2, <3>3
  <2> QED BY <2>1, <2>2
<1> HIDE DEF a, b, o, l
<1>11. output'[c] = <<>> <=> k = Len(o)
  <2>1. output'[c] = <<>> <=> Len(b) = 0
    BY <1>4, <1>5, EmptySeq
  <2> QED BY <1>3, <1>4, <2>1
<1>12. /\ CompletionInv(c)' /\ completions' \in Seq(DFunctions)
       /\ output'[c] # <<>> \/ Has(completions', FinishOf(c)) \/ program = "download"
  <2>1. completions \in Seq(DFunctions)
    BY <1>2 DEF DownloadTypes
  <2>2. /\ Once(completions, FinishOf(c))
        /\ InFrontOf(completions, FinishOf(c), DropOf(c))
    BY <1>2 DEF CompletionInv
  <2> QED BY <1>1, <1>9, <1>10, <1>11, <2>1, <2>2, SentQueued
<1>13. DownloadTypes'
  BY <1>1, <1>2, <1>7, <1>12 DEF DownloadTypes
<1>14. Moved(c)
  BY <1>10 DEF Moved
<1>15. (Alone' <=> Alone) /\ (Chunked' <=> Chunked)
  BY <1>1 DEF Alone, Chunked
<1>16. FileInv(c)'
  BY <1>1, <1>2, <1>15 DEF FileInv
<1>17. Sent(c)' = Sent(c)
  <2>1. /\ Sent(c)' = Len(delivered'[c]) + Len(output'[c]) /\ Sent(c) = Len(l) + Len(o)
    BY DEF Sent, l, o
  <2>2. Len(delivered'[c]) = Len(l) + k /\ Len(output'[c]) = Len(o) - k
    BY <1>4, <1>5, <1>6
  <2>3. Len(l) \in Nat /\ Len(o) \in Nat /\ k \in Nat
    BY <1>3
  <2>4. (Len(l) + k) + (Len(o) - k) = Len(l) + Len(o)
    BY <2>3
  <2> QED BY <2>1, <2>2, <2>4
<1>18. ASSUME Alone
       PROVE  Counts(delivered'[c], 0) /\ Counts(output'[c], Len(delivered'[c]))
  <2>1. Counts(l, 0) /\ Counts(o, Len(l))
    BY <1>2, <1>18 DEF SentInv, l, o
  <2>2. Counts(a, 0 + Len(l)) /\ 0 \in Nat /\ Counts(b, Len(l \o a))
    BY <1>3, <1>4, <1>6, <2>1
  <2>3. Counts(l \o a, 0)
    BY <1>3, <1>4, <2>1, <2>2, FromConcat DEF Counts
  <2> QED BY <1>5, <2>2, <2>3
<1>19. Chunked => Len(output'[c]) <= ChunkSize
  <2> SUFFICES ASSUME Chunked PROVE Len(output'[c]) <= ChunkSize
    OBVIOUS
  <2>1. Len(o) <= ChunkSize /\ ChunkSize \in Nat
    BY <1>2, DownloadAssumption DEF SentInv, o
  <2>2. Len(output'[c]) = Len(o) - k
    BY <1>4, <1>5
  <2> QED BY <1>3, <2>1, <2>2
<1>20. SentInv(c)'
  <2>1. ASSUME Alone
        PROVE  /\ Sent(c) <= fileSize
               /\ down[c] = "kConnected" /\ Chunked => Sent(c) = position[c]
               /\ down[c] = "kConnected" /\ program = "chargen" =>
                    Sent(c) = message * ChunkSize
               /\ (down[c] = "kDisconnecting" \/ fin'[c]) /\ (Chunked => file[c] # "none") =>
                    Sent(c) = fileSize
    BY <1>1, <1>2, <1>8, <2>1 DEF SentInv
  <2>2. /\ position[c] <= fileSize /\ down[c] # "new"
        /\ down[c] = "kConnected" => program # "download"
    BY <1>1, <1>2 DEF SentInv
  <2>3. fin'[c] => output'[c] = <<>> /\ down[c] \notin {"new", "kConnected"}
    BY <1>8, <1>11
  <2> QED BY <1>1, <1>12, <1>15, <1>17, <1>18, <1>19, <2>1, <2>2, <2>3 DEF SentInv
<1> QED BY <1>1, <1>7, <1>12, <1>13, <1>14, <1>16, <1>20, OnlyOne

\* The connection is down: download2 closes its FILE.
LEMMA DownloadDownInv ==
  ASSUME DownloadInv, NEW c \in Downloads, DownloadDown(c)
  PROVE  DownloadInv'
<1>1. /\ undefined = "no" /\ down[c] \in {"kConnected", "kDisconnecting"}
      /\ down' = [down EXCEPT ![c] = "kDisconnected"]
      /\ \/ /\ program = "download2" /\ fileContext[c] = "FILE"
            /\ file' = [file EXCEPT ![c] = "closed"]
         \/ /\ ~(program = "download2" /\ fileContext[c] = "FILE")
            /\ file' = file
      /\ completions' = Append(completions, DropOf(c))
      /\ UNCHANGED <<program, fileSize, fileContext, position, message, output,
                     delivered, fin, undefined>>
  BY DEF DownloadDown, DropOf
<1>2. DownloadTypes /\ SentInv(c) /\ FileInv(c) /\ CompletionInv(c)
  BY DEF DownloadInv
<1>3. completions \in Seq(DFunctions)
  BY <1>2 DEF DownloadTypes
<1>4. DropOf(c) \in DFunctions /\ FinishOf(c) # DropOf(c)
  BY DEF FinishOf, DropOf, DFunctions
<1>5. /\ completions' \in Seq(DFunctions)
      /\ Has(completions', FinishOf(c)) <=> Has(completions, FinishOf(c))
      /\ Once(completions', FinishOf(c))
      /\ InFrontOf(completions', FinishOf(c), DropOf(c))
  BY <1>1, <1>2, <1>3, <1>4, AppendHas, AppendProperties DEF CompletionInv
<1>6. /\ down' \in [Downloads -> {"new", "kConnected", "kDisconnecting",
                                  "kDisconnected", "destroyed"}]
      /\ file' \in [Downloads -> {"none", "open", "closed"}]
      /\ down'[c] = "kDisconnected"
      /\ \/ program = "download2" /\ fileContext[c] = "FILE" /\ file'[c] = "closed"
         \/ ~(program = "download2" /\ fileContext[c] = "FILE") /\ file'[c] = file[c]
      /\ \A d \in Downloads : d # c => down'[d] = down[d] /\ file'[d] = file[d]
  BY <1>1, <1>2 DEF DownloadTypes
<1>7. DownloadTypes'
  BY <1>1, <1>2, <1>5, <1>6 DEF DownloadTypes
<1>8. Moved(c)
  BY <1>1 DEF Moved
<1>9. CompletionInv(c)'
  BY <1>1, <1>2, <1>5, <1>6 DEF CompletionInv
<1>10. (Chunked' <=> Chunked) /\ Sent(c)' = Sent(c)
  BY <1>1 DEF Chunked, Sent
<1>11. FileInv(c)'
  BY <1>1, <1>2, <1>6, <1>10 DEF FileInv
<1>12. Alone' => Alone
  BY <1>1, <1>6 DEF Alone
<1>13. file'[c] = "none" <=> file[c] = "none"
  BY <1>2, <1>6 DEF FileInv
<1>14. SentInv(c)'
  <2>1. /\ position[c] <= fileSize /\ (Chunked => Len(output[c]) <= ChunkSize)
        /\ fin[c] => output[c] = <<>>
    BY <1>2 DEF SentInv
  <2>2. Alone => /\ Counts(delivered[c], 0) /\ Counts(output[c], Len(delivered[c]))
                 /\ Sent(c) <= fileSize
                 /\ fin[c] /\ (Chunked => file[c] # "none") => Sent(c) = fileSize
    BY <1>2 DEF SentInv
  <2> QED BY <1>1, <1>6, <1>10, <1>12, <1>13, <2>1, <2>2 DEF SentInv
<1> QED BY <1>1, <1>6, <1>7, <1>8, <1>9, <1>11, <1>14, OnlyOne

\* connectDestroyed(): download3 drops its FILE.
LEMMA DownloadDestroyedInv ==
  ASSUME DownloadInv, NEW c \in Downloads, DownloadDestroyed(c)
  PROVE  DownloadInv'
<1>1. /\ undefined = "no" /\ completions # <<>> /\ Head(completions) = DropOf(c)
      /\ completions' = Tail(completions)
      /\ down' = [down EXCEPT ![c] = "destroyed"]
      /\ \/ /\ program = "download3" /\ fileContext[c] = "FILE"
            /\ file' = [file EXCEPT ![c] = "closed"]
         \/ /\ ~(program = "download3" /\ fileContext[c] = "FILE")
            /\ file' = file
      /\ UNCHANGED <<program, fileSize, fileContext, position, message, output,
                     delivered, fin, undefined>>
  BY DEF DownloadDestroyed, DropOf
<1>2. DownloadTypes /\ SentInv(c) /\ FileInv(c) /\ CompletionInv(c)
  BY DEF DownloadInv
<1>3. completions \in Seq(DFunctions)
  BY <1>2 DEF DownloadTypes
<1>4. /\ Has(completions, DropOf(c)) /\ ~Has(completions', FinishOf(c))
      /\ Once(completions', FinishOf(c))
      /\ InFrontOf(completions', FinishOf(c), DropOf(c))
  BY <1>1, <1>2, <1>3, TailHas DEF CompletionInv
<1>5. completions' \in Seq(DFunctions) /\ down[c] \in {"kDisconnected", "destroyed"}
  BY <1>1, <1>2, <1>3, <1>4 DEF CompletionInv
<1>6. /\ down' \in [Downloads -> {"new", "kConnected", "kDisconnecting",
                                  "kDisconnected", "destroyed"}]
      /\ file' \in [Downloads -> {"none", "open", "closed"}]
      /\ down'[c] = "destroyed"
      /\ \/ program = "download3" /\ fileContext[c] = "FILE" /\ file'[c] = "closed"
         \/ ~(program = "download3" /\ fileContext[c] = "FILE") /\ file'[c] = file[c]
      /\ \A d \in Downloads : d # c => down'[d] = down[d] /\ file'[d] = file[d]
  BY <1>1, <1>2 DEF DownloadTypes
<1>7. DownloadTypes'
  BY <1>1, <1>2, <1>5, <1>6 DEF DownloadTypes
<1>8. Moved(c)
  BY <1>1 DEF Moved
<1>9. CompletionInv(c)'
  BY <1>4, <1>6 DEF CompletionInv
<1>10. (Chunked' <=> Chunked) /\ Sent(c)' = Sent(c)
  BY <1>1 DEF Chunked, Sent
<1>11. FileInv(c)'
  <2>1. program = "download2" => file[c] # "open"
    BY <1>2, <1>5 DEF FileInv
  <2>2. file'[c] # "open"
    <3>1. CASE file[c] = "open"
      <4>1. fileContext[c] = "FILE" /\ Chunked /\ program # "download2"
        BY <1>2, <2>1, <3>1 DEF FileInv
      <4>2. program = "download3"
        BY <4>1 DEF Chunked
      <4> QED BY <1>6, <4>1, <4>2
    <3>2. CASE file[c] # "open"
      BY <1>6, <3>2
    <3> QED BY <3>1, <3>2
  <2>3. fileContext[c] = "FILE" => file[c] # "none" /\ Chunked
    BY <1>2 DEF FileInv
  <2>4. fileContext[c] = "FILE" => program \in {"download2", "download3"}
    BY <2>3 DEF Chunked
  <2>5. file[c] # "none" => Chunked
    BY <1>2 DEF FileInv
  <2>6. file'[c] # "none" => Chunked'
    BY <1>6, <1>10, <2>3, <2>5
  <2> QED BY <1>1, <1>6, <2>2, <2>3, <2>4, <2>6 DEF FileInv
<1>12. Alone' => Alone
  BY <1>1, <1>5, <1>6 DEF Alone
<1>13. file'[c] = "none" <=> file[c] = "none"
  BY <1>2, <1>6 DEF FileInv
<1>14. SentInv(c)'
  <2>1. /\ position[c] <= fileSize /\ (Chunked => Len(output[c]) <= ChunkSize)
        /\ fin[c] => output[c] = <<>>
    BY <1>2 DEF SentInv
  <2>2. Alone => /\ Counts(delivered[c], 0) /\ Counts(output[c], Len(delivered[c]))
                 /\ Sent(c) <= fileSize
                 /\ fin[c] /\ (Chunked => file[c] # "none") => Sent(c) = fileSize
    BY <1>2 DEF SentInv
  <2> QED BY <1>1, <1>6, <1>10, <1>12, <1>13, <2>1, <2>2 DEF SentInv
<1> QED BY <1>1, <1>6, <1>7, <1>8, <1>9, <1>11, <1>14, OnlyOne

\* At first there is no connection.
LEMMA DownloadInitInv == DownloadInit => DownloadInv
<1> SUFFICES ASSUME DownloadInit PROVE DownloadInv
  OBVIOUS
<1>1. /\ program \in {"download", "download2", "download3", "chargen"}
      /\ fileSize \in IF program = "chargen" THEN {LineLen * ChunkSize} ELSE FileSizes
      /\ down = [c \in Downloads |-> "new"] /\ file = [c \in Downloads |-> "none"]
      /\ fileContext = [c \in Downloads |-> "empty"]
      /\ position = [c \in Downloads |-> 0] /\ message = 0
      /\ output = [c \in Downloads |-> <<>>] /\ delivered = [c \in Downloads |-> <<>>]
      /\ fin = [c \in Downloads |-> FALSE] /\ completions = <<>> /\ undefined = "no"
  BY DEF DownloadInit
<1>2. ChunkSize \in Nat /\ LineLen \in Nat /\ FileSizes \subseteq Nat
  BY DownloadAssumption
<1>3. fileSize \in Nat /\ (program = "chargen" => fileSize = LineLen * ChunkSize)
  <2>1. LineLen * ChunkSize \in Nat
    BY <1>2
  <2> QED BY <1>1, <1>2, <2>1
<1>4. message \in Nat /\ message <= LineLen
  BY <1>1, <1>2
<1>5. DownloadTypes
  BY <1>1, <1>3, <1>4 DEF DownloadTypes
<1>6. UndefinedInv
  BY <1>1 DEF UndefinedInv
<1>7. ASSUME NEW c \in Downloads PROVE CompletionInv(c) /\ SentInv(c) /\ FileInv(c)
  <2>1. /\ down[c] = "new" /\ file[c] = "none" /\ fileContext[c] = "empty"
        /\ position[c] = 0 /\ output[c] = <<>> /\ delivered[c] = <<>> /\ ~fin[c]
    BY <1>1
  <2>2. \A e : ~Has(completions, e)
    BY <1>1 DEF Has
  <2>3. CompletionInv(c)
    BY <2>2 DEF CompletionInv, Has, Once, InFrontOf
  <2>4. FileInv(c)
    BY <2>1 DEF FileInv
  <2>5. Sent(c) = 0 /\ Len(output[c]) = 0
    BY <2>1 DEF Sent
  <2>6. Counts(delivered[c], 0) /\ Counts(output[c], Len(delivered[c]))
    BY <2>1 DEF Counts, From
  <2>7. SentInv(c)
    BY <1>2, <1>3, <2>1, <2>5, <2>6 DEF SentInv
  <2> QED BY <2>3, <2>4, <2>7
<1> QED BY <1>5, <1>6, <1>7 DEF DownloadInv

\* Every step preserves it.
LEMMA DownloadStep == DownloadInv /\ [DownloadNext]_downloadVars => DownloadInv'
<1> SUFFICES ASSUME DownloadInv, [DownloadNext]_downloadVars PROVE DownloadInv'
  OBVIOUS
<1>1. CASE UNCHANGED downloadVars
  <2>1. /\ UNCHANGED <<program, fileSize, down, file, fileContext, position, message,
                       output, delivered, fin, completions, undefined>>
    BY <1>1 DEF downloadVars
  <2>2. DownloadTypes' /\ UndefinedInv'
    BY <2>1 DEF DownloadInv, DownloadTypes, UndefinedInv, Alone
  <2>3. ASSUME NEW c \in Downloads
        PROVE  CompletionInv(c)' /\ SentInv(c)' /\ FileInv(c)'
    <3>1. CompletionInv(c) /\ SentInv(c) /\ FileInv(c)
      BY DEF DownloadInv
    <3>2. Sent(c)' = Sent(c) /\ (Chunked' <=> Chunked) /\ (Alone' <=> Alone)
      BY <2>1 DEF Sent, Chunked, Alone
    <3>3. CompletionInv(c)' /\ FileInv(c)'
      BY <2>1, <3>1, <3>2 DEF CompletionInv, FileInv
    <3>4. SentInv(c)'
      BY <2>1, <3>1, <3>2 DEF SentInv
    <3> QED BY <3>3, <3>4
  <2> QED BY <2>2, <2>3 DEF DownloadInv
<1>2. ASSUME NEW c \in Downloads, OnWriteComplete(c) PROVE DownloadInv'
  BY <1>2, NextChunkInv, FileEndsInv, ReadClosedInv, NextLineInv, LinesEndInv
     DEF OnWriteComplete
<1> QED BY <1>1, <1>2, DownloadAllInv, OpenFailsInv, OpenAndSendInv, SendFirstLineInv,
           HandleWriteOfInv, DownloadDownInv, DownloadDestroyedInv DEF DownloadNext

\* What is counted as one connection at most is one.
LEMMA FewAreAlone ==
  ASSUME program = "chargen" =>
           Cardinality({c \in Downloads : down[c] # "new"}) <= 1
  PROVE  Alone
<1> DEFINE S == {c \in Downloads : down[c] # "new"}
<1> SUFFICES ASSUME program = "chargen", NEW c \in S, NEW d \in S, c # d PROVE FALSE
  BY DEF Alone
<1>1. MaxDownloads \in Nat
  BY DownloadAssumption
<1>2. IsFiniteSet(Downloads)
  BY <1>1, FS_Interval DEF Downloads
<1>3. IsFiniteSet(S)
  BY <1>2, FS_Subset
<1>4. IsFiniteSet({d}) /\ Cardinality({d}) = 1
  BY FS_Singleton
<1>5. Cardinality({d} \cup {c}) = Cardinality({d}) + 1
  BY <1>4, FS_AddElement
<1>6. Cardinality({d} \cup {c}) <= Cardinality(S)
  <2>1. {d} \cup {c} \subseteq S
    OBVIOUS
  <2> QED BY <1>3, <2>1, FS_Subset
<1>7. Cardinality(S) \in Nat /\ Cardinality(S) <= 1
  BY <1>3, FS_CardinalityType
<1> QED BY <1>4, <1>5, <1>6, <1>7

\* What DownloadInv says is what was to be shown.
LEMMA DownloadInvRight == DownloadInv => DownloadRight
<1> SUFFICES ASSUME DownloadInv PROVE DownloadRight
  OBVIOUS
<1> DEFINE alone == program = "chargen" =>
                      Cardinality({c \in Downloads : down[c] # "new"}) <= 1
<1>1. alone => Alone
  BY FewAreAlone
<1> HIDE DEF alone
<1>2. DownloadTypes /\ UndefinedInv
  BY DEF DownloadInv
<1>3. /\ Content \in Seq(Int) /\ Len(Content) = fileSize /\ Counts(Content, 0)
      /\ fileSize \in Nat
  BY <1>2, ContentIs DEF DownloadTypes
<1>4. ASSUME NEW c \in Downloads
      PROVE  /\ alone => IsPrefix(delivered[c] \o output[c], Content)
             /\ alone /\ fin[c] /\ (Chunked => file[c] # "none") =>
                  delivered[c] = Content
             /\ down[c] = "kConnected" /\ undefined = "no" =>
                  \/ output[c] # <<>>
                  \/ <<"onWriteComplete", c>> \in ToSet(completions)
             /\ Chunked => Len(output[c]) <= ChunkSize
             /\ down[c] = "destroyed" => file[c] # "open"
  <2>1. SentInv(c) /\ FileInv(c)
    BY DEF DownloadInv
  <2> DEFINE o == output[c]  l == delivered[c]
  <2>2. /\ o \in Seq(Int) /\ l \in Seq(Int) /\ Len(o) \in Nat /\ Len(l) \in Nat
        /\ completions \in Seq(DFunctions)
    <3>1. /\ output \in [Downloads -> Seq(Int)] /\ delivered \in [Downloads -> Seq(Int)]
          /\ completions \in Seq(DFunctions)
      BY <1>2 DEF DownloadTypes
    <3> QED BY <3>1
  <2>3. Has(completions, FinishOf(c)) =>
          <<"onWriteComplete", c>> \in ToSet(completions)
    BY DEF Has, FinishOf, ToSet
  <2>4. ASSUME Alone
        PROVE  /\ Counts(l, 0) /\ Counts(o, Len(l)) /\ Len(l) + Len(o) <= fileSize
               /\ fin[c] /\ (Chunked => file[c] # "none") =>
                    o = <<>> /\ Len(l) + Len(o) = fileSize
    BY <2>1, <2>4 DEF SentInv, Sent
  <2> HIDE DEF o, l
  <2>5. ASSUME Alone PROVE IsPrefix(l \o o, Content)
    <3>1. Counts(o, 0 + Len(l)) /\ 0 \in Nat
      BY <2>2, <2>4, <2>5
    <3>2. l \o o \in Seq(Int) /\ Len(l \o o) = Len(l) + Len(o) /\ Counts(l \o o, 0)
      BY <2>2, <2>4, <2>5, <3>1, FromConcat DEF Counts
    <3>3. Len(l \o o) <= Len(Content)
      BY <1>3, <2>4, <2>5, <3>2
    <3>4. \A i \in 1 .. Len(l \o o) : i \in 1 .. Len(Content)
      BY <1>3, <3>2, <3>3
    <3>5. \A i \in 1 .. Len(l \o o) : (l \o o)[i] = Content[i]
      BY <1>3, <3>2, <3>4 DEF Counts, From
    <3> QED BY <1>3, <3>2, <3>3, <3>5, PrefixOf
  <2>6. ASSUME Alone, fin[c], Chunked => file[c] # "none" PROVE l = Content
    <3>1. Counts(l, 0) /\ o = <<>> /\ Len(l) + Len(o) = fileSize
      BY <2>4, <2>6
    <3>2. Len(l) = Len(Content)
      BY <1>3, <2>2, <3>1
    <3>3. \A i \in 1 .. Len(l) : l[i] = Content[i]
      BY <1>3, <3>1, <3>2 DEF Counts, From
    <3> QED BY <1>3, <2>2, <3>2, <3>3, SeqEqual
  <2> QED BY <1>1, <2>1, <2>3, <2>5, <2>6 DEF SentInv, FileInv, o, l
<1>5. /\ undefined = "closed FILE" =>
          program = "download2" /\ \E c \in Downloads : down[c] = "kDisconnected"
      /\ undefined = "no such line" => ~alone
  BY <1>1, <1>2 DEF UndefinedInv
<1> QED BY <1>4, <1>5 DEF DownloadRight, alone

\* download, download2, download3 and chargen: each client gets the beginning of
\* its content and the end of the stream after the whole of it, whatever the
\* socket takes at a time, for any number of connections, sizes of the file and
\* of a chunk, and numbers of lines.
THEOREM DownloadAlwaysRight == DownloadSpec => []DownloadRight
BY DownloadInitInv, DownloadStep, DownloadInvRight, PTL DEF DownloadSpec

-----------------------------------------------------------------------------
(* The servers of the sudoku solver: the inductive invariant.              *)

\* A thread of the pool works on request i.
Working(i) == \E s \in Solvers : solving[s] = i

UnderWay(i) == Has(boards, i) \/ Working(i) \/ Has(sendings, i) \/ Has(answers, i)

\* A request is in one place, once.
PlaceInv(i) ==
  /\ Once(boards, i) /\ Once(sendings, i) /\ Once(answers, i)
  /\ \A s, t \in Solvers : solving[s] = i /\ solving[t] = i => s = t
  /\ Has(boards, i) => ~Working(i) /\ ~Has(sendings, i) /\ ~Has(answers, i)
  /\ Working(i) => ~Has(sendings, i) /\ ~Has(answers, i)
  /\ Has(sendings, i) => ~Has(answers, i)

\* The first k requests were taken from the buffer: the good ones of them are
\* under way as long as none was refused.
TakenUpTo(k) ==
  /\ sent - unread = EndOf(k)
  /\ \A i \in Wanted : UnderWay(i) => i <= k /\ asked[i].good
  /\ sudokuConn = "kConnected" =>
       \A i \in Wanted : i <= k /\ asked[i].good => UnderWay(i)
  /\ sudokuConn = "kConnected" /\ lenAtStart = Absent =>
       \A i \in Wanted : i > k /\ EndOf(i) <= sent => ~asked[i].good
  /\ sudokuConn = "kDisconnecting" =>
       burst \/ \E i \in Wanted : i <= k /\ ~asked[i].good

TakenInv == \E k \in 0..Len(asked) : TakenUpTo(k)

LenInv ==
  lenAtStart # Absent =>
    /\ unread <= lenAtStart
    /\ lenAtStart >= MaxDataLen => burst
    /\ sudokuConn \in {"kConnected", "kDisconnecting"}

\* server_basic answers in order.
InOrder(q) ==
  \A j, k \in DOMAIN q : j < k /\ q[j] # 0 /\ q[k] # 0 => q[j] < q[k]

BasicInv ==
  ~pooled =>
    /\ boards = <<>> /\ sending = {}
    /\ \A s \in Solvers : solving[s] = 0
    /\ \A i \in Wanted : ~Has(sendings, i)
    /\ InOrder(answers)

\* connectDestroyed() is queued once, behind all answers unless the client
\* went early.
LeaveInv ==
  /\ \A s \in sending : solving[s] # 0
  /\ Once(sendings, 0)
  /\ Has(sendings, 0) => sudokuConn = "removed"
  /\ goneEarly => sudokuConn \in {"kDisconnected", "removed", "destroyed"}
  /\ ~goneEarly =>
       /\ sudokuConn \in {"kDisconnected", "removed", "destroyed"} => sending = {}
       /\ \A i \in Wanted : InFrontOf(sendings, i, 0)
       /\ sudokuConn = "destroyed" => sendings = <<>>
  /\ lostConn => pooled /\ goneEarly

SolverInv ==
  /\ SolverTypeOK /\ \A i \in Wanted : PlaceInv(i)
  /\ TakenInv /\ LenInv /\ BasicInv /\ LeaveInv

\* What one element of a queue sees of an append and of a removal.
LEMMA AppendOnce ==
  ASSUME NEW S, NEW q \in Seq(S), NEW x \in S, NEW e
  PROVE  /\ Has(Append(q, x), e) <=> (Has(q, e) \/ e = x)
         /\ Once(q, e) /\ (x = e => ~Has(q, e)) => Once(Append(q, x), e)
<1>1. /\ Has(Append(q, x), e) <=> (Has(q, e) \/ e = x)
      /\ Once(q, e) /\ (x = e => ~Has(q, e)) => Once(Append(q, x), e)
      /\ InFrontOf(q, e, e) /\ (x = e => ~Has(q, e)) /\ e # e =>
           InFrontOf(Append(q, x), e, e)
  BY AppendHas
<1> QED BY <1>1

LEMMA TailOnce ==
  ASSUME NEW S, NEW q \in Seq(S), q # <<>>, NEW e
  PROVE  /\ Has(Tail(q), e) => Has(q, e)
         /\ Has(q, e) /\ Head(q) # e => Has(Tail(q), e)
         /\ Once(q, e) => Once(Tail(q), e)
         /\ Once(q, e) /\ Head(q) = e => ~Has(Tail(q), e)
         /\ Has(q, Head(q))
<1>1. /\ Has(Tail(q), e) => Has(q, e)
      /\ Has(q, e) /\ Head(q) # e => Has(Tail(q), e)
      /\ Once(q, e) => Once(Tail(q), e)
      /\ Once(q, e) /\ Head(q) = e => ~Has(Tail(q), e)
      /\ InFrontOf(q, e, e) => InFrontOf(Tail(q), e, e)
      /\ InFrontOf(q, e, e) /\ Head(q) = e => ~Has(q, e)
      /\ Has(q, Head(q))
  BY TailHas
<1> QED BY <1>1

\* The requests lie behind one another.
LEMMA AskedEnds ==
  ASSUME SolverTypeOK
  PROVE  /\ Len(asked) \in Nat
         /\ \A i \in 0..Len(asked) : EndOf(i) \in Nat
         /\ \A i, j \in 0..Len(asked) : i < j => EndOf(i) < EndOf(j)
         /\ \A i \in Wanted :
              asked[i].good => EndOf(i) - EndOf(i - 1) >= BoardLen
<1> DEFINE E(n) == 1..n * (BoardLen + 1)
<1>1. PICK n \in 1..MaxAsked : asked \in [1..n -> [end : E(MaxAsked), good : BOOLEAN]]
  BY DEF SolverTypeOK, Askings
<1>2. /\ \A i, j \in DOMAIN asked : i < j => asked[i].end < asked[j].end
      /\ \A i \in DOMAIN asked :
           asked[i].end - (IF i = 1 THEN 0 ELSE asked[i - 1].end)
             \in Sizes(asked[i].good)
  BY DEF SolverTypeOK, Askings
<1>3. n \in Nat /\ n >= 1
  BY SolverAssumption
<1>4. Len(asked) = n /\ DOMAIN asked = 1..n
  BY <1>1, <1>3
<1>5. MaxAsked \in Nat /\ BoardLen \in Nat
  BY SolverAssumption
<1>6. \A i \in 1..n : asked[i].end \in E(MaxAsked)
  BY <1>1
<1>7. \A m \in E(MaxAsked) : m \in Nat /\ m > 0
  BY <1>5
<1> HIDE DEF E
<1>8. \A i \in 1..n : asked[i].end \in Nat /\ asked[i].end > 0
  BY <1>6, <1>7
<1>9. EndOf(0) = 0 /\ \A i \in 1..n : EndOf(i) = asked[i].end
  BY <1>3 DEF EndOf
<1>10. \A i \in 0..n : EndOf(i) \in Nat
  BY <1>3, <1>8, <1>9
<1>11. ASSUME NEW i \in 0..n, NEW j \in 0..n, i < j PROVE EndOf(i) < EndOf(j)
  <2>1. j \in 1..n
    BY <1>3, <1>11
  <2>2. CASE i = 0
    BY <2>1, <2>2, <1>8, <1>9
  <2>3. CASE i # 0
    <3>1. i \in 1..n
      BY <1>3, <2>3
    <3> QED BY <2>1, <3>1, <1>2, <1>4, <1>9, <1>11
  <2> QED BY <2>2, <2>3
<1>12. ASSUME NEW i \in 1..n, asked[i].good PROVE EndOf(i) - EndOf(i - 1) >= BoardLen
  <2>1. EndOf(i - 1) = (IF i = 1 THEN 0 ELSE asked[i - 1].end)
    BY <1>3 DEF EndOf
  <2>2. EndOf(i) - EndOf(i - 1) \in Sizes(asked[i].good)
    BY <1>2, <1>4, <1>9, <2>1
  <2>3. EndOf(i) - EndOf(i - 1) \in {BoardLen, BoardLen + 1}
    BY <2>2, <1>12 DEF Sizes
  <2> QED BY <2>3, <1>5
<1> QED BY <1>3, <1>4, <1>10, <1>11, <1>12 DEF Wanted

\* The numbers of a state of the server.
LEMMA SolverNumbers ==
  ASSUME SolverTypeOK
  PROVE  /\ Len(asked) \in Nat /\ sent \in Nat /\ unread \in Nat /\ unread <= sent
         /\ sent <= EndOf(Len(asked))
         /\ lenAtStart \in Int /\ (lenAtStart # Absent => lenAtStart \in Nat)
         /\ BoardLen \in Nat /\ MaxDataLen \in Nat
<1>1. Len(asked) \in Nat /\ EndOf(Len(asked)) \in Nat
  <2>1. Len(asked) \in Nat
    BY AskedEnds
  <2> QED BY <2>1, AskedEnds
<1>2. sent \in 0..EndOf(Len(asked)) /\ unread \in 0..sent
      /\ lenAtStart \in {Absent} \cup 0..EndOf(Len(asked))
  BY DEF SolverTypeOK
<1> QED BY <1>1, <1>2, SolverAssumption DEF Absent

\* The request that the buffer begins with.
LEMMA FirstIsNext ==
  ASSUME SolverTypeOK, NEW k \in 0..Len(asked), sent - unread = EndOf(k), unread > 0
  PROVE  k + 1 \in Wanted /\ FirstUnread = k + 1
<1>1. Len(asked) \in Nat /\ k \in Nat /\ k <= Len(asked)
  BY SolverNumbers
<1>2. EndOf(k) < sent /\ EndOf(k) \in Nat
  BY SolverNumbers, AskedEnds
<1>3. k # Len(asked)
  BY <1>2, SolverNumbers, AskedEnds
<1>4. k + 1 \in Wanted /\ k + 1 \in 0..Len(asked)
  BY <1>1, <1>3 DEF Wanted
<1>5. EndOf(k + 1 - 1) <= sent - unread /\ sent - unread < EndOf(k + 1)
  <2>1. k + 1 - 1 = k
    BY <1>1
  <2>2. EndOf(k) < EndOf(k + 1)
    BY <1>1, <1>4, AskedEnds
  <2> QED BY <2>1, <2>2, <1>2
<1>6. ASSUME NEW i \in Wanted,
             EndOf(i - 1) <= sent - unread, sent - unread < EndOf(i)
      PROVE  i = k + 1
  <2>1. i \in Nat /\ i \in 0..Len(asked) /\ i - 1 \in 0..Len(asked)
    BY <1>1 DEF Wanted
  <2>2. EndOf(i) \in Nat /\ EndOf(i - 1) \in Nat
    BY <2>1, AskedEnds
  <2>3. ~(i <= k)
    <3>1. SUFFICES ASSUME i <= k PROVE FALSE
      OBVIOUS
    <3>2. i = k \/ i < k
      BY <1>1, <2>1, <3>1
    <3>3. EndOf(i) <= EndOf(k)
      BY <3>2, <2>1, <2>2, <1>2, AskedEnds
    <3> QED BY <3>3, <2>2, <1>2, <1>6
  <2>4. ~(k < i - 1)
    <3>1. SUFFICES ASSUME k < i - 1 PROVE FALSE
      OBVIOUS
    <3>2. EndOf(k) < EndOf(i - 1)
      BY <3>1, <2>1, AskedEnds
    <3> QED BY <3>2, <2>2, <1>2, <1>6
  <2> QED BY <2>1, <2>3, <2>4, <1>1
<1> QED BY <1>4, <1>5, <1>6 DEF FirstUnread

\* What the client sends is settled.
LEMMA AskedSame ==
  ASSUME asked' = asked
  PROVE  /\ Wanted' = Wanted /\ Len(asked)' = Len(asked)
         /\ \A i \in Int : EndOf(i)' = EndOf(i)
BY DEF Wanted, EndOf

LEMMA PlacesSame ==
  ASSUME UNCHANGED <<boards, solving, sendings, answers>>, NEW i
  PROVE  (PlaceInv(i) => PlaceInv(i)') /\ (UnderWay(i)' = UnderWay(i))
BY DEF PlaceInv, UnderWay, Working, Has, Once

LEMMA OrderAppend ==
  ASSUME NEW n \in Nat, NEW q \in Seq(0..n), NEW x \in 0..n, InOrder(q),
         x # 0 => \A i \in 1..n : Has(q, i) => i < x
  PROVE  InOrder(Append(q, x))
<1> DEFINE a == Append(q, x)  l == Len(q)
<1>1. l \in Nat /\ DOMAIN q = 1 .. l
  OBVIOUS
<1>2. DOMAIN a = 1 .. l + 1 /\ a[l + 1] = x /\ \A i \in 1 .. l : a[i] = q[i]
  BY <1>1, AppendProperties
<1>3. \A i \in DOMAIN q : q[i] \in 0..n
  OBVIOUS
<1> HIDE DEF a, l
<1> SUFFICES ASSUME NEW j \in DOMAIN a, NEW k \in DOMAIN a, j < k, a[j] # 0, a[k] # 0
             PROVE  a[j] < a[k]
  BY DEF InOrder, a
<1>4. j \in 1..l
  BY <1>1, <1>2
<1>5. CASE k \in 1..l
  BY <1>1, <1>2, <1>4, <1>5 DEF InOrder
<1>6. CASE k = l + 1
  <2>1. Has(q, a[j]) /\ a[j] \in 1..n
    BY <1>1, <1>2, <1>3, <1>4 DEF Has
  <2> QED BY <2>1, <1>2, <1>6
<1> QED BY <1>1, <1>2, <1>5, <1>6

\* A state of the server's queues.
LEMMA SolverQueues ==
  ASSUME SolverTypeOK
  PROVE  /\ boards \in Seq(Wanted) /\ sendings \in Seq(0..Len(asked))
         /\ answers \in Seq(0..Len(asked))
         /\ solving \in [Solvers -> 0..Len(asked)] /\ sending \subseteq Solvers
         /\ Wanted \subseteq 0..Len(asked) /\ 0 \notin Wanted
         /\ Wanted \subseteq Nat
<1>1. Len(asked) \in Nat
  BY SolverNumbers
<1> QED BY <1>1 DEF SolverTypeOK, Wanted

\* onMessage() begins with new bytes.
LEMMA ReceiveKeeps ==
  ASSUME SolverInv, NEW n \in 1..EndOf(Len(asked)), Receive(n)
  PROVE  SolverInv'
<1> USE DEF Receive
<1>1. SolverTypeOK /\ asked' = asked /\ Wanted' = Wanted
  BY AskedSame DEF SolverInv
<1>2. PICK k \in 0..Len(asked) : TakenUpTo(k)
  BY DEF SolverInv, TakenInv
<1>3. /\ sent \in Nat /\ unread \in Nat /\ unread <= sent /\ n \in Nat /\ MaxDataLen \in Nat
      /\ sent + n <= EndOf(Len(asked)) /\ EndOf(Len(asked)) \in Nat /\ k \in Int
  <2>1. Len(asked) \in Nat /\ EndOf(Len(asked)) \in Nat
    BY <1>1, AskedEnds
  <2> QED BY <1>1, <2>1, SolverNumbers
<1>4. EndOf(Len(asked))' = EndOf(Len(asked)) /\ EndOf(k)' = EndOf(k)
      /\ Len(asked)' = Len(asked) /\ \A i \in Wanted : EndOf(i)' = EndOf(i)
  BY <1>1 DEF EndOf
<1>5. SolverTypeOK'
  <2>1. sent' \in 0..EndOf(Len(asked))' /\ unread' \in 0..sent'
        /\ lenAtStart' \in {Absent} \cup 0..EndOf(Len(asked))'
    BY <1>3, <1>4
  <2>2. burst' \in BOOLEAN
    BY <1>1 DEF SolverTypeOK
  <2> QED BY <1>1, <1>4, <2>1, <2>2 DEF SolverTypeOK
<1>6. \A i \in Wanted : PlaceInv(i)'
  BY PlacesSame DEF SolverInv
<1>7. TakenUpTo(k)'
  <2>1. sent' - unread' = EndOf(k)'
    BY <1>2, <1>3, <1>4 DEF TakenUpTo
  <2>2. lenAtStart' # Absent
    <3>1. lenAtStart' = unread + n
      OBVIOUS
    <3>2. unread + n \in Nat
      BY <1>3
    <3> QED BY <3>1, <3>2 DEF Absent
  <2>3. \A i \in Wanted : UnderWay(i)' = UnderWay(i)
    BY PlacesSame
  <2> QED BY <1>1, <1>2, <2>1, <2>2, <2>3 DEF TakenUpTo
<1>8. LenInv'
  <2>1. unread' <= lenAtStart' /\ (lenAtStart' >= MaxDataLen => burst')
    <3>1. lenAtStart' = unread' /\ unread' = unread + n
      OBVIOUS
    <3>2. unread' <= lenAtStart'
      BY <1>3, <3>1
    <3>3. lenAtStart' >= MaxDataLen => burst'
      BY Zenon
    <3> QED BY <3>2, <3>3
  <2>2. sudokuConn' \in {"kConnected", "kDisconnecting"}
    BY DEF Alive
  <2> QED BY <2>1, <2>2 DEF LenInv
<1>9. BasicInv' /\ LeaveInv'
  BY <1>1 DEF SolverInv, BasicInv, LeaveInv, InOrder, Has, Once, InFrontOf
<1> QED BY <1>1, <1>2, <1>4, <1>5, <1>6, <1>7, <1>8, <1>9 DEF SolverInv, TakenInv

\* onMessage() ends.
LEMMA StopReadingKeeps ==
  ASSUME SolverInv, StopReading
  PROVE  SolverInv'
<1> USE DEF StopReading
<1>1. SolverTypeOK /\ asked' = asked /\ Wanted' = Wanted
  BY AskedSame DEF SolverInv
<1>2. PICK k \in 0..Len(asked) : TakenUpTo(k)
  BY DEF SolverInv, TakenInv
<1>3. /\ sent \in Nat /\ unread \in Nat /\ unread <= sent /\ BoardLen \in Nat
      /\ k \in Int /\ Len(asked) \in Nat /\ lenAtStart \in Nat /\ EndOf(k) \in Nat
  BY <1>1, SolverNumbers, AskedEnds
<1>4. EndOf(Len(asked))' = EndOf(Len(asked)) /\ EndOf(k)' = EndOf(k)
      /\ Len(asked)' = Len(asked) /\ \A i \in Wanted : EndOf(i)' = EndOf(i)
  BY <1>1 DEF EndOf
<1>5. /\ sudokuConn' \in {sudokuConn, "kDisconnecting"}
      /\ sudokuConn \in {"kConnected", "kDisconnecting"}
      /\ sudokuConn' # sudokuConn => burst
      /\ sudokuConn' = "kConnected" => sudokuConn = "kConnected"
  <2>1. sudokuConn \in {"kConnected", "kDisconnecting"} /\ (lenAtStart >= MaxDataLen => burst)
    BY DEF SolverInv, LenInv
  <2> QED BY <2>1 DEF ShuttingDown
<1>6. SolverTypeOK'
  <2>1. sudokuConn' \in {"kConnected", "kDisconnecting"} /\ lenAtStart' = Absent
    BY <1>5
  <2> QED BY <1>1, <1>4, <2>1 DEF SolverTypeOK
<1>7. \A i \in Wanted : PlaceInv(i)'
  BY PlacesSame DEF SolverInv
<1>8. ASSUME NEW i \in Wanted, i > k, EndOf(i) <= sent PROVE ~asked[i].good
  <2>1. i \in Nat /\ i - 1 \in 0..Len(asked) /\ i \in 0..Len(asked)
    BY <1>3 DEF Wanted
  <2>2. EndOf(i) \in Nat /\ EndOf(i - 1) \in Nat
    BY <1>1, <2>1, AskedEnds
  <2>3. EndOf(k) <= EndOf(i - 1) /\ EndOf(k) < EndOf(i)
    <3>1. k = i - 1 \/ k < i - 1
      BY <1>3, <1>8, <2>1
    <3>2. EndOf(k) < EndOf(i)
      BY <1>1, <1>8, <2>1, AskedEnds
    <3>3. k < i - 1 => EndOf(k) < EndOf(i - 1)
      BY <1>1, <2>1, AskedEnds
    <3> QED BY <3>1, <3>2, <3>3, <2>2, <1>3
  <2>4. sent - unread = EndOf(k)
    BY <1>2 DEF TakenUpTo
  <2>5. unread > 0
    BY <1>3, <1>8, <2>2, <2>3, <2>4
  <2>6. CASE Continues
    <3>1. k + 1 \in Wanted /\ FirstUnread = k + 1
      BY <1>1, <2>4, <2>5, FirstIsNext
    <3>2. ~(EndOf(k + 1) <= sent)
      BY <2>5, <2>6, <3>1 DEF HasCRLF
    <3>3. k + 1 = i \/ k + 1 < i
      BY <1>3, <1>8, <2>1
    <3>4. k + 1 \in 0..Len(asked)
      BY <1>3, <3>1 DEF Wanted
    <3>5. EndOf(k + 1) <= EndOf(i) /\ EndOf(k + 1) \in Nat
      BY <1>1, <2>1, <2>2, <3>3, <3>4, AskedEnds
    <3> QED BY <1>3, <1>8, <2>2, <3>2, <3>5
  <2>7. CASE ~Continues
    <3>1. unread < BoardLen
      <4>1. lenAtStart < BoardLen
        BY <1>3, <2>7 DEF Continues
      <4>2. unread <= lenAtStart
        BY DEF SolverInv, LenInv
      <4> QED BY <1>3, <4>1, <4>2
    <3>2. EndOf(i) - EndOf(i - 1) < BoardLen
      BY <1>3, <1>8, <2>2, <2>3, <2>4, <3>1
    <3> QED BY <1>1, <1>3, <2>2, <3>2, AskedEnds
  <2> QED BY <2>6, <2>7
<1>9. TakenUpTo(k)'
  <2>1. \A i \in Wanted : UnderWay(i)' = UnderWay(i)
    BY PlacesSame
  <2>2. sent' - unread' = EndOf(k)'
    BY <1>2, <1>4 DEF TakenUpTo
  <2>3. sudokuConn' = "kDisconnecting" =>
          burst' \/ \E i \in Wanted : i <= k /\ ~asked[i].good
    BY <1>2, <1>5 DEF TakenUpTo
  <2> QED BY <1>1, <1>2, <1>4, <1>5, <1>8, <2>1, <2>2, <2>3 DEF TakenUpTo
<1>10. LenInv'
  BY DEF LenInv
<1>11. BasicInv'
  BY <1>1 DEF SolverInv, BasicInv, InOrder, Has
<1>12. LeaveInv'
  <2>1. sudokuConn' \notin {"kDisconnected", "removed", "destroyed"} /\ ~Has(sendings, 0)
    BY <1>5 DEF SolverInv, LeaveInv
  <2>2. ~goneEarly
    BY <1>5 DEF SolverInv, LeaveInv
  <2> QED BY <1>1, <2>1, <2>2 DEF SolverInv, LeaveInv, Has, Once, InFrontOf
<1> QED BY <1>1, <1>2, <1>4, <1>6, <1>7, <1>9, <1>10, <1>11, <1>12 DEF SolverInv, TakenInv

\* onMessage() takes a good request and answers or queues it.
LEMMA AskSolverKeeps ==
  ASSUME SolverInv, AskSolver
  PROVE  SolverInv'
<1>0. PICK f : f = FirstUnread
  OBVIOUS
<1>1. /\ SolverTypeOK /\ asked' = asked /\ Wanted' = Wanted /\ Len(asked)' = Len(asked)
      /\ HasCRLF /\ asked[f].good
      /\ UNCHANGED <<pooled, sent, lenAtStart, sudokuConn, solving, sending,
                     sendings, burst, goneEarly, lostConn>>
      /\ unread' = sent - EndOf(f)
  BY <1>0, AskedSame DEF SolverInv, AskSolver
<1>2. PICK k \in 0..Len(asked) : TakenUpTo(k)
  BY DEF SolverInv, TakenInv
<1>3. f = k + 1 /\ f \in Wanted /\ unread > 0 /\ EndOf(f) <= sent
  BY <1>0, <1>1, <1>2, FirstIsNext DEF HasCRLF, TakenUpTo
<1>4. IF pooled THEN boards' = Append(boards, f) /\ answers' = answers
      ELSE /\ boards' = boards
           /\ answers' = IF sudokuConn = "kConnected" THEN Append(answers, f) ELSE answers
  BY <1>0 DEF AskSolver, SendNow
<1>5. /\ sent \in Nat /\ unread \in Nat /\ unread <= sent /\ Len(asked) \in Nat
      /\ k \in Nat /\ EndOf(k) \in Nat /\ f \in 0..Len(asked) /\ EndOf(f) \in Nat
      /\ EndOf(k) < EndOf(f) /\ f \in Int
  <2>1. Len(asked) \in Nat /\ k \in Nat
    BY <1>1, SolverNumbers
  <2>2. f \in 0..Len(asked) /\ f \in Nat /\ k < f
    BY <1>3, <2>1 DEF Wanted
  <2> QED BY <1>1, <2>1, <2>2, SolverNumbers, AskedEnds
<1>6. \A i \in Int : EndOf(i)' = EndOf(i)
  BY <1>1, AskedSame
<1>7. unread' \in Nat /\ unread' <= unread /\ unread' <= sent /\ sent - unread' = EndOf(f)
  BY <1>1, <1>2, <1>3, <1>5 DEF TakenUpTo
<1>8. ~UnderWay(f) /\ \A i \in Wanted : UnderWay(i) => i < f
  <2>1. \A i \in Wanted : i \in Nat
    BY <1>5 DEF Wanted
  <2>2. \A i \in Wanted : UnderWay(i) => i <= k
    BY <1>2 DEF TakenUpTo
  <2> QED BY <1>3, <1>5, <2>1, <2>2
<1>9. /\ boards \in Seq(Wanted) /\ answers \in Seq(0..Len(asked))
      /\ \A i \in Wanted : i \in 0..Len(asked) /\ i \in Nat /\ i # 0
  BY <1>1, SolverQueues
<1>10. SolverTypeOK'
  <2>1. boards' \in Seq(Wanted) /\ answers' \in Seq(0..Len(asked))
    <3>1. Append(boards, f) \in Seq(Wanted)
      BY <1>3, <1>9, AppendProperties
    <3>2. Append(answers, f) \in Seq(0..Len(asked))
      BY <1>5, <1>9, AppendProperties
    <3> QED BY <1>4, <1>9, <3>1, <3>2
  <2>2. unread' \in 0..sent' /\ EndOf(Len(asked))' = EndOf(Len(asked))
    BY <1>1, <1>5, <1>6, <1>7
  <2> QED BY <1>1, <2>1, <2>2 DEF SolverTypeOK
<1>11. ASSUME NEW i \in Wanted
       PROVE  /\ PlaceInv(i)'
              /\ UnderWay(i)' => UnderWay(i) \/ i = f
              /\ UnderWay(i) => UnderWay(i)'
              /\ i = f /\ sudokuConn = "kConnected" => UnderWay(i)'
  <2>1. PlaceInv(i)
    BY DEF SolverInv
  <2>2. i = f => ~Has(boards, i) /\ ~Working(i) /\ ~Has(sendings, i) /\ ~Has(answers, i)
    BY <1>8 DEF UnderWay
  <2>3. Working(i)' = Working(i) /\ Has(sendings, i)' = Has(sendings, i)
        /\ (Once(sendings, i) => Once(sendings, i)')
    BY <1>1 DEF Working, Has, Once
  <2>4. CASE pooled
    <3>1. /\ Has(answers, i)' = Has(answers, i) /\ (Once(answers, i) => Once(answers, i)')
      BY <1>4, <2>4 DEF Has, Once
    <3>2. /\ Has(boards', i) <=> (Has(boards, i) \/ i = f)
          /\ Once(boards, i) /\ (f = i => ~Has(boards, i)) => Once(boards', i)
      <4>1. /\ Has(Append(boards, f), i) <=> (Has(boards, i) \/ i = f)
            /\ Once(boards, i) /\ (f = i => ~Has(boards, i)) => Once(Append(boards, f), i)
        BY <1>3, <1>9, AppendOnce
      <4>2. boards' = Append(boards, f)
        BY <1>4, <2>4
      <4> QED BY <4>1, <4>2
    <3>3. Has(boards, i)' = Has(boards', i) /\ Once(boards, i)' = Once(boards', i)
      BY DEF Has, Once
    <3> QED BY <1>1, <2>1, <2>2, <2>3, <3>1, <3>2, <3>3 DEF PlaceInv, UnderWay
  <2>5. CASE ~pooled /\ sudokuConn = "kConnected"
    <3>1. /\ Has(boards, i)' = Has(boards, i) /\ (Once(boards, i) => Once(boards, i)')
      BY <1>4, <2>5 DEF Has, Once
    <3>2. /\ Has(answers', i) <=> (Has(answers, i) \/ i = f)
          /\ Once(answers, i) /\ (f = i => ~Has(answers, i)) => Once(answers', i)
      <4>1. /\ Has(Append(answers, f), i) <=> (Has(answers, i) \/ i = f)
            /\ Once(answers, i) /\ (f = i => ~Has(answers, i)) => Once(Append(answers, f), i)
        BY <1>5, <1>9, AppendOnce
      <4>2. answers' = Append(answers, f)
        BY <1>4, <2>5
      <4> QED BY <4>1, <4>2
    <3>3. Has(answers, i)' = Has(answers', i) /\ Once(answers, i)' = Once(answers', i)
      BY DEF Has, Once
    <3> QED BY <1>1, <2>1, <2>2, <2>3, <3>1, <3>2, <3>3 DEF PlaceInv, UnderWay
  <2>6. CASE ~pooled /\ sudokuConn # "kConnected"
    BY <1>1, <1>4, <2>1, <2>6, PlacesSame
  <2> QED BY <2>4, <2>5, <2>6
<1>12. TakenUpTo(f)'
  <2>1. \A i \in Wanted : i <= f <=> (i <= k \/ i = f)
    BY <1>3, <1>5, <1>9
  <2>2. sent' - unread' = EndOf(f)'
    BY <1>1, <1>5, <1>6, <1>7
  <2>3. \A i \in Wanted : UnderWay(i)' => i <= f /\ asked[i].good
    BY <1>1, <1>2, <1>11, <2>1 DEF TakenUpTo
  <2>4. sudokuConn = "kConnected" =>
          \A i \in Wanted : i <= f /\ asked[i].good => UnderWay(i)'
    BY <1>2, <1>11, <2>1 DEF TakenUpTo
  <2>5. lenAtStart' # Absent
    BY <1>1 DEF AskSolver
  <2>6. sudokuConn = "kDisconnecting" =>
          burst \/ \E i \in Wanted : i <= f /\ ~asked[i].good
    BY <1>2, <2>1 DEF TakenUpTo
  <2> QED BY <1>1, <2>2, <2>3, <2>4, <2>5, <2>6 DEF TakenUpTo
<1>13. LenInv'
  <2>1. lenAtStart # Absent /\ lenAtStart \in Int
    BY <1>1, SolverNumbers DEF AskSolver
  <2>2. unread <= lenAtStart /\ (lenAtStart >= MaxDataLen => burst)
        /\ sudokuConn \in {"kConnected", "kDisconnecting"}
    BY <2>1 DEF SolverInv, LenInv
  <2>3. unread' <= lenAtStart
    BY <1>5, <1>7, <2>1, <2>2
  <2> QED BY <1>1, <2>2, <2>3 DEF LenInv
<1>14. BasicInv'
  <2> SUFFICES ASSUME ~pooled PROVE BasicInv'
    BY <1>1 DEF BasicInv
  <2>1. /\ boards = <<>> /\ sending = {} /\ (\A s \in Solvers : solving[s] = 0)
        /\ (\A i \in Wanted : ~Has(sendings, i)) /\ InOrder(answers)
    BY DEF SolverInv, BasicInv
  <2>2. InOrder(answers')
    <3>1. CASE sudokuConn = "kConnected"
      <4>1. \A i \in 1..Len(asked) : Has(answers, i) => i < f
        BY <1>8 DEF UnderWay, Wanted
      <4> QED BY <1>4, <1>5, <1>9, <2>1, <3>1, <4>1, OrderAppend
    <3>2. CASE sudokuConn # "kConnected"
      BY <1>4, <2>1, <3>2
    <3> QED BY <3>1, <3>2
  <2>3. boards' = boards
    BY <1>4
  <2> QED BY <1>1, <2>1, <2>2, <2>3 DEF BasicInv, InOrder, Has
<1>15. LeaveInv'
  BY <1>1 DEF SolverInv, LeaveInv, Has, Once, InFrontOf
<1>16. f \in 0..Len(asked)'
  BY <1>1, <1>5
<1> QED BY <1>1, <1>10, <1>11, <1>12, <1>13, <1>14, <1>15, <1>16 DEF SolverInv, TakenInv

\* onMessage() takes a bad request and refuses it.
LEMMA RefuseKeeps ==
  ASSUME SolverInv, Refuse
  PROVE  SolverInv'
<1>0. PICK f : f = FirstUnread
  OBVIOUS
<1>1. /\ SolverTypeOK /\ asked' = asked /\ Wanted' = Wanted /\ Len(asked)' = Len(asked)
      /\ HasCRLF /\ ~asked[f].good
      /\ UNCHANGED <<pooled, sent, lenAtStart, boards, solving, sending,
                     sendings, burst, goneEarly, lostConn>>
      /\ unread' = sent - EndOf(f)
  BY <1>0, AskedSame DEF SolverInv, Refuse
<1>2. PICK k \in 0..Len(asked) : TakenUpTo(k)
  BY DEF SolverInv, TakenInv
<1>3. f = k + 1 /\ f \in Wanted /\ unread > 0 /\ EndOf(f) <= sent
  BY <1>0, <1>1, <1>2, FirstIsNext DEF HasCRLF, TakenUpTo
<1>4. answers' \in {answers, Append(answers, 0)}
  BY DEF Refuse, SendNow
<1>5. /\ sent \in Nat /\ unread \in Nat /\ unread <= sent /\ Len(asked) \in Nat
      /\ k \in Nat /\ EndOf(k) \in Nat /\ f \in 0..Len(asked) /\ EndOf(f) \in Nat
      /\ EndOf(k) < EndOf(f) /\ f \in Int
  <2>1. Len(asked) \in Nat /\ k \in Nat
    BY <1>1, SolverNumbers
  <2>2. f \in 0..Len(asked) /\ f \in Nat /\ k < f
    BY <1>3, <2>1 DEF Wanted
  <2> QED BY <1>1, <2>1, <2>2, SolverNumbers, AskedEnds
<1>6. \A i \in Int : EndOf(i)' = EndOf(i)
  BY <1>1, AskedSame
<1>7. unread' \in Nat /\ unread' <= unread /\ unread' <= sent /\ sent - unread' = EndOf(f)
  BY <1>1, <1>2, <1>3, <1>5 DEF TakenUpTo
<1>8. /\ lenAtStart # Absent /\ lenAtStart \in Int
      /\ unread <= lenAtStart /\ (lenAtStart >= MaxDataLen => burst)
      /\ sudokuConn \in {"kConnected", "kDisconnecting"}
  <2>1. lenAtStart # Absent /\ lenAtStart \in Int
    BY <1>1, SolverNumbers DEF Refuse
  <2> QED BY <2>1 DEF SolverInv, LenInv
<1>9. sudokuConn' = "kDisconnecting"
  BY <1>8 DEF Refuse, ShuttingDown
<1>10. answers \in Seq(0..Len(asked)) /\ (\A i \in Wanted : i \in Nat /\ i # 0)
       /\ 0 \in 0..Len(asked)
  BY <1>1, <1>5, SolverQueues
<1>11. SolverTypeOK'
  <2>1. answers' \in Seq(0..Len(asked))
    BY <1>4, <1>10, AppendProperties
  <2>2. unread' \in 0..sent' /\ EndOf(Len(asked))' = EndOf(Len(asked))
    BY <1>1, <1>5, <1>6, <1>7
  <2> QED BY <1>1, <1>9, <2>1, <2>2 DEF SolverTypeOK
<1>12. ASSUME NEW i \in Wanted PROVE PlaceInv(i)' /\ UnderWay(i)' = UnderWay(i)
  <2>1. CASE answers' = answers
    BY <1>1, <2>1, PlacesSame DEF SolverInv
  <2>2. CASE answers' = Append(answers, 0)
    <3>1. PlaceInv(i) /\ i # 0
      BY <1>10 DEF SolverInv
    <3>2. /\ Has(answers', i) <=> Has(answers, i)
          /\ Once(answers, i) => Once(answers', i)
      <4>1. /\ Has(Append(answers, 0), i) <=> (Has(answers, i) \/ i = 0)
            /\ Once(answers, i) /\ (0 = i => ~Has(answers, i)) => Once(Append(answers, 0), i)
        BY <1>10, AppendOnce
      <4> QED BY <2>2, <3>1, <4>1
    <3>3. Has(answers, i)' = Has(answers', i) /\ Once(answers, i)' = Once(answers', i)
      BY DEF Has, Once
    <3>4. /\ Working(i)' = Working(i) /\ Has(sendings, i)' = Has(sendings, i)
          /\ Has(boards, i)' = Has(boards, i)
          /\ (Once(sendings, i) => Once(sendings, i)') /\ (Once(boards, i) => Once(boards, i)')
      BY <1>1 DEF Working, Has, Once
    <3> QED BY <1>1, <3>1, <3>2, <3>3, <3>4 DEF PlaceInv, UnderWay
  <2> QED BY <1>4, <2>1, <2>2
<1>13. TakenUpTo(f)'
  <2>1. \A i \in Wanted : i <= k => i <= f
    BY <1>3, <1>5, <1>10
  <2>2. sent' - unread' = EndOf(f)'
    BY <1>1, <1>5, <1>6, <1>7
  <2>3. \A i \in Wanted : UnderWay(i)' => i <= f /\ asked[i].good
    BY <1>2, <1>12, <2>1 DEF TakenUpTo
  <2>4. f <= f /\ ~asked[f].good
    BY <1>1, <1>5
  <2> QED BY <1>1, <1>3, <1>9, <2>2, <2>3, <2>4 DEF TakenUpTo
<1>14. LenInv'
  <2>1. unread' <= lenAtStart
    BY <1>5, <1>7, <1>8
  <2> QED BY <1>1, <1>8, <1>9, <2>1 DEF LenInv
<1>15. BasicInv'
  <2> SUFFICES ASSUME ~pooled PROVE BasicInv'
    BY <1>1 DEF BasicInv
  <2>1. /\ boards = <<>> /\ sending = {} /\ (\A s \in Solvers : solving[s] = 0)
        /\ (\A i \in Wanted : ~Has(sendings, i)) /\ InOrder(answers)
    BY DEF SolverInv, BasicInv
  <2>2. InOrder(answers')
    BY <1>4, <1>5, <1>10, <2>1, OrderAppend
  <2> QED BY <1>1, <2>1, <2>2 DEF BasicInv, InOrder, Has
<1>16. LeaveInv'
  <2>1. ~Has(sendings, 0)
    BY <1>8 DEF SolverInv, LeaveInv
  <2>2. ~goneEarly
    BY <1>8 DEF SolverInv, LeaveInv
  <2> QED BY <1>1, <1>9, <2>1, <2>2 DEF SolverInv, LeaveInv, Has, Once, InFrontOf
<1>17. f \in 0..Len(asked)'
  BY <1>1, <1>5
<1> QED BY <1>1, <1>11, <1>12, <1>13, <1>14, <1>15, <1>16, <1>17 DEF SolverInv, TakenInv

\* A thread of the pool takes a board.
LEMMA TakeBoardKeeps ==
  ASSUME SolverInv, NEW s \in Solvers, TakeBoard(s)
  PROVE  SolverInv'
<1>1. /\ SolverTypeOK /\ asked' = asked /\ Wanted' = Wanted /\ Len(asked)' = Len(asked)
      /\ UNCHANGED <<pooled, sent, unread, lenAtStart, sudokuConn, sending, sendings,
                     answers, burst, goneEarly, lostConn>>
      /\ solving[s] = 0 /\ boards # <<>> /\ boards' = Tail(boards)
  BY AskedSame DEF SolverInv, TakeBoard
<1>2. PICK f : f = Head(boards)
  OBVIOUS
<1>3. solving' = [solving EXCEPT ![s] = f]
  BY <1>2 DEF TakeBoard
<1>4. /\ boards \in Seq(Wanted) /\ solving \in [Solvers -> 0..Len(asked)]
      /\ sending \subseteq Solvers /\ Wanted \subseteq 0..Len(asked) /\ 0 \notin Wanted
      /\ f \in Wanted /\ boards' \in Seq(Wanted)
  <2>1. boards \in Seq(Wanted)
    BY <1>1, SolverQueues
  <2>2. Head(boards) \in Wanted /\ Tail(boards) \in Seq(Wanted)
    BY <1>1, <2>1, HeadTailProperties
  <2> QED BY <1>1, <1>2, <2>2, SolverQueues
<1>5. SolverTypeOK'
  <2>1. solving' \in [Solvers -> 0..Len(asked)]
    BY <1>3, <1>4
  <2>2. EndOf(Len(asked))' = EndOf(Len(asked))
    BY <1>1 DEF EndOf
  <2> QED BY <1>1, <1>4, <2>1, <2>2 DEF SolverTypeOK
<1>6. \A t \in Solvers : solving'[t] = IF t = s THEN f ELSE solving[t]
  BY <1>3, <1>4
<1>7. ASSUME NEW i \in Wanted PROVE PlaceInv(i)' /\ UnderWay(i)' = UnderWay(i)
  <2>1. PlaceInv(i) /\ i # 0
    BY <1>4 DEF SolverInv
  <2>2. /\ Has(boards', i) => Has(boards, i)
        /\ Has(boards, i) /\ f # i => Has(boards', i)
        /\ Once(boards, i) => Once(boards', i)
        /\ Once(boards, i) /\ f = i => ~Has(boards', i)
        /\ Has(boards, f)
    <3>1. /\ Has(Tail(boards), i) => Has(boards, i)
          /\ Has(boards, i) /\ Head(boards) # i => Has(Tail(boards), i)
          /\ Once(boards, i) => Once(Tail(boards), i)
          /\ Once(boards, i) /\ Head(boards) = i => ~Has(Tail(boards), i)
          /\ Has(boards, Head(boards))
      BY <1>1, <1>4, TailOnce
    <3> QED BY <1>1, <1>2, <3>1
  <2>3. /\ Working(i)' <=> (Working(i) \/ i = f)
    <3>1. Working(i)' <=> \E t \in Solvers : solving'[t] = i
      BY DEF Working
    <3>2. Working(i) <=> \E t \in Solvers : solving[t] = i
      BY DEF Working
    <3> QED BY <1>1, <1>6, <2>1, <3>1, <3>2
  <2>4. \A t, u \in Solvers : solving'[t] = i /\ solving'[u] = i => t = u
    <3> SUFFICES ASSUME NEW t \in Solvers, NEW u \in Solvers, solving'[t] = i,
                        solving'[u] = i
                 PROVE  t = u
      OBVIOUS
    <3>1. CASE i = f
      <4>1. ~Working(i)
        BY <2>1, <2>2, <3>1 DEF PlaceInv
      <4> QED BY <1>6, <4>1 DEF Working
    <3>2. CASE i # f
      <4>1. t # s /\ u # s
        BY <1>6, <3>2
      <4> QED BY <1>6, <2>1, <4>1 DEF PlaceInv
    <3> QED BY <3>1, <3>2
  <2>5. /\ Has(boards, i)' = Has(boards', i) /\ Once(boards, i)' = Once(boards', i)
        /\ Has(sendings, i)' = Has(sendings, i) /\ Has(answers, i)' = Has(answers, i)
        /\ Once(sendings, i)' = Once(sendings, i) /\ Once(answers, i)' = Once(answers, i)
    BY <1>1 DEF Has, Once
  <2>6. PlaceInv(i)'
    BY <2>1, <2>2, <2>3, <2>4, <2>5 DEF PlaceInv
  <2>7. UnderWay(i)' <=> UnderWay(i)
    BY <2>2, <2>3, <2>5 DEF UnderWay
  <2>8. UnderWay(i)' \in BOOLEAN /\ UnderWay(i) \in BOOLEAN
    BY DEF UnderWay, Has, Working
  <2> QED BY <2>6, <2>7, <2>8
<1>8. TakenInv'
  <2>1. PICK k \in 0..Len(asked) : TakenUpTo(k)
    BY DEF SolverInv, TakenInv
  <2>2. k \in Int /\ \A i \in Wanted : EndOf(i)' = EndOf(i)
    BY <1>1 DEF EndOf
  <2>3. EndOf(k)' = EndOf(k)
    BY <1>1 DEF EndOf
  <2>4. TakenUpTo(k)'
    BY <1>1, <1>7, <2>1, <2>2, <2>3 DEF TakenUpTo
  <2> QED BY <1>1, <2>4 DEF TakenInv
<1>9. LenInv'
  BY <1>1 DEF SolverInv, LenInv
<1>10. BasicInv'
  <2>1. pooled
    BY <1>1 DEF SolverInv, BasicInv
  <2> QED BY <1>1, <2>1 DEF BasicInv
<1>11. LeaveInv'
  <2>1. \A t \in sending' : solving'[t] # 0
    BY <1>1, <1>4, <1>6 DEF SolverInv, LeaveInv
  <2> QED BY <1>1, <2>1 DEF SolverInv, LeaveInv, Has, Once, InFrontOf
<1> QED BY <1>1, <1>5, <1>7, <1>8, <1>9, <1>10, <1>11 DEF SolverInv

\* A thread of the pool has solved a board.
LEMMA SolvedBoardKeeps ==
  ASSUME SolverInv, NEW s \in Solvers, SolvedBoard(s)
  PROVE  SolverInv'
<1>1. /\ SolverTypeOK /\ asked' = asked /\ Wanted' = Wanted /\ Len(asked)' = Len(asked)
      /\ UNCHANGED <<pooled, sent, unread, lenAtStart, sudokuConn, boards, sendings,
                     answers, burst, goneEarly, lostConn>>
      /\ solving[s] # 0 /\ s \notin sending
      /\ EndOf(Len(asked))' = EndOf(Len(asked))
  BY AskedSame DEF SolverInv, SolvedBoard, EndOf
<1>2. /\ solving \in [Solvers -> 0..Len(asked)] /\ sending \subseteq Solvers
      /\ Wanted \subseteq 0..Len(asked) /\ 0 \notin Wanted /\ Len(asked) \in Nat
  BY <1>1, SolverQueues, SolverNumbers
<1>3. pooled
  BY <1>1 DEF SolverInv, BasicInv
<1>4. BasicInv' /\ LenInv'
  BY <1>1, <1>3 DEF SolverInv, BasicInv, LenInv
<1>5. PICK k \in 0..Len(asked) : TakenUpTo(k)
  BY DEF SolverInv, TakenInv
<1>6. EndOf(k)' = EndOf(k) /\ \A i \in Wanted : EndOf(i)' = EndOf(i)
  BY <1>1 DEF EndOf
<1>7. CASE sudokuConn = "kConnected"
  <2>1. sending' = sending \cup {s} /\ solving' = solving
    BY <1>7 DEF SolvedBoard
  <2>2. SolverTypeOK'
    BY <1>1, <1>2, <2>1 DEF SolverTypeOK
  <2>3. \A i \in Wanted : PlaceInv(i)' /\ UnderWay(i)' = UnderWay(i)
    BY <1>1, <2>1, PlacesSame DEF SolverInv
  <2>4. TakenUpTo(k)'
    BY <1>1, <1>5, <1>6, <2>3 DEF TakenUpTo
  <2>5. LeaveInv'
    BY <1>1, <1>7, <2>1 DEF SolverInv, LeaveInv, Has, Once, InFrontOf
  <2> QED BY <1>1, <1>4, <2>2, <2>3, <2>4, <2>5 DEF SolverInv, TakenInv
<1>8. CASE sudokuConn # "kConnected"
  <2>1. sending' = sending /\ solving' = [solving EXCEPT ![s] = 0]
    BY <1>8 DEF SolvedBoard
  <2>2. \A t \in Solvers : solving'[t] = IF t = s THEN 0 ELSE solving[t]
    BY <1>2, <2>1
  <2>3. SolverTypeOK'
    <3>1. solving' \in [Solvers -> 0..Len(asked)]
      BY <1>2, <2>1
    <3> QED BY <1>1, <2>1, <3>1 DEF SolverTypeOK
  <2>4. ASSUME NEW i \in Wanted PROVE PlaceInv(i)' /\ (UnderWay(i)' => UnderWay(i))
    <3>1. PlaceInv(i) /\ i # 0
      BY <1>2 DEF SolverInv
    <3>2. Working(i)' => Working(i)
      BY <1>1, <2>2, <3>1 DEF Working
    <3>3. \A t, u \in Solvers : solving'[t] = i /\ solving'[u] = i => t = u
      BY <2>2, <3>1 DEF PlaceInv
    <3>4. /\ Has(boards, i)' = Has(boards, i) /\ Once(boards, i)' = Once(boards, i)
          /\ Has(sendings, i)' = Has(sendings, i) /\ Has(answers, i)' = Has(answers, i)
          /\ Once(sendings, i)' = Once(sendings, i) /\ Once(answers, i)' = Once(answers, i)
      BY <1>1 DEF Has, Once
    <3> QED BY <1>1, <3>1, <3>2, <3>3, <3>4 DEF PlaceInv, UnderWay
  <2>5. TakenUpTo(k)'
    BY <1>1, <1>5, <1>6, <1>8, <2>4 DEF TakenUpTo
  <2>6. LeaveInv'
    <3>1. \A t \in sending' : solving'[t] # 0
      BY <1>1, <1>2, <2>1, <2>2 DEF SolverInv, LeaveInv
    <3> QED BY <1>1, <2>1, <3>1 DEF SolverInv, LeaveInv, Has, Once, InFrontOf
  <2> QED BY <1>1, <1>4, <2>3, <2>4, <2>5, <2>6 DEF SolverInv, TakenInv
<1> QED BY <1>7, <1>8

\* It sends the answer to the loop.
LEMMA SendSolvedKeeps ==
  ASSUME SolverInv, NEW s \in Solvers, SendSolved(s)
  PROVE  SolverInv'
<1>1. /\ SolverTypeOK /\ asked' = asked /\ Wanted' = Wanted /\ Len(asked)' = Len(asked)
      /\ UNCHANGED <<pooled, sent, unread, lenAtStart, sudokuConn, boards,
                     answers, burst, goneEarly, lostConn>>
      /\ s \in sending /\ sending' = sending \ {s}
      /\ solving' = [solving EXCEPT ![s] = 0]
      /\ EndOf(Len(asked))' = EndOf(Len(asked))
  BY AskedSame DEF SolverInv, SendSolved, EndOf
<1>2. PICK f : f = solving[s]
  OBVIOUS
<1>3. sendings' = Append(sendings, f)
  BY <1>2 DEF SendSolved
<1>4. /\ solving \in [Solvers -> 0..Len(asked)] /\ sending \subseteq Solvers
      /\ Wanted \subseteq 0..Len(asked) /\ 0 \notin Wanted /\ Len(asked) \in Nat
      /\ sendings \in Seq(0..Len(asked))
  BY <1>1, SolverQueues, SolverNumbers
<1>5. f # 0 /\ f \in 0..Len(asked)
  BY <1>1, <1>2, <1>4 DEF SolverInv, LeaveInv
<1>6. \A t \in Solvers : solving'[t] = IF t = s THEN 0 ELSE solving[t]
  BY <1>1, <1>4
<1>7. pooled
  BY <1>2, <1>4, <1>5 DEF SolverInv, BasicInv
<1>8. BasicInv' /\ LenInv'
  BY <1>1, <1>7 DEF SolverInv, BasicInv, LenInv
<1>9. SolverTypeOK'
  <2>1. solving' \in [Solvers -> 0..Len(asked)]
    BY <1>1, <1>4
  <2>2. sendings' \in Seq(0..Len(asked))
    BY <1>3, <1>4, <1>5, AppendProperties
  <2> QED BY <1>1, <2>1, <2>2 DEF SolverTypeOK
<1>10. ASSUME NEW i \in Wanted PROVE PlaceInv(i)' /\ (UnderWay(i)' <=> UnderWay(i))
  <2>1. PlaceInv(i) /\ i # 0
    BY <1>4 DEF SolverInv
  <2>2. /\ Has(sendings', i) <=> (Has(sendings, i) \/ i = f)
        /\ Once(sendings, i) /\ (f = i => ~Has(sendings, i)) => Once(sendings', i)
    <3>1. /\ Has(Append(sendings, f), i) <=> (Has(sendings, i) \/ i = f)
          /\ Once(sendings, i) /\ (f = i => ~Has(sendings, i)) =>
               Once(Append(sendings, f), i)
      BY <1>4, <1>5, AppendOnce
    <3> QED BY <1>3, <3>1
  <2>3. Working(f) /\ s \in Solvers
    BY <1>2 DEF Working
  <2>4. \A t \in Solvers : f \in Wanted /\ solving[t] = f => t = s
    BY <1>2 DEF SolverInv, PlaceInv
  <2>5. Working(i)' <=> (Working(i) /\ i # f)
    <3>1. ASSUME Working(i)' PROVE Working(i) /\ i # f
      <4>1. PICK t \in Solvers : solving'[t] = i
        BY <3>1 DEF Working
      <4>2. t # s /\ solving[t] = i
        BY <1>6, <2>1, <4>1
      <4> QED BY <2>4, <4>2 DEF Working
    <3>2. ASSUME Working(i), i # f PROVE Working(i)'
      <4>1. PICK t \in Solvers : solving[t] = i
        BY <3>2 DEF Working
      <4>2. solving'[t] = i
        BY <1>2, <1>6, <3>2, <4>1
      <4> QED BY <4>2 DEF Working
    <3> QED BY <3>1, <3>2
  <2>6. \A t, u \in Solvers : solving'[t] = i /\ solving'[u] = i => t = u
    BY <1>6, <2>1 DEF PlaceInv
  <2>7. /\ Has(boards, i)' = Has(boards, i) /\ Once(boards, i)' = Once(boards, i)
        /\ Has(sendings, i)' = Has(sendings', i) /\ Has(answers, i)' = Has(answers, i)
        /\ Once(sendings, i)' = Once(sendings', i) /\ Once(answers, i)' = Once(answers, i)
    BY <1>1 DEF Has, Once
  <2>8. PlaceInv(i)'
    BY <2>1, <2>2, <2>3, <2>5, <2>6, <2>7 DEF PlaceInv
  <2>9. UnderWay(i)' <=> UnderWay(i)
    BY <2>2, <2>3, <2>5, <2>7 DEF UnderWay
  <2> QED BY <2>8, <2>9
<1>11. TakenInv'
  <2>1. PICK k \in 0..Len(asked) : TakenUpTo(k)
    BY DEF SolverInv, TakenInv
  <2>2. EndOf(k)' = EndOf(k) /\ \A i \in Wanted : EndOf(i)' = EndOf(i)
    BY <1>1 DEF EndOf
  <2>3. TakenUpTo(k)'
    BY <1>1, <1>10, <2>1, <2>2 DEF TakenUpTo
  <2> QED BY <1>1, <2>3 DEF TakenInv
<1>12. LeaveInv'
  <2>1. \A t \in sending' : solving'[t] # 0
    BY <1>1, <1>4, <1>6 DEF SolverInv, LeaveInv
  <2>2. /\ Has(sendings', 0) <=> Has(sendings, 0)
        /\ Once(sendings, 0) => Once(sendings', 0)
    <3>1. /\ Has(Append(sendings, f), 0) <=> (Has(sendings, 0) \/ 0 = f)
          /\ Once(sendings, 0) /\ (f = 0 => ~Has(sendings, 0)) =>
               Once(Append(sendings, f), 0)
      BY <1>4, <1>5, AppendOnce
    <3> QED BY <1>3, <1>5, <3>1
  <2>3. ASSUME ~goneEarly
        PROVE  /\ sudokuConn \notin {"kDisconnected", "removed", "destroyed"}
               /\ \A i \in Wanted : InFrontOf(sendings', i, 0)
    <3>1. sudokuConn \notin {"kDisconnected", "removed", "destroyed"}
      BY <1>1, <2>3 DEF SolverInv, LeaveInv
    <3>2. ~Has(sendings', 0)
      BY <2>2, <3>1 DEF SolverInv, LeaveInv
    <3> QED BY <3>1, <3>2 DEF Has, InFrontOf
  <2>4. /\ Has(sendings, 0)' = Has(sendings', 0) /\ Once(sendings, 0)' = Once(sendings', 0)
        /\ \A i : InFrontOf(sendings, i, 0)' = InFrontOf(sendings', i, 0)
    BY DEF Has, Once, InFrontOf
  <2>5. Once(sendings, 0) /\ (Has(sendings, 0) => sudokuConn = "removed")
        /\ (lostConn => pooled /\ goneEarly)
        /\ (goneEarly => sudokuConn \in {"kDisconnected", "removed", "destroyed"})
    BY DEF SolverInv, LeaveInv
  <2> QED BY <1>1, <2>1, <2>2, <2>3, <2>4, <2>5 DEF LeaveInv
<1> QED BY <1>1, <1>8, <1>9, <1>10, <1>11, <1>12 DEF SolverInv

\* The client goes.
LEMMA ClientGoneKeeps ==
  ASSUME SolverInv, ClientGone
  PROVE  SolverInv'
<1>1. /\ SolverTypeOK /\ asked' = asked /\ Wanted' = Wanted /\ Len(asked)' = Len(asked)
      /\ UNCHANGED <<pooled, sent, unread, lenAtStart, boards, solving,
                     sending, sendings, answers, burst, lostConn>>
      /\ EndOf(Len(asked))' = EndOf(Len(asked))
      /\ sudokuConn' = "kDisconnected" /\ goneEarly' = (sending # {})
      /\ lenAtStart = Absent /\ sudokuConn \in {"kConnected", "kDisconnecting"}
  BY AskedSame DEF SolverInv, ClientGone, EndOf, Alive
<1>2. SolverTypeOK'
  <2>1. goneEarly' \in BOOLEAN
    BY <1>1
  <2> QED BY <1>1, <2>1 DEF SolverTypeOK
<1>3. \A i \in Wanted : PlaceInv(i)' /\ UnderWay(i)' = UnderWay(i)
  BY <1>1, PlacesSame DEF SolverInv
<1>4. TakenInv'
  <2>1. PICK k \in 0..Len(asked) : TakenUpTo(k)
    BY DEF SolverInv, TakenInv
  <2>2. EndOf(k)' = EndOf(k)
    BY <1>1 DEF EndOf
  <2>3. TakenUpTo(k)'
    BY <1>1, <1>3, <2>1, <2>2 DEF TakenUpTo
  <2> QED BY <1>1, <2>3 DEF TakenInv
<1>5. LenInv' /\ BasicInv'
  BY <1>1 DEF SolverInv, LenInv, BasicInv, InOrder, Has
<1>6. LeaveInv'
  <2>1. ~Has(sendings, 0) /\ ~lostConn
    <3>1. ~Has(sendings, 0)
      BY <1>1 DEF SolverInv, LeaveInv
    <3>2. ~lostConn
      BY <1>1 DEF SolverInv, LeaveInv
    <3> QED BY <3>1, <3>2
  <2> QED BY <1>1, <2>1 DEF SolverInv, LeaveInv, Has, Once, InFrontOf
<1> QED BY <1>1, <1>2, <1>3, <1>4, <1>5, <1>6 DEF SolverInv

\* Its connection is removed from the server's map.
LEMMA ConnRemovedKeeps ==
  ASSUME SolverInv, ConnRemoved
  PROVE  SolverInv'
<1>1. /\ SolverTypeOK /\ asked' = asked /\ Wanted' = Wanted /\ Len(asked)' = Len(asked)
      /\ UNCHANGED <<pooled, sent, unread, lenAtStart, boards, solving,
                     sending, answers, burst, goneEarly, lostConn>>
      /\ EndOf(Len(asked))' = EndOf(Len(asked))
      /\ sudokuConn = "kDisconnected" /\ sudokuConn' = "removed"
      /\ sendings' = Append(sendings, 0)
  BY AskedSame DEF SolverInv, ConnRemoved, EndOf
<1>2. /\ sendings \in Seq(0..Len(asked)) /\ 0 \in 0..Len(asked)
      /\ Wanted \subseteq 0..Len(asked) /\ 0 \notin Wanted
  BY <1>1, SolverQueues, SolverNumbers
<1>3. SolverTypeOK'
  <2>1. sendings' \in Seq(0..Len(asked))
    BY <1>1, <1>2, AppendProperties
  <2> QED BY <1>1, <2>1 DEF SolverTypeOK
<1>4. lenAtStart = Absent
  BY <1>1 DEF SolverInv, LenInv
<1>5. ASSUME NEW i \in Wanted
      PROVE  PlaceInv(i)' /\ (UnderWay(i)' <=> UnderWay(i)) /\ (Has(sendings, i)' <=> Has(sendings, i))
  <2>1. PlaceInv(i) /\ i # 0
    BY <1>2 DEF SolverInv
  <2>2. /\ Has(sendings', i) <=> Has(sendings, i)
        /\ Once(sendings, i) => Once(sendings', i)
    <3>1. /\ Has(Append(sendings, 0), i) <=> (Has(sendings, i) \/ i = 0)
          /\ Once(sendings, i) /\ (0 = i => ~Has(sendings, i)) =>
               Once(Append(sendings, 0), i)
      BY <1>2, AppendOnce
    <3> QED BY <1>1, <2>1, <3>1
  <2>3. /\ Has(boards, i)' = Has(boards, i) /\ Once(boards, i)' = Once(boards, i)
        /\ Has(sendings, i)' = Has(sendings', i) /\ Has(answers, i)' = Has(answers, i)
        /\ Once(sendings, i)' = Once(sendings', i) /\ Once(answers, i)' = Once(answers, i)
        /\ Working(i)' = Working(i)
    BY <1>1 DEF Has, Once, Working
  <2>4. PlaceInv(i)'
    BY <1>1, <2>1, <2>2, <2>3 DEF PlaceInv
  <2> QED BY <2>2, <2>3, <2>4 DEF UnderWay
<1>6. TakenInv'
  <2>1. PICK k \in 0..Len(asked) : TakenUpTo(k)
    BY DEF SolverInv, TakenInv
  <2>2. EndOf(k)' = EndOf(k)
    BY <1>1 DEF EndOf
  <2>3. TakenUpTo(k)'
    BY <1>1, <1>5, <2>1, <2>2 DEF TakenUpTo
  <2> QED BY <1>1, <2>3 DEF TakenInv
<1>7. LenInv'
  BY <1>1, <1>4 DEF LenInv
<1>8. BasicInv'
  BY <1>1, <1>5 DEF SolverInv, BasicInv, InOrder
<1>9. LeaveInv'
  <2>1. ~Has(sendings, 0) /\ Once(sendings, 0) /\ \A s \in sending : solving[s] # 0
    BY <1>1 DEF SolverInv, LeaveInv
  <2>2. Once(sendings', 0)
    <3>1. /\ Has(Append(sendings, 0), 0) <=> (Has(sendings, 0) \/ 0 = 0)
          /\ Once(sendings, 0) /\ (0 = 0 => ~Has(sendings, 0)) =>
               Once(Append(sendings, 0), 0)
      BY <1>2, AppendOnce
    <3> QED BY <1>1, <2>1, <3>1
  <2>3. ASSUME NEW i \in Wanted PROVE InFrontOf(sendings', i, 0)
    <3>1. /\ Has(Append(sendings, 0), i) <=> (Has(sendings, i) \/ i = 0)
          /\ Once(sendings, i) /\ (0 = i => ~Has(sendings, i)) =>
               Once(Append(sendings, 0), i)
          /\ InFrontOf(sendings, i, 0) /\ (0 = i => ~Has(sendings, 0)) /\ i # 0 =>
               InFrontOf(Append(sendings, 0), i, 0)
      BY <1>2, AppendHas
    <3>2. InFrontOf(sendings, i, 0)
      BY <2>1 DEF InFrontOf, Has
    <3> QED BY <1>1, <1>2, <3>1, <3>2
  <2>4. /\ Once(sendings, 0)' = Once(sendings', 0)
        /\ \A i : InFrontOf(sendings, i, 0)' = InFrontOf(sendings', i, 0)
    BY DEF Once, InFrontOf
  <2>5. /\ ~goneEarly => sending = {}
        /\ lostConn => pooled /\ goneEarly
    BY <1>1 DEF SolverInv, LeaveInv
  <2> QED BY <1>1, <2>1, <2>2, <2>3, <2>4, <2>5 DEF LeaveInv
<1> QED BY <1>1, <1>3, <1>5, <1>6, <1>7, <1>8, <1>9 DEF SolverInv

\* connectDestroyed() runs.
LEMMA ConnDestroyedKeeps ==
  ASSUME SolverInv, ConnDestroyed
  PROVE  SolverInv'
<1>1. /\ SolverTypeOK /\ asked' = asked /\ Wanted' = Wanted /\ Len(asked)' = Len(asked)
      /\ UNCHANGED <<pooled, sent, unread, lenAtStart, boards, solving,
                     sending, answers, burst, goneEarly, lostConn>>
      /\ EndOf(Len(asked))' = EndOf(Len(asked))
      /\ lenAtStart = Absent /\ sudokuConn' = "destroyed"
      /\ sendings # <<>> /\ Head(sendings) = 0 /\ sendings' = Tail(sendings)
  BY AskedSame DEF SolverInv, ConnDestroyed, EndOf
<1>2. /\ sendings \in Seq(0..Len(asked)) /\ 0 \notin Wanted /\ 0 \in 0..Len(asked)
      /\ Wanted = 1..Len(asked) /\ Len(asked) \in Nat
  BY <1>1, SolverQueues, SolverNumbers DEF Wanted
<1>3. SolverTypeOK'
  <2>1. sendings' \in Seq(0..Len(asked))
    BY <1>1, <1>2, HeadTailProperties
  <2> QED BY <1>1, <2>1 DEF SolverTypeOK
<1>4. sudokuConn = "removed" /\ Once(sendings, 0) /\ ~Has(sendings', 0)
  <2>1. Once(sendings, 0)
    BY DEF SolverInv, LeaveInv
  <2>2. /\ Has(sendings, Head(sendings))
        /\ Once(sendings, 0) /\ Head(sendings) = 0 => ~Has(Tail(sendings), 0)
    BY <1>1, <1>2, TailOnce
  <2> QED BY <1>1, <2>1, <2>2 DEF SolverInv, LeaveInv
<1>5. ASSUME NEW i \in Wanted
      PROVE  PlaceInv(i)' /\ (UnderWay(i)' <=> UnderWay(i)) /\ (Has(sendings, i)' <=> Has(sendings, i))
  <2>1. PlaceInv(i) /\ i # 0
    BY <1>2 DEF SolverInv
  <2>2. /\ Has(sendings', i) <=> Has(sendings, i)
        /\ Once(sendings, i) => Once(sendings', i)
    <3>1. /\ Has(Tail(sendings), i) => Has(sendings, i)
          /\ Has(sendings, i) /\ Head(sendings) # i => Has(Tail(sendings), i)
          /\ Once(sendings, i) => Once(Tail(sendings), i)
      BY <1>1, <1>2, TailOnce
    <3> QED BY <1>1, <2>1, <3>1
  <2>3. /\ Has(boards, i)' = Has(boards, i) /\ Once(boards, i)' = Once(boards, i)
        /\ Has(sendings, i)' = Has(sendings', i) /\ Has(answers, i)' = Has(answers, i)
        /\ Once(sendings, i)' = Once(sendings', i) /\ Once(answers, i)' = Once(answers, i)
        /\ Working(i)' = Working(i)
    BY <1>1 DEF Has, Once, Working
  <2>4. PlaceInv(i)'
    BY <1>1, <2>1, <2>2, <2>3 DEF PlaceInv
  <2> QED BY <2>2, <2>3, <2>4 DEF UnderWay
<1>6. TakenInv'
  <2>1. PICK k \in 0..Len(asked) : TakenUpTo(k)
    BY DEF SolverInv, TakenInv
  <2>2. EndOf(k)' = EndOf(k)
    BY <1>1 DEF EndOf
  <2>3. TakenUpTo(k)'
    BY <1>1, <1>5, <2>1, <2>2 DEF TakenUpTo
  <2> QED BY <1>1, <2>3 DEF TakenInv
<1>7. LenInv'
  BY <1>1 DEF LenInv
<1>8. BasicInv'
  BY <1>1, <1>5 DEF SolverInv, BasicInv, InOrder
<1>9. LeaveInv'
  <2>1. /\ \A s \in sending : solving[s] # 0
        /\ ~goneEarly => sending = {} /\ \A i \in Wanted : InFrontOf(sendings, i, 0)
        /\ lostConn => pooled /\ goneEarly
    BY <1>4 DEF SolverInv, LeaveInv
  <2>2. Once(sendings', 0)
    BY <1>4 DEF Once, Has
  <2>3. ASSUME ~goneEarly PROVE sendings' = <<>>
    <3>1. ASSUME NEW i \in Wanted PROVE ~Has(sendings', i)
      <4>1. /\ Has(Tail(sendings), i) => Has(sendings, i)
            /\ Has(sendings, i) /\ Head(sendings) # i => Has(Tail(sendings), i)
            /\ Once(sendings, i) => Once(Tail(sendings), i)
            /\ Once(sendings, i) /\ Head(sendings) = i => ~Has(Tail(sendings), i)
            /\ InFrontOf(sendings, i, 0) => InFrontOf(Tail(sendings), i, 0)
            /\ InFrontOf(sendings, i, 0) /\ Head(sendings) = 0 => ~Has(sendings, i)
            /\ Has(sendings, Head(sendings))
        BY <1>1, <1>2, TailHas
      <4> QED BY <1>1, <2>1, <2>3, <4>1
    <3>2. \A i \in 0..Len(asked) : ~Has(sendings', i)
      BY <1>2, <1>4, <3>1
    <3>3. sendings' \in Seq(0..Len(asked))
      BY <1>1, <1>2, HeadTailProperties
    <3>4. SUFFICES ASSUME sendings' # <<>> PROVE FALSE
      OBVIOUS
    <3>5. Has(sendings', Head(sendings')) /\ Head(sendings') \in 0..Len(asked)
      BY <3>3, <3>4, TailOnce, HeadTailProperties
    <3> QED BY <3>2, <3>5
  <2>4. /\ Once(sendings, 0)' = Once(sendings', 0) /\ Has(sendings, 0)' = Has(sendings', 0)
        /\ \A i : InFrontOf(sendings, i, 0)' = InFrontOf(sendings', i, 0)
    BY DEF Once, InFrontOf, Has
  <2>5. ~Has(sendings', 0) => \A i : InFrontOf(sendings', i, 0)
    BY DEF InFrontOf, Has
  <2> QED BY <1>1, <1>4, <2>1, <2>2, <2>3, <2>4, <2>5 DEF LeaveInv
<1> QED BY <1>1, <1>3, <1>5, <1>6, <1>7, <1>8, <1>9 DEF SolverInv

\* The loop sends an answer.
LEMMA RunSendingKeeps ==
  ASSUME SolverInv, RunSending
  PROVE  SolverInv'
<1>1. /\ SolverTypeOK /\ asked' = asked /\ Wanted' = Wanted /\ Len(asked)' = Len(asked)
      /\ UNCHANGED <<pooled, sent, unread, lenAtStart, sudokuConn, boards, solving,
                     sending, burst, goneEarly>>
      /\ EndOf(Len(asked))' = EndOf(Len(asked))
      /\ lenAtStart = Absent
      /\ sendings # <<>> /\ Head(sendings) # 0 /\ sendings' = Tail(sendings)
      /\ lostConn' = (lostConn \/ ConnDeleted)
  BY AskedSame DEF SolverInv, RunSending, EndOf
<1>2. PICK h : h = Head(sendings)
  OBVIOUS
<1>3. \/ sudokuConn = "kConnected" /\ answers' = Append(answers, h)
      \/ sudokuConn # "kConnected" /\ answers' \in {answers, Append(answers, h)}
  BY <1>2 DEF RunSending, SendNow
<1>4. /\ sendings \in Seq(0..Len(asked)) /\ answers \in Seq(0..Len(asked)) /\ 0 \notin Wanted
      /\ Wanted = 1..Len(asked) /\ Len(asked) \in Nat
      /\ h \in 0..Len(asked) /\ h \in Wanted
      /\ sendings' \in Seq(0..Len(asked))
  <2>1. /\ sendings \in Seq(0..Len(asked)) /\ answers \in Seq(0..Len(asked)) /\ 0 \notin Wanted
        /\ Wanted = 1..Len(asked) /\ Len(asked) \in Nat
    BY <1>1, SolverQueues, SolverNumbers DEF Wanted
  <2>2. Head(sendings) \in 0..Len(asked) /\ Tail(sendings) \in Seq(0..Len(asked))
    BY <1>1, <2>1, HeadTailProperties
  <2>3. h \in Wanted
    BY <1>1, <1>2, <2>1, <2>2
  <2> QED BY <1>1, <1>2, <2>1, <2>2, <2>3
<1>5. Has(sendings, h) /\ pooled
  <2>1. Has(sendings, Head(sendings))
    BY <1>1, <1>4, TailOnce
  <2> QED BY <1>2, <1>4, <2>1 DEF SolverInv, BasicInv
<1>6. SolverTypeOK'
  <2>1. answers' \in Seq(0..Len(asked))
    <3>1. Append(answers, h) \in Seq(0..Len(asked))
      BY <1>4, AppendProperties
    <3> QED BY <1>3, <1>4, <3>1
  <2>2. lostConn' \in BOOLEAN
    BY <1>1
  <2> QED BY <1>1, <1>4, <2>1, <2>2 DEF SolverTypeOK
<1>7. ASSUME NEW i \in Wanted
      PROVE  /\ PlaceInv(i)' /\ (UnderWay(i)' => UnderWay(i))
             /\ sudokuConn = "kConnected" => (UnderWay(i) => UnderWay(i)')
             /\ Has(sendings, i)' => Has(sendings, i)
  <2>1. PlaceInv(i) /\ i # 0
    BY <1>4 DEF SolverInv
  <2>2. /\ Has(sendings', i) => Has(sendings, i)
        /\ Has(sendings, i) /\ h # i => Has(sendings', i)
        /\ Once(sendings, i) => Once(sendings', i)
        /\ Once(sendings, i) /\ h = i => ~Has(sendings', i)
    <3>1. /\ Has(Tail(sendings), i) => Has(sendings, i)
          /\ Has(sendings, i) /\ Head(sendings) # i => Has(Tail(sendings), i)
          /\ Once(sendings, i) => Once(Tail(sendings), i)
          /\ Once(sendings, i) /\ Head(sendings) = i => ~Has(Tail(sendings), i)
      BY <1>1, <1>4, TailOnce
    <3> QED BY <1>1, <1>2, <3>1
  <2>3. /\ Has(answers', i) => Has(answers, i) \/ i = h
        /\ Has(answers, i) => Has(answers', i)
        /\ sudokuConn = "kConnected" /\ i = h => Has(answers', i)
        /\ Once(answers, i) /\ (h = i => ~Has(answers, i)) => Once(answers', i)
    <3>1. /\ Has(Append(answers, h), i) <=> (Has(answers, i) \/ i = h)
          /\ Once(answers, i) /\ (h = i => ~Has(answers, i)) => Once(Append(answers, h), i)
      BY <1>4, AppendOnce
    <3> QED BY <1>3, <3>1
  <2>4. /\ Has(boards, i)' = Has(boards, i) /\ Once(boards, i)' = Once(boards, i)
        /\ Has(sendings, i)' = Has(sendings', i) /\ Has(answers, i)' = Has(answers', i)
        /\ Once(sendings, i)' = Once(sendings', i) /\ Once(answers, i)' = Once(answers', i)
        /\ Working(i)' = Working(i)
    BY <1>1 DEF Has, Once, Working
  <2>5. PlaceInv(i)'
    BY <1>1, <1>5, <2>1, <2>2, <2>3, <2>4 DEF PlaceInv
  <2> QED BY <1>5, <2>2, <2>3, <2>4, <2>5 DEF UnderWay
<1>8. TakenInv'
  <2>1. PICK k \in 0..Len(asked) : TakenUpTo(k)
    BY DEF SolverInv, TakenInv
  <2>2. EndOf(k)' = EndOf(k) /\ \A i \in Wanted : EndOf(i)' = EndOf(i)
    BY <1>1 DEF EndOf
  <2>3. TakenUpTo(k)'
    BY <1>1, <1>7, <2>1, <2>2 DEF TakenUpTo
  <2> QED BY <1>1, <2>3 DEF TakenInv
<1>9. LenInv' /\ BasicInv'
  BY <1>1, <1>5 DEF LenInv, BasicInv
<1>10. LeaveInv'
  <2>1. /\ Has(sendings', 0) => Has(sendings, 0)
        /\ Once(sendings, 0) => Once(sendings', 0)
    <3>1. /\ Has(Tail(sendings), 0) => Has(sendings, 0)
          /\ Once(sendings, 0) => Once(Tail(sendings), 0)
      BY <1>1, <1>4, TailOnce
    <3> QED BY <1>1, <3>1
  <2>2. ASSUME NEW i \in Wanted PROVE InFrontOf(sendings, i, 0) => InFrontOf(sendings', i, 0)
    <3>1. /\ Has(Tail(sendings), i) => Has(sendings, i)
          /\ InFrontOf(sendings, i, 0) => InFrontOf(Tail(sendings), i, 0)
      BY <1>1, <1>4, TailHas
    <3> QED BY <1>1, <3>1
  <2>3. lostConn' => pooled /\ goneEarly
    <3>1. ~goneEarly => sudokuConn # "destroyed"
      BY <1>1 DEF SolverInv, LeaveInv
    <3>2. lostConn => goneEarly
      BY DEF SolverInv, LeaveInv
    <3> QED BY <1>1, <1>5, <3>1, <3>2 DEF ConnDeleted
  <2>4. /\ Once(sendings, 0)' = Once(sendings', 0) /\ Has(sendings, 0)' = Has(sendings', 0)
        /\ \A i : InFrontOf(sendings, i, 0)' = InFrontOf(sendings', i, 0)
    BY DEF Once, InFrontOf, Has
  <2>5. ~goneEarly => sudokuConn # "destroyed"
    BY <1>1 DEF SolverInv, LeaveInv
  <2>6. /\ \A s \in sending : solving[s] # 0
        /\ Once(sendings, 0)
        /\ Has(sendings, 0) => sudokuConn = "removed"
        /\ goneEarly => sudokuConn \in {"kDisconnected", "removed", "destroyed"}
        /\ ~goneEarly =>
             /\ sudokuConn \in {"kDisconnected", "removed", "destroyed"} => sending = {}
             /\ \A i \in Wanted : InFrontOf(sendings, i, 0)
    BY DEF SolverInv, LeaveInv
  <2> QED BY <1>1, <2>1, <2>2, <2>3, <2>4, <2>5, <2>6 DEF LeaveInv
<1> QED BY <1>1, <1>6, <1>7, <1>8, <1>9, <1>10 DEF SolverInv

LEMMA SolverStarts ==
  ASSUME SolverInit
  PROVE  SolverInv
<1> USE DEF SolverInit
<1> DEFINE n == Len(asked)
<1>1. asked \in Askings(MaxAsked)
  OBVIOUS
<1>2. PICK m \in 1..MaxAsked : asked \in [1..m -> [end : 1..MaxAsked * (BoardLen + 1), good : BOOLEAN]]
  BY <1>1 DEF Askings
<1>3. m \in Nat /\ n = m
  BY <1>2, SolverAssumption
<1>4. EndOf(n) \in Nat
  <2>1. n \in 1..m /\ n # 0
    BY <1>2, <1>3, SolverAssumption
  <2>2. asked[n].end \in 1..MaxAsked * (BoardLen + 1)
    BY <1>2, <2>1
  <2>3. MaxAsked * (BoardLen + 1) \in Int
    BY SolverAssumption
  <2> HIDE DEF n
  <2> QED BY <2>1, <2>2, <2>3 DEF EndOf
<1> HIDE DEF n
<1>5. SolverTypeOK
  <2>1. sent \in 0..EndOf(n) /\ unread \in 0..sent
    BY <1>4
  <2>2. /\ boards \in Seq(Wanted) /\ sendings \in Seq(0..n) /\ answers \in Seq(0..n)
        /\ solving \in [Solvers -> 0..n]
    BY <1>3
  <2> QED BY <1>1, <2>1, <2>2 DEF SolverTypeOK, n
<1>6. \A i \in Wanted : PlaceInv(i) /\ ~UnderWay(i) /\ i \in Nat /\ i > 0
  BY <1>3 DEF PlaceInv, UnderWay, Working, Has, Once, Wanted, n
<1>7. TakenUpTo(0)
  <2>1. EndOf(0) = 0 /\ sent - unread = 0
    BY DEF EndOf
  <2>2. \A i \in Wanted : EndOf(i) > sent
    <3>1. \A i \in Wanted : EndOf(0) < EndOf(i)
      BY <1>5, <1>6, AskedEnds DEF Wanted
    <3>2. \A i \in Wanted : EndOf(i) \in Nat
      BY <1>5, <1>6, AskedEnds DEF Wanted
    <3> QED BY <2>1, <3>1, <3>2
  <2>3. \A i \in Wanted : EndOf(i) \in Nat
    BY <1>5, <1>6, AskedEnds DEF Wanted
  <2>4. \A i \in Wanted : ~(EndOf(i) <= sent) /\ ~(i <= 0)
    BY <1>6, <2>2, <2>3
  <2> QED BY <1>6, <2>1, <2>4 DEF TakenUpTo
<1>8. 0 \in 0..Len(asked)
  BY <1>3 DEF n
<1>9. LenInv /\ BasicInv /\ LeaveInv
  BY DEF LenInv, BasicInv, LeaveInv, InOrder, InFrontOf, Once, Has
<1> QED BY <1>5, <1>6, <1>7, <1>8, <1>9 DEF SolverInv, TakenInv

LEMMA SolverSteps ==
  ASSUME SolverInv, [SolverNext]_solverVars
  PROVE  SolverInv'
<1>1. ASSUME NEW n \in 1..EndOf(Len(asked)), Receive(n) PROVE SolverInv'
  BY <1>1, ReceiveKeeps
<1>2. CASE AskSolver
  BY <1>2, AskSolverKeeps
<1>3. CASE Refuse
  BY <1>3, RefuseKeeps
<1>4. CASE StopReading
  BY <1>4, StopReadingKeeps
<1>5. ASSUME NEW s \in Solvers, TakeBoard(s) PROVE SolverInv'
  BY <1>5, TakeBoardKeeps
<1>6. ASSUME NEW s \in Solvers, SolvedBoard(s) PROVE SolverInv'
  BY <1>6, SolvedBoardKeeps
<1>7. ASSUME NEW s \in Solvers, SendSolved(s) PROVE SolverInv'
  BY <1>7, SendSolvedKeeps
<1>8. CASE RunSending
  BY <1>8, RunSendingKeeps
<1>9. CASE ClientGone
  BY <1>9, ClientGoneKeeps
<1>10. CASE ConnRemoved
  BY <1>10, ConnRemovedKeeps
<1>11. CASE ConnDestroyed
  BY <1>11, ConnDestroyedKeeps
<1>12. CASE UNCHANGED solverVars
  <2>1. SolverTypeOK' /\ LenInv' /\ BasicInv' /\ LeaveInv'
    <3>1. SolverTypeOK'
      BY <1>12 DEF SolverInv, solverVars, SolverTypeOK, EndOf, Wanted
    <3>2. LenInv' /\ BasicInv' /\ LeaveInv'
      BY <1>12 DEF SolverInv, solverVars, LenInv, BasicInv, LeaveInv, InOrder, Has,
                   Once, InFrontOf, Wanted
    <3> QED BY <3>1, <3>2
  <2>2. \A i \in Wanted' : PlaceInv(i)'
    BY <1>12 DEF SolverInv, solverVars, PlaceInv, Working, Has, Once, Wanted
  <2>3. TakenInv'
    BY <1>12 DEF SolverInv, solverVars, TakenInv, TakenUpTo, UnderWay, Working, Has,
                 EndOf, Wanted
  <2> QED BY <2>1, <2>2, <2>3 DEF SolverInv
<1> QED BY <1>1, <1>2, <1>3, <1>4, <1>5, <1>6, <1>7, <1>8, <1>9, <1>10, <1>11, <1>12
        DEF SolverNext

LEMMA SolverInvServes ==
  ASSUME SolverInv
  PROVE  SolverServes
<1> DEFINE given == {answers[j] : j \in DOMAIN answers} \ {0}
           whole == {i \in Wanted : EndOf(i) <= sent}
           quiet == /\ lenAtStart = Absent /\ boards = <<>> /\ sendings = <<>>
                    /\ \A s \in Solvers : solving[s] = 0
<1>1. SolverTypeOK
  BY DEF SolverInv
<1>2. PICK k \in 0..Len(asked) : TakenUpTo(k)
  BY DEF SolverInv, TakenInv
<1>3. /\ answers \in Seq(0..Len(asked)) /\ Len(asked) \in Nat /\ sent \in Nat
      /\ unread \in Nat /\ k \in Nat /\ EndOf(k) \in Nat
      /\ \A i \in Wanted : i \in Nat /\ i # 0 /\ i \in 0..Len(asked) /\ EndOf(i) \in Nat
  <2>1. Len(asked) \in Nat
    BY <1>1, SolverNumbers
  <2>2. \A i \in Wanted : i \in Nat /\ i # 0 /\ i \in 0..Len(asked)
    BY <2>1 DEF Wanted
  <2> QED BY <1>1, <2>1, <2>2, SolverQueues, SolverNumbers, AskedEnds
<1>4. \A j \in DOMAIN answers : answers[j] \in 0..Len(asked) /\ j \in Int
  BY <1>3
<1>5. \A i \in Wanted : i <= k => EndOf(i) <= sent
  <2>1. \A i \in Wanted : i <= k => EndOf(i) <= EndOf(k)
    <3> SUFFICES ASSUME NEW i \in Wanted, i <= k PROVE EndOf(i) <= EndOf(k)
      OBVIOUS
    <3>1. i = k \/ i < k
      BY <1>3
    <3>2. i < k => EndOf(i) < EndOf(k)
      BY <1>1, <1>3, AskedEnds
    <3> QED BY <1>3, <3>1, <3>2
  <2>2. EndOf(k) <= sent
    BY <1>2, <1>3 DEF TakenUpTo
  <2> QED BY <1>3, <2>1, <2>2
<1>6. ASSUME NEW j \in DOMAIN answers, NEW l \in DOMAIN answers, j < l,
             answers[j] # 0, answers[l] # 0
      PROVE  answers[j] # answers[l] /\ (~pooled => answers[j] < answers[l])
  <2>1. answers[j] \in Wanted
    BY <1>3, <1>4, <1>6 DEF Wanted
  <2>2. Once(answers, answers[j])
    BY <2>1 DEF SolverInv, PlaceInv
  <2>3. answers[j] # answers[l]
    BY <1>4, <1>6, <2>2 DEF Once
  <2>4. ~pooled => answers[j] < answers[l]
    BY <1>6 DEF SolverInv, BasicInv, InOrder
  <2> QED BY <2>3, <2>4
<1>7. \A i \in given : i \in Wanted /\ Has(answers, i)
  BY <1>3, <1>4 DEF Wanted, Has
<1>8. given \subseteq {i \in whole : asked[i].good}
  <2> SUFFICES ASSUME NEW i \in given PROVE i \in whole /\ asked[i].good
    OBVIOUS
  <2>1. i \in Wanted /\ UnderWay(i)
    BY <1>7 DEF UnderWay
  <2>2. i <= k /\ asked[i].good
    BY <1>2, <2>1 DEF TakenUpTo
  <2> QED BY <1>5, <2>1, <2>2
<1>9. ASSUME sudokuConn = "kConnected", quiet, NEW i \in whole, asked[i].good
      PROVE  i \in given
  <2>1. i <= k
    <3>1. ~(i > k)
      BY <1>2, <1>9 DEF TakenUpTo
    <3> QED BY <1>3, <3>1
  <2>2. UnderWay(i)
    BY <1>2, <1>9, <2>1 DEF TakenUpTo
  <2>3. ~Has(boards, i) /\ ~Working(i) /\ ~Has(sendings, i)
    BY <1>3, <1>9 DEF Has, Working
  <2>4. Has(answers, i)
    BY <2>2, <2>3 DEF UnderWay
  <2> QED BY <1>3, <2>4 DEF Has
<1>10. sudokuConn = "kDisconnecting" => burst \/ \E i \in whole : ~asked[i].good
  BY <1>2, <1>5 DEF TakenUpTo
<1>11. lostConn => pooled /\ goneEarly
  BY DEF SolverInv, LeaveInv
<1>12. sudokuConn = "kConnected" /\ quiet => given = {i \in whole : asked[i].good}
  BY <1>8, <1>9
<1> HIDE DEF given, whole, quiet
<1> QED BY <1>6, <1>8, <1>10, <1>11, <1>12 DEF SolverServes, given, whole, quiet

\* Each good request is answered once, on one thread in order, and none that
\* arrived is left out while the connection is up; only who sent a bad one or
\* too much at once is turned away; and a queued answer finds its connection
\* unless the client went between connected() and the push
\* (server_threadpool.cpp:43, TcpConnection.cc:127): for any number of threads
\* and requests.
THEOREM SolverAlwaysServes == SolverSpec => []SolverServes
<1>1. SolverInit => SolverInv
  BY SolverStarts
<1>2. SolverInv /\ [SolverNext]_solverVars => SolverInv'
  BY SolverSteps
<1>3. SolverInv => SolverServes
  BY SolverInvServes
<1> QED BY <1>1, <1>2, <1>3, PTL DEF SolverSpec

-----------------------------------------------------------------------------
(* The chat servers: the inductive invariant.                              *)

\* The functors of the loops.
SendOf(c, m) == [type |-> "sendInLoop", conn |-> c, msg |-> m]
ShareOf(m) == [type |-> "onDistributeMessage", msg |-> m]
EndingOf(c) == [type |-> "connectDestroyed", conn |-> c]

Spoken == ChatConns \X Nat

ChatFunctors ==
  {SendOf(c, m) : c \in ChatConns, m \in Spoken} \cup
  {ShareOf(m) : m \in Spoken} \cup {EndingOf(c) : c \in ChatConns}

\* What brings message n of speaker d to connection c on another loop: its
\* own functor, or when messages are shared the loop's.
Carrier(share, c, d, n) == IF share THEN ShareOf(<<d, n>>) ELSE SendOf(c, <<d, n>>)

\* The callback that hands d's last message on has not come to c.
InHand(c, d) ==
  /\ saying[LoopOf(d)] = <<d, said[d]>>
  /\ IF hp THEN LoopOf(c) \in rest[LoopOf(d)]
           ELSE c \in rest[LoopOf(d)] \/ tested[LoopOf(d)] = c

\* In the messages h, those of speaker d, s so far, come one after the other.
HearsWell(h, d, s) ==
  /\ \A n \in Nat : Once(h, <<d, n>>) /\ (Has(h, <<d, n>>) => 1 <= n /\ n <= s)
  /\ \A n, k \in Nat : n < k => InFrontOf(h, <<d, n>>, <<d, k>>)
  /\ \A n, i, k \in Nat :
       Has(h, <<d, n>>) /\ Has(h, <<d, k>>) /\ n < i /\ i < k => Has(h, <<d, i>>)

\* Message n of d waits for c: in the queue q or, when p, in hand.
Waits(share, q, c, d, s, p, n) == Has(q, Carrier(share, c, d, n)) \/ (p /\ n = s)

\* Those that wait come behind those heard and leave none out; a connection
\* that is up hears all behind the first `since'.
HearsAll(share, h, q, c, d, s, p, st, since) ==
  /\ \A n \in Nat :
       /\ Once(q, Carrier(share, c, d, n))
       /\ Has(q, Carrier(share, c, d, n)) => 1 <= n /\ n <= s /\ (p => n < s)
  /\ p => 1 <= s
  /\ \A n, k \in Nat : n < k => InFrontOf(q, Carrier(share, c, d, n), Carrier(share, c, d, k))
  /\ \A n, k \in Nat : Has(h, <<d, n>>) /\ Waits(share, q, c, d, s, p, k) => n < k
  /\ \A n, i \in Nat :
       n < i /\ i <= s /\ (Has(h, <<d, n>>) \/ Waits(share, q, c, d, s, p, n)) =>
         Has(h, <<d, i>>) \/ Waits(share, q, c, d, s, p, i)
  /\ st = "kConnected" =>
       \A i \in Nat : since < i /\ i <= s =>
         Has(h, <<d, i>>) \/ Waits(share, q, c, d, s, p, i)

PairInv(c, d) ==
  /\ HearsWell(heard[c], d, said[d])
  /\ chatConn[c] \in {"new", "kConnected"} =>
       HearsAll(hp, heard[c], queued[LoopOf(c)], c, d, said[d], InHand(c, d),
                chatConn[c], joined[c][d])

ChatTypes ==
  /\ hp \in BOOLEAN /\ limit \in Nat
  /\ chatConn \in [ChatConns -> {"new", "kConnected", "kDisconnecting",
                                "kDisconnected"}]
  /\ members \subseteq ChatConns
  /\ said \in [ChatConns -> Nat]
  /\ joined \in [ChatConns -> [ChatConns -> Nat]]
  /\ saying \in [ChatLoops -> {Silence} \cup Spoken]
  /\ copied \in [ChatLoops -> SUBSET ChatConns]
  /\ rest \in [ChatLoops -> SUBSET (ChatConns \cup ChatLoops)]
  /\ tested \in [ChatLoops -> ChatConns \cup {NoOne}]
  /\ queued \in [ChatLoops -> Seq(ChatFunctors)]
  /\ heard \in [ChatConns -> Seq(Spoken)]

\* What each loop has in hand and in its queue.
LoopInv(l) ==
  /\ saying[l] # Silence =>
       LoopOf(saying[l][1]) = l /\ saying[l][2] = said[saying[l][1]]
  /\ saying[l] = Silence => rest[l] = {} /\ tested[l] = NoOne
  /\ hp => tested[l] = NoOne /\ rest[l] \subseteq ChatLoops
  /\ ~hp => rest[l] \subseteq ChatConns /\ tested[l] \notin rest[l]
  /\ tested[l] # NoOne => LoopOf(tested[l]) # l
  /\ \A m \in Spoken : Has(queued[l], ShareOf(m)) => hp /\ LoopOf(m[1]) # l
  /\ \A c \in ChatConns, m \in Spoken :
       Has(queued[l], SendOf(c, m)) =>
         ~hp /\ LoopOf(c) = l /\ LoopOf(m[1]) # l
         /\ chatConn[c] \notin {"new", "kDisconnecting"}

\* How far a connection is.
ChatConnInv(c) ==
  /\ chatConn[c] = "kConnected" => c \in members
  /\ c \in members => chatConn[c] \in {"kConnected", "kDisconnecting"}
  /\ chatConn[c] \in {"new", "kDisconnecting"} =>
       heard[c] = <<>> /\ \A l \in ChatLoops : tested[l] # c
  /\ chatConn[c] = "kDisconnecting" => ~hp
  /\ chatConn[c] = "new" /\ ~hp => \A l \in ChatLoops : c \notin rest[l]
  /\ c \in leaving \cup destroyed => chatConn[c] = "kDisconnected"
  /\ \A l \in ChatLoops :
       Has(queued[l], EndingOf(c)) => l = LoopOf(c) /\ chatConn[c] = "kDisconnected"
  /\ c \notin sentLate =>
       /\ \A l \in ChatLoops : tested[l] = c => chatConn[c] = "kConnected"
       /\ \A m \in Spoken :
            InFrontOf(queued[LoopOf(c)], SendOf(c, m), EndingOf(c))
       /\ c \in destroyed =>
            \A m \in Spoken : ~Has(queued[LoopOf(c)], SendOf(c, m))

AdmittedInv ==
  ~hp => Cardinality({c \in ChatConns : chatConn[c] = "kConnected"}) <= limit

ChatInv ==
  /\ ChatTypes /\ AdmittedInv /\ ~dangling
  /\ \A l \in ChatLoops : LoopInv(l)
  /\ \A c \in ChatConns : ChatConnInv(c)
  /\ \A c, d \in ChatConns : PairInv(c, d)

LEMMA ChatNumbers ==
  /\ MaxChatConns \in Nat /\ Limits \subseteq Nat
  /\ \A c \in ChatConns : c \in Nat /\ c # 0 /\ LoopOf(c) \in ChatLoops
<1>1. MaxChatConns \in Nat /\ Limits \subseteq Nat
  BY ChatAssumption
<1>2. ASSUME NEW c \in Nat PROVE c % 2 \in {0, 1}
  OBVIOUS
<1> QED BY <1>1, <1>2 DEF ChatConns, LoopOf, ChatLoops

\* Functors of different kinds, connections or messages are different.
LEMMA FunctorsDiffer ==
  /\ \A c, e, m, k : SendOf(c, m) = SendOf(e, k) => c = e /\ m = k
  /\ \A m, k : ShareOf(m) = ShareOf(k) => m = k
  /\ \A c, e : EndingOf(c) = EndingOf(e) => c = e
  /\ \A c, m, k : SendOf(c, m) # ShareOf(k)
  /\ \A c, e, m : SendOf(c, m) # EndingOf(e) /\ ShareOf(m) # EndingOf(e)
<1>1. ASSUME NEW c, NEW e, NEW m, NEW k
      PROVE  /\ SendOf(c, m).type = "sendInLoop" /\ SendOf(c, m).conn = c
             /\ SendOf(c, m).msg = m
             /\ ShareOf(m).type = "onDistributeMessage" /\ ShareOf(m).msg = m
             /\ EndingOf(c).type = "connectDestroyed" /\ EndingOf(c).conn = c
  BY DEF SendOf, ShareOf, EndingOf
<1>2. ASSUME NEW c, NEW e, NEW m, NEW k, SendOf(c, m) = SendOf(e, k)
      PROVE  c = e /\ m = k
  BY <1>1, <1>2
<1>3. ASSUME NEW m, NEW k, ShareOf(m) = ShareOf(k) PROVE m = k
  BY <1>1, <1>3
<1>4. ASSUME NEW c, NEW e, EndingOf(c) = EndingOf(e) PROVE c = e
  BY <1>1, <1>4
<1>5. ASSUME NEW c, NEW e, NEW m, NEW k
      PROVE  /\ SendOf(c, m) # ShareOf(k)
             /\ SendOf(c, m) # EndingOf(e) /\ ShareOf(m) # EndingOf(e)
  <2>1. /\ SendOf(c, m).type = "sendInLoop" /\ ShareOf(m).type = "onDistributeMessage"
        /\ ShareOf(k).type = "onDistributeMessage" /\ EndingOf(e).type = "connectDestroyed"
    BY <1>1
  <2> QED BY <2>1
<1> QED BY <1>2, <1>3, <1>4, <1>5

LEMMA CarrierIs ==
  ASSUME NEW share, NEW c \in ChatConns, NEW d \in ChatConns
  PROVE  /\ \A n \in Nat : Carrier(share, c, d, n) \in ChatFunctors /\ <<d, n>> \in Spoken
         /\ \A n, k : Carrier(share, c, d, n) = Carrier(share, c, d, k) => n = k
         /\ \A n, e : Carrier(share, c, d, n) # EndingOf(e)
<1>1. \A n \in Nat : <<d, n>> \in Spoken
  BY DEF Spoken
<1>2. \A n \in Nat : Carrier(share, c, d, n) \in ChatFunctors
  BY <1>1 DEF Carrier, ChatFunctors
<1>3. ASSUME NEW n, NEW k, Carrier(share, c, d, n) = Carrier(share, c, d, k) PROVE n = k
  <2>1. <<d, n>> = <<d, k>>
    BY <1>3, FunctorsDiffer DEF Carrier
  <2> QED BY <2>1
<1>4. \A n, e : Carrier(share, c, d, n) # EndingOf(e)
  BY FunctorsDiffer DEF Carrier
<1> QED BY <1>1, <1>2, <1>3, <1>4

\* One more is heard well when it is the next.
LEMMA NextHeard ==
  ASSUME NEW h \in Seq(Spoken), NEW d \in ChatConns, NEW s \in Nat, NEW x \in Nat,
         HearsWell(h, d, s), 1 <= x, x <= s,
         \A n \in Nat : Has(h, <<d, n>>) => n < x,
         \A n, i \in Nat : Has(h, <<d, n>>) /\ n < i /\ i < x => Has(h, <<d, i>>)
  PROVE  /\ HearsWell(Append(h, <<d, x>>), d, s)
         /\ \A n \in Nat : Has(Append(h, <<d, x>>), <<d, n>>) <=> (Has(h, <<d, n>>) \/ n = x)
<1> DEFINE m == <<d, x>>  a == Append(h, m)
<1>1. m \in Spoken /\ \A n, k : <<d, n>> = <<d, k>> => n = k
  BY DEF Spoken
<1>2. \A n, k \in Nat :
        /\ Has(a, <<d, n>>) <=> (Has(h, <<d, n>>) \/ <<d, n>> = m)
        /\ Once(h, <<d, n>>) /\ (m = <<d, n>> => ~Has(h, <<d, n>>)) => Once(a, <<d, n>>)
        /\ InFrontOf(h, <<d, n>>, <<d, k>>) /\ (m = <<d, n>> => ~Has(h, <<d, k>>))
             /\ <<d, n>> # <<d, k>> => InFrontOf(a, <<d, n>>, <<d, k>>)
  BY <1>1, AppendHas
<1>3. \A n \in Nat : Has(a, <<d, n>>) <=> (Has(h, <<d, n>>) \/ n = x)
  BY <1>1, <1>2
<1>4. /\ \A n \in Nat : Once(h, <<d, n>>) /\ (Has(h, <<d, n>>) => 1 <= n /\ n <= s)
      /\ \A n, k \in Nat : n < k => InFrontOf(h, <<d, n>>, <<d, k>>)
      /\ \A n, i, k \in Nat :
           Has(h, <<d, n>>) /\ Has(h, <<d, k>>) /\ n < i /\ i < k => Has(h, <<d, i>>)
  BY DEF HearsWell
<1>5. \A n \in Nat : m = <<d, n>> => n = x
  BY <1>1
<1> HIDE DEF a, m
<1>6. \A n \in Nat : Once(a, <<d, n>>) /\ (Has(a, <<d, n>>) => 1 <= n /\ n <= s)
  BY <1>2, <1>3, <1>4, <1>5
<1>7. ASSUME NEW n \in Nat, NEW k \in Nat, n < k PROVE InFrontOf(a, <<d, n>>, <<d, k>>)
  <2>1. <<d, n>> # <<d, k>>
    BY <1>1, <1>7
  <2>2. m = <<d, n>> => ~Has(h, <<d, k>>)
    BY <1>5, <1>7
  <2> QED BY <1>2, <1>4, <1>7, <2>1, <2>2
<1>8. ASSUME NEW n \in Nat, NEW i \in Nat, NEW k \in Nat, Has(a, <<d, n>>),
             Has(a, <<d, k>>), n < i, i < k
      PROVE  Has(a, <<d, i>>)
  <2>1. Has(h, <<d, n>>)
    BY <1>3, <1>8
  <2>2. Has(h, <<d, i>>)
    BY <1>3, <1>4, <1>8, <2>1
  <2> QED BY <1>3, <2>2
<1>9. HearsWell(a, d, s)
  BY <1>6, <1>7, <1>8 DEF HearsWell
<1> QED BY <1>3, <1>9 DEF a, m

\* What another speaker said is heard beside.
LEMMA OtherHeard ==
  ASSUME NEW h \in Seq(Spoken), NEW d, NEW s, NEW x \in Spoken, x[1] # d,
         HearsWell(h, d, s)
  PROVE  /\ HearsWell(Append(h, x), d, s)
         /\ \A n \in Nat : Has(Append(h, x), <<d, n>>) <=> Has(h, <<d, n>>)
<1> DEFINE a == Append(h, x)
<1>1. \A n : <<d, n>> # x
  OBVIOUS
<1>2. \A n, k \in Nat :
        /\ Has(a, <<d, n>>) <=> (Has(h, <<d, n>>) \/ <<d, n>> = x)
        /\ Once(h, <<d, n>>) /\ (x = <<d, n>> => ~Has(h, <<d, n>>)) => Once(a, <<d, n>>)
        /\ InFrontOf(h, <<d, n>>, <<d, k>>) /\ (x = <<d, n>> => ~Has(h, <<d, k>>))
             /\ <<d, n>> # <<d, k>> => InFrontOf(a, <<d, n>>, <<d, k>>)
  BY AppendHas
<1>3. \A n, k : <<d, n>> = <<d, k>> => n = k
  OBVIOUS
<1>4. \A n \in Nat : Has(a, <<d, n>>) <=> Has(h, <<d, n>>)
  BY <1>1, <1>2
<1>5. \A n \in Nat : Once(h, <<d, n>>) => Once(a, <<d, n>>)
  BY <1>1, <1>2
<1>6. \A n, k \in Nat : n < k => <<d, n>> # <<d, k>>
  BY <1>3
<1>7. \A n, k \in Nat : n < k /\ InFrontOf(h, <<d, n>>, <<d, k>>) => InFrontOf(a, <<d, n>>, <<d, k>>)
  BY <1>1, <1>2, <1>6
<1> HIDE DEF a
<1>8. HearsWell(a, d, s)
  BY <1>4, <1>5, <1>7 DEF HearsWell
<1> QED BY <1>4, <1>8 DEF a

\* What waits of one speaker does not change when another functor is queued or
\* run.
LEMMA OtherWaits ==
  ASSUME NEW share, NEW h, NEW q \in Seq(ChatFunctors), NEW r, NEW c \in ChatConns, NEW d \in ChatConns,
         NEW s, NEW p, NEW st, NEW since,
         HearsAll(share, h, q, c, d, s, p, st, since),
         \/ /\ q # <<>> /\ r = Tail(q)
            /\ \A n \in Nat : Head(q) # Carrier(share, c, d, n)
         \/ \E f \in ChatFunctors :
              r = Append(q, f) /\ \A n \in Nat : f # Carrier(share, c, d, n)
  PROVE  HearsAll(share, h, r, c, d, s, p, st, since)
<1>1. ASSUME NEW n \in Nat, NEW k \in Nat, n < k
      PROVE  /\ Has(r, Carrier(share, c, d, n)) <=> Has(q, Carrier(share, c, d, n))
             /\ Once(q, Carrier(share, c, d, n)) => Once(r, Carrier(share, c, d, n))
             /\ InFrontOf(q, Carrier(share, c, d, n), Carrier(share, c, d, k)) =>
                  InFrontOf(r, Carrier(share, c, d, n), Carrier(share, c, d, k))
  <2> DEFINE e == Carrier(share, c, d, n)  g == Carrier(share, c, d, k)
  <2>1. e # g
    <3>1. \A i, j : Carrier(share, c, d, i) = Carrier(share, c, d, j) => i = j
      BY CarrierIs
    <3>2. n # k
      BY <1>1
    <3> QED BY <3>1, <3>2
  <2> HIDE DEF e, g
  <2>2. CASE q # <<>> /\ r = Tail(q) /\ \A i \in Nat : Head(q) # Carrier(share, c, d, i)
    <3>1. Head(q) # e
      BY <2>2 DEF e
    <3>2. /\ Has(Tail(q), e) => Has(q, e)
          /\ Has(q, e) /\ Head(q) # e => Has(Tail(q), e)
          /\ Once(q, e) => Once(Tail(q), e)
          /\ InFrontOf(q, e, g) => InFrontOf(Tail(q), e, g)
      BY <2>2, TailHas
    <3> QED BY <2>2, <3>1, <3>2 DEF e, g
  <2>3. ASSUME NEW f \in ChatFunctors, r = Append(q, f), \A i \in Nat : f # Carrier(share, c, d, i)
        PROVE  /\ Has(r, e) <=> Has(q, e)
               /\ Once(q, e) => Once(r, e)
               /\ InFrontOf(q, e, g) => InFrontOf(r, e, g)
    <3>1. f # e
      BY <2>3 DEF e
    <3>2. /\ Has(Append(q, f), e) <=> (Has(q, e) \/ e = f)
          /\ Once(q, e) /\ (f = e => ~Has(q, e)) => Once(Append(q, f), e)
          /\ InFrontOf(q, e, g) /\ (f = e => ~Has(q, g)) /\ e # g =>
               InFrontOf(Append(q, f), e, g)
      BY AppendHas
    <3> QED BY <2>1, <2>3, <3>1, <3>2
  <2> QED BY <2>2, <2>3 DEF e, g
<1>2. \A n \in Nat : /\ Has(r, Carrier(share, c, d, n)) <=> Has(q, Carrier(share, c, d, n))
                     /\ Once(q, Carrier(share, c, d, n)) => Once(r, Carrier(share, c, d, n))
  <2> TAKE n \in Nat
  <2>1. n + 1 \in Nat /\ n < n + 1
    OBVIOUS
  <2> QED BY <1>1, <2>1
<1>3. \A n \in Nat : Waits(share, r, c, d, s, p, n) <=> Waits(share, q, c, d, s, p, n)
  BY <1>2 DEF Waits
<1>4. \A n \in Nat : Once(q, Carrier(share, c, d, n))
      /\ (Has(q, Carrier(share, c, d, n)) => 1 <= n /\ n <= s /\ (p => n < s))
  BY DEF HearsAll
<1>5. \A n, k \in Nat : n < k => InFrontOf(q, Carrier(share, c, d, n), Carrier(share, c, d, k))
  BY DEF HearsAll
<1>6. \A n, k \in Nat : n < k => InFrontOf(r, Carrier(share, c, d, n), Carrier(share, c, d, k))
  BY <1>1, <1>5
<1>7. \A n \in Nat : Once(r, Carrier(share, c, d, n))
      /\ (Has(r, Carrier(share, c, d, n)) => 1 <= n /\ n <= s /\ (p => n < s))
  BY <1>2, <1>4
<1>8. \A n, k \in Nat : Has(h, <<d, n>>) /\ Waits(share, r, c, d, s, p, k) => n < k
  BY <1>3 DEF HearsAll
<1>9. \A n, i \in Nat :
       n < i /\ i <= s /\ (Has(h, <<d, n>>) \/ Waits(share, r, c, d, s, p, n)) =>
         Has(h, <<d, i>>) \/ Waits(share, r, c, d, s, p, i)
  BY <1>3 DEF HearsAll
<1>10. st = "kConnected" => \A i \in Nat : since < i /\ i <= s =>
         Has(h, <<d, i>>) \/ Waits(share, r, c, d, s, p, i)
  BY <1>3 DEF HearsAll
<1>11. p => 1 <= s
  BY DEF HearsAll
<1> QED BY <1>6, <1>7, <1>8, <1>9, <1>10, <1>11 DEF HearsAll

\* The first that waits in the queue is heard.
LEMMA QueuedHeard ==
  ASSUME NEW share, NEW h \in Seq(Spoken), NEW q \in Seq(ChatFunctors), NEW c \in ChatConns,
         NEW d \in ChatConns, NEW s \in Nat, NEW p, NEW st, NEW since, NEW x \in Nat,
         HearsWell(h, d, s), HearsAll(share, h, q, c, d, s, p, st, since),
         q # <<>>, Head(q) = Carrier(share, c, d, x)
  PROVE  /\ HearsWell(Append(h, <<d, x>>), d, s)
         /\ HearsAll(share, Append(h, <<d, x>>), Tail(q), c, d, s, p, st, since)
<1> DEFINE a == Append(h, <<d, x>>)  t == Tail(q)
<1>1. /\ \A n \in Nat : Once(q, Carrier(share, c, d, n))
        /\ (Has(q, Carrier(share, c, d, n)) => 1 <= n /\ n <= s /\ (p => n < s))
      /\ \A n, k \in Nat : n < k => InFrontOf(q, Carrier(share, c, d, n), Carrier(share, c, d, k))
  BY DEF HearsAll
<1>2. \A n, k \in Nat : Has(h, <<d, n>>) /\ Waits(share, q, c, d, s, p, k) => n < k
  BY DEF HearsAll
<1>3. \A n, i \in Nat :
       n < i /\ i <= s /\ (Has(h, <<d, n>>) \/ Waits(share, q, c, d, s, p, n)) =>
         Has(h, <<d, i>>) \/ Waits(share, q, c, d, s, p, i)
  BY DEF HearsAll
<1>4. /\ st = "kConnected" => \A i \in Nat : since < i /\ i <= s =>
           Has(h, <<d, i>>) \/ Waits(share, q, c, d, s, p, i)
      /\ p => 1 <= s
  BY DEF HearsAll
<1>5. \A n, k \in Nat :
        /\ Has(t, Carrier(share, c, d, n)) => Has(q, Carrier(share, c, d, n))
        /\ Has(q, Carrier(share, c, d, n)) /\ Head(q) # Carrier(share, c, d, n) => Has(t, Carrier(share, c, d, n))
        /\ Once(q, Carrier(share, c, d, n)) => Once(t, Carrier(share, c, d, n))
        /\ Once(q, Carrier(share, c, d, n)) /\ Head(q) = Carrier(share, c, d, n) => ~Has(t, Carrier(share, c, d, n))
        /\ InFrontOf(q, Carrier(share, c, d, n), Carrier(share, c, d, k)) =>
             InFrontOf(t, Carrier(share, c, d, n), Carrier(share, c, d, k))
        /\ InFrontOf(q, Carrier(share, c, d, n), Carrier(share, c, d, k)) /\ Head(q) = Carrier(share, c, d, k) =>
             ~Has(q, Carrier(share, c, d, n))
        /\ Has(q, Head(q))
  BY TailHas
<1> HIDE DEF a, t
<1>6. Has(q, Carrier(share, c, d, x)) /\ ~Has(t, Carrier(share, c, d, x))
  BY <1>1, <1>5
<1>7. 1 <= x /\ x <= s /\ (p => x < s)
  BY <1>1, <1>6
<1>8. \A n \in Nat : n < x => ~Has(q, Carrier(share, c, d, n))
  BY <1>1, <1>5
<1>9. \A n \in Nat : n # x => Head(q) # Carrier(share, c, d, n)
  BY CarrierIs
<1>10. \A n \in Nat : Has(t, Carrier(share, c, d, n)) <=> (Has(q, Carrier(share, c, d, n)) /\ n # x)
  BY <1>5, <1>6, <1>9
<1>11. \A n \in Nat : Has(h, <<d, n>>) => n < x
  BY <1>2, <1>6 DEF Waits
<1>12. \A n \in Nat : Waits(share, q, c, d, s, p, n) => x <= n
  <2> SUFFICES ASSUME NEW n \in Nat, Waits(share, q, c, d, s, p, n) PROVE x <= n
    OBVIOUS
  <2>1. CASE Has(q, Carrier(share, c, d, n))
    BY <1>8, <2>1
  <2>2. CASE p /\ n = s
    BY <1>7, <2>2
  <2> QED BY <2>1, <2>2 DEF Waits
<1>13. \A n, i \in Nat : Has(h, <<d, n>>) /\ n < i /\ i < x => Has(h, <<d, i>>)
  <2> SUFFICES ASSUME NEW n \in Nat, NEW i \in Nat, Has(h, <<d, n>>), n < i, i < x
               PROVE  Has(h, <<d, i>>)
    OBVIOUS
  <2>1. i <= s /\ ~(x <= i)
    BY <1>7
  <2> QED BY <1>3, <1>12, <2>1
<1>14. /\ HearsWell(a, d, s)
       /\ \A n \in Nat : Has(a, <<d, n>>) <=> (Has(h, <<d, n>>) \/ n = x)
  BY <1>7, <1>11, <1>13, NextHeard DEF a
<1>15. \A n \in Nat : Waits(share, t, c, d, s, p, n) <=> (Waits(share, q, c, d, s, p, n) /\ n # x)
  <2> TAKE n \in Nat
  <2>1. p /\ n = s => n # x
    BY <1>7
  <2> QED BY <1>10, <2>1 DEF Waits
<1>16. \A n \in Nat : (Has(a, <<d, n>>) \/ Waits(share, t, c, d, s, p, n))
                   <=> (Has(h, <<d, n>>) \/ Waits(share, q, c, d, s, p, n))
  <2>1. Waits(share, q, c, d, s, p, x)
    BY <1>6 DEF Waits
  <2> QED BY <1>14, <1>15, <2>1
<1>17. \A n, k \in Nat : Has(a, <<d, n>>) /\ Waits(share, t, c, d, s, p, k) => n < k
  <2> SUFFICES ASSUME NEW n \in Nat, NEW k \in Nat, Has(a, <<d, n>>), Waits(share, t, c, d, s, p, k)
               PROVE  n < k
    OBVIOUS
  <2>1. Waits(share, q, c, d, s, p, k) /\ k # x
    BY <1>15
  <2>2. x <= k /\ x < k
    BY <1>12, <2>1
  <2> QED BY <1>11, <1>14, <2>2
<1>18. \A n \in Nat : Once(t, Carrier(share, c, d, n))
       /\ (Has(t, Carrier(share, c, d, n)) => 1 <= n /\ n <= s /\ (p => n < s))
  BY <1>1, <1>5
<1>19. \A n, k \in Nat : n < k => InFrontOf(t, Carrier(share, c, d, n), Carrier(share, c, d, k))
  BY <1>1, <1>5
<1>20. HearsAll(share, a, t, c, d, s, p, st, since)
  BY <1>3, <1>4, <1>16, <1>17, <1>18, <1>19 DEF HearsAll
<1> QED BY <1>14, <1>20 DEF a, t

\* What is in hand is heard.
LEMMA InHandHeard ==
  ASSUME NEW share, NEW h \in Seq(Spoken), NEW q \in Seq(ChatFunctors), NEW c \in ChatConns,
         NEW d \in ChatConns, NEW s \in Nat, NEW st, NEW since,
         HearsWell(h, d, s), HearsAll(share, h, q, c, d, s, TRUE, st, since),
         \A n \in Nat : ~Has(q, Carrier(share, c, d, n))
  PROVE  /\ HearsWell(Append(h, <<d, s>>), d, s)
         /\ HearsAll(share, Append(h, <<d, s>>), q, c, d, s, FALSE, st, since)
<1> DEFINE a == Append(h, <<d, s>>)
<1>1. \A n \in Nat : Waits(share, q, c, d, s, TRUE, n) <=> n = s
  BY DEF Waits
<1>2. \A n \in Nat : ~Waits(share, q, c, d, s, FALSE, n)
  BY DEF Waits
<1>3. 1 <= s /\ \A n \in Nat : Has(h, <<d, n>>) => n < s
  BY <1>1 DEF HearsAll
<1>4. \A n, i \in Nat : n < i /\ i < s /\ Has(h, <<d, n>>) => Has(h, <<d, i>>)
  <2> SUFFICES ASSUME NEW n \in Nat, NEW i \in Nat, n < i, i < s, Has(h, <<d, n>>)
               PROVE  Has(h, <<d, i>>)
    OBVIOUS
  <2>1. i <= s /\ i # s
    OBVIOUS
  <2>2. Has(h, <<d, i>>) \/ Waits(share, q, c, d, s, TRUE, i)
    BY <2>1 DEF HearsAll
  <2> QED BY <1>1, <2>1, <2>2
<1> HIDE DEF a
<1>5. /\ HearsWell(a, d, s)
      /\ \A n \in Nat : Has(a, <<d, n>>) <=> (Has(h, <<d, n>>) \/ n = s)
  BY <1>3, <1>4, NextHeard DEF a
<1>6. /\ \A n \in Nat : Once(q, Carrier(share, c, d, n))
           /\ (Has(q, Carrier(share, c, d, n)) => 1 <= n /\ n <= s)
      /\ \A n, k \in Nat : n < k => InFrontOf(q, Carrier(share, c, d, n), Carrier(share, c, d, k))
  BY DEF HearsAll
<1>7. \A n, i \in Nat : n < i /\ i <= s /\ Has(a, <<d, n>>) => Has(a, <<d, i>>)
  <2> SUFFICES ASSUME NEW n \in Nat, NEW i \in Nat, n < i, i <= s, Has(a, <<d, n>>)
               PROVE  Has(a, <<d, i>>)
    OBVIOUS
  <2>1. CASE i = s
    BY <1>5, <2>1
  <2>2. CASE i # s
    <3>1. i < s /\ n # s
      BY <2>2
    <3> QED BY <1>4, <1>5, <3>1
  <2> QED BY <2>1, <2>2
<1>8. st = "kConnected" => \A i \in Nat : since < i /\ i <= s => Has(a, <<d, i>>)
  <2>1. st = "kConnected" => \A i \in Nat : since < i /\ i <= s =>
          Has(h, <<d, i>>) \/ Waits(share, q, c, d, s, TRUE, i)
    BY DEF HearsAll
  <2> QED BY <1>1, <1>5, <2>1
<1>9. HearsAll(share, a, q, c, d, s, FALSE, st, since)
  BY <1>2, <1>6, <1>7, <1>8 DEF HearsAll
<1> QED BY <1>5, <1>9 DEF a

\* What is in hand is queued.
LEMMA InHandQueued ==
  ASSUME NEW share, NEW h, NEW q \in Seq(ChatFunctors), NEW c \in ChatConns,
         NEW d \in ChatConns, NEW s \in Nat, NEW st, NEW since,
         HearsAll(share, h, q, c, d, s, TRUE, st, since)
  PROVE  HearsAll(share, h, Append(q, Carrier(share, c, d, s)), c, d, s, FALSE, st, since)
<1> DEFINE e == Carrier(share, c, d, s)  r == Append(q, e)
<1>1. e \in ChatFunctors /\ \A n \in Nat : Carrier(share, c, d, n) = e => n = s
  BY CarrierIs
<1>2. \A n, k \in Nat :
        /\ Has(r, Carrier(share, c, d, n)) <=> (Has(q, Carrier(share, c, d, n)) \/ Carrier(share, c, d, n) = e)
        /\ Once(q, Carrier(share, c, d, n)) /\ (e = Carrier(share, c, d, n) => ~Has(q, Carrier(share, c, d, n)))
             => Once(r, Carrier(share, c, d, n))
        /\ InFrontOf(q, Carrier(share, c, d, n), Carrier(share, c, d, k))
             /\ (e = Carrier(share, c, d, n) => ~Has(q, Carrier(share, c, d, k)))
             /\ Carrier(share, c, d, n) # Carrier(share, c, d, k) =>
             InFrontOf(r, Carrier(share, c, d, n), Carrier(share, c, d, k))
  BY <1>1, AppendHas
<1>3. \A n \in Nat : Once(q, Carrier(share, c, d, n))
      /\ (Has(q, Carrier(share, c, d, n)) => 1 <= n /\ n < s)
  BY DEF HearsAll
<1>4. 1 <= s /\ \A n, k \in Nat : n < k => InFrontOf(q, Carrier(share, c, d, n), Carrier(share, c, d, k))
  BY DEF HearsAll
<1>5. e = Carrier(share, c, d, s)
  OBVIOUS
<1> HIDE DEF e, r
<1>6. \A n \in Nat : Has(r, Carrier(share, c, d, n)) <=> (Has(q, Carrier(share, c, d, n)) \/ n = s)
  BY <1>1, <1>2, <1>5
<1>7. ASSUME NEW n \in Nat
      PROVE  Once(r, Carrier(share, c, d, n)) /\ (Has(r, Carrier(share, c, d, n)) => 1 <= n /\ n <= s)
  <2>1. e = Carrier(share, c, d, n) => ~Has(q, Carrier(share, c, d, n))
    <3>1. e = Carrier(share, c, d, n) => n = s
      BY <1>1
    <3> QED BY <1>3, <3>1
  <2>2. Once(r, Carrier(share, c, d, n))
    BY <1>2, <1>3, <2>1
  <2>3. Has(q, Carrier(share, c, d, n)) => 1 <= n /\ n <= s
    BY <1>3
  <2> QED BY <1>4, <1>6, <2>2, <2>3
<1>8. ASSUME NEW n \in Nat, NEW k \in Nat, n < k
      PROVE  InFrontOf(r, Carrier(share, c, d, n), Carrier(share, c, d, k))
  <2>1. Carrier(share, c, d, n) # Carrier(share, c, d, k)
    BY <1>8, CarrierIs
  <2>2. e = Carrier(share, c, d, n) => ~Has(q, Carrier(share, c, d, k))
    <3>1. e = Carrier(share, c, d, n) => n = s
      BY <1>1
    <3> QED BY <1>3, <1>8, <3>1
  <2> QED BY <1>2, <1>4, <1>8, <2>1, <2>2
<1>9. \A n \in Nat : Waits(share, r, c, d, s, FALSE, n) <=> Waits(share, q, c, d, s, TRUE, n)
  BY <1>6 DEF Waits
<1>10. \A n, k \in Nat : Has(h, <<d, n>>) /\ Waits(share, r, c, d, s, FALSE, k) => n < k
  BY <1>9 DEF HearsAll
<1>11. \A n, i \in Nat :
       n < i /\ i <= s /\ (Has(h, <<d, n>>) \/ Waits(share, r, c, d, s, FALSE, n)) =>
         Has(h, <<d, i>>) \/ Waits(share, r, c, d, s, FALSE, i)
  BY <1>9 DEF HearsAll
<1>12. st = "kConnected" => \A i \in Nat : since < i /\ i <= s =>
         Has(h, <<d, i>>) \/ Waits(share, r, c, d, s, FALSE, i)
  BY <1>9 DEF HearsAll
<1>13. HearsAll(share, h, r, c, d, s, FALSE, st, since)
  BY <1>7, <1>8, <1>10, <1>11, <1>12 DEF HearsAll
<1> QED BY <1>13 DEF r, e

\* Its speaker says one more, which is in hand for the connection.
LEMMA SaidInHand ==
  ASSUME NEW share, NEW h, NEW q, NEW c, NEW d, NEW s \in Nat, NEW st, NEW since,
         HearsWell(h, d, s), HearsAll(share, h, q, c, d, s, FALSE, st, since)
  PROVE  HearsAll(share, h, q, c, d, s + 1, TRUE, st, since)
<1>1. \A n \in Nat : Waits(share, q, c, d, s + 1, TRUE, n)
                 <=> (Waits(share, q, c, d, s, FALSE, n) \/ n = s + 1)
  BY DEF Waits
<1>2. \A n \in Nat : Has(h, <<d, n>>) => n <= s
  BY DEF HearsWell
<1>3. \A n \in Nat : Once(q, Carrier(share, c, d, n))
      /\ (Has(q, Carrier(share, c, d, n)) => 1 <= n /\ n <= s)
  BY DEF HearsAll
<1>4. \A n \in Nat : Waits(share, q, c, d, s, FALSE, n) => n <= s
  BY <1>3 DEF Waits
<1>5. \A n \in Nat : Once(q, Carrier(share, c, d, n))
      /\ (Has(q, Carrier(share, c, d, n)) => 1 <= n /\ n <= s + 1 /\ n < s + 1)
  BY <1>3
<1>6. \A n, k \in Nat : Has(h, <<d, n>>) /\ Waits(share, q, c, d, s + 1, TRUE, k) => n < k
  <2>1. \A n, k \in Nat : Has(h, <<d, n>>) /\ Waits(share, q, c, d, s, FALSE, k) => n < k
    BY DEF HearsAll
  <2> SUFFICES ASSUME NEW n \in Nat, NEW k \in Nat, Has(h, <<d, n>>),
                      Waits(share, q, c, d, s + 1, TRUE, k)
               PROVE  n < k
    OBVIOUS
  <2>2. Waits(share, q, c, d, s, FALSE, k) \/ k = s + 1
    BY <1>1
  <2>3. n <= s
    BY <1>2
  <2>4. k = s + 1 => n < k
    BY <2>3
  <2> QED BY <2>1, <2>2, <2>4
<1>7. ASSUME NEW n \in Nat, NEW i \in Nat, n < i, i <= s + 1,
             Has(h, <<d, n>>) \/ Waits(share, q, c, d, s + 1, TRUE, n)
      PROVE  Has(h, <<d, i>>) \/ Waits(share, q, c, d, s + 1, TRUE, i)
  <2>1. CASE i = s + 1
    BY <1>1, <2>1
  <2>2. CASE i # s + 1
    <3>1. i <= s /\ n # s + 1
      BY <1>7, <2>2
    <3>2. Has(h, <<d, n>>) \/ Waits(share, q, c, d, s, FALSE, n)
      BY <1>1, <1>7, <3>1
    <3>3. Has(h, <<d, i>>) \/ Waits(share, q, c, d, s, FALSE, i)
      BY <1>7, <3>1, <3>2 DEF HearsAll
    <3> QED BY <1>1, <3>3
  <2> QED BY <2>1, <2>2
<1>8. ASSUME st = "kConnected", NEW i \in Nat, since < i, i <= s + 1
      PROVE  Has(h, <<d, i>>) \/ Waits(share, q, c, d, s + 1, TRUE, i)
  <2>1. CASE i = s + 1
    BY <1>1, <2>1
  <2>2. CASE i # s + 1
    <3>1. i <= s
      BY <1>8, <2>2
    <3>2. Has(h, <<d, i>>) \/ Waits(share, q, c, d, s, FALSE, i)
      BY <1>8, <3>1 DEF HearsAll
    <3> QED BY <1>1, <3>2
  <2> QED BY <2>1, <2>2
<1>9. 1 <= s + 1
  OBVIOUS
<1>10. \A n, k \in Nat : n < k => InFrontOf(q, Carrier(share, c, d, n), Carrier(share, c, d, k))
  BY DEF HearsAll
<1> QED BY <1>5, <1>6, <1>7, <1>8, <1>9, <1>10 DEF HearsAll

LEMMA SaidMore ==
  ASSUME NEW h, NEW d, NEW s \in Nat, HearsWell(h, d, s)
  PROVE  HearsWell(h, d, s + 1)
<1>1. \A n \in Nat : Once(h, <<d, n>>) /\ (Has(h, <<d, n>>) => 1 <= n /\ n <= s + 1)
  BY DEF HearsWell
<1> QED BY <1>1 DEF HearsWell

\* Nothing waits and nothing was heard yet.
LEMMA NothingHeard ==
  ASSUME NEW share, NEW q, NEW c, NEW d, NEW s, NEW since,
         \A n \in Nat : ~Has(q, Carrier(share, c, d, n))
  PROVE  HearsWell(<<>>, d, s) /\ HearsAll(share, <<>>, q, c, d, s, FALSE, "new", since)
<1>1. \A e : ~Has(<<>>, e) /\ Once(<<>>, e) /\ \A f : InFrontOf(<<>>, e, f)
  BY DEF Has, Once, InFrontOf
<1>2. \A n \in Nat : ~Waits(share, q, c, d, s, FALSE, n)
  BY DEF Waits
<1>3. \A n \in Nat : Once(q, Carrier(share, c, d, n))
      /\ \A k \in Nat : InFrontOf(q, Carrier(share, c, d, n), Carrier(share, c, d, k))
  BY DEF Has, Once, InFrontOf
<1>4. HearsWell(<<>>, d, s)
  BY <1>1 DEF HearsWell
<1>5. HearsAll(share, <<>>, q, c, d, s, FALSE, "new", since)
  BY <1>1, <1>2, <1>3 DEF HearsAll
<1> QED BY <1>4, <1>5

\* A connection comes up.
LEMMA UpHears ==
  ASSUME NEW share, NEW h, NEW q, NEW c, NEW d, NEW s \in Nat, NEW p, NEW since,
         HearsAll(share, h, q, c, d, s, p, "new", since)
  PROVE  HearsAll(share, h, q, c, d, s, p, "kConnected", s)
<1>1. \A i \in Nat : ~(s < i /\ i <= s)
  OBVIOUS
<1> QED BY <1>1 DEF HearsAll

\* What another speaker said changes nothing.
LEMMA OtherHeardAll ==
  ASSUME NEW share, NEW h \in Seq(Spoken), NEW q, NEW c, NEW d, NEW s, NEW p, NEW st,
         NEW since, NEW x \in Spoken, x[1] # d,
         HearsWell(h, d, s), HearsAll(share, h, q, c, d, s, p, st, since)
  PROVE  HearsAll(share, Append(h, x), q, c, d, s, p, st, since)
<1>1. \A n \in Nat : Has(Append(h, x), <<d, n>>) <=> Has(h, <<d, n>>)
  BY OtherHeard
<1> DEFINE a == Append(h, x)
<1> HIDE DEF a
<1>2. \A n \in Nat : Has(a, <<d, n>>) <=> Has(h, <<d, n>>)
  BY <1>1 DEF a
<1>3. /\ \A n \in Nat :
           /\ Once(q, Carrier(share, c, d, n))
           /\ Has(q, Carrier(share, c, d, n)) => 1 <= n /\ n <= s /\ (p => n < s)
      /\ p => 1 <= s
      /\ \A n, k \in Nat :
           n < k => InFrontOf(q, Carrier(share, c, d, n), Carrier(share, c, d, k))
  BY DEF HearsAll
<1>4. \A n, k \in Nat : Has(a, <<d, n>>) /\ Waits(share, q, c, d, s, p, k) => n < k
  BY <1>2 DEF HearsAll
<1>5. \A n, i \in Nat :
       n < i /\ i <= s /\ (Has(a, <<d, n>>) \/ Waits(share, q, c, d, s, p, n)) =>
         Has(a, <<d, i>>) \/ Waits(share, q, c, d, s, p, i)
  BY <1>2 DEF HearsAll
<1>6. st = "kConnected" =>
       \A i \in Nat : since < i /\ i <= s =>
         Has(a, <<d, i>>) \/ Waits(share, q, c, d, s, p, i)
  BY <1>2 DEF HearsAll
<1>7. HearsAll(share, a, q, c, d, s, p, st, since)
  BY <1>3, <1>4, <1>5, <1>6 DEF HearsAll
<1> QED BY <1>7 DEF a

\* What was said before a connection is up is not for it.
LEMMA QueuedMissed ==
  ASSUME NEW share, NEW q \in Seq(ChatFunctors), NEW c \in ChatConns,
         NEW d \in ChatConns, NEW s \in Nat, NEW p, NEW since, NEW x \in Nat,
         HearsAll(share, <<>>, q, c, d, s, p, "new", since),
         q # <<>>, Head(q) = Carrier(share, c, d, x)
  PROVE  HearsAll(share, <<>>, Tail(q), c, d, s, p, "new", since)
<1> DEFINE t == Tail(q)
<1>1. /\ \A n \in Nat : Once(q, Carrier(share, c, d, n))
        /\ (Has(q, Carrier(share, c, d, n)) => 1 <= n /\ n <= s /\ (p => n < s))
      /\ \A n, k \in Nat :
           n < k => InFrontOf(q, Carrier(share, c, d, n), Carrier(share, c, d, k))
  BY DEF HearsAll
<1>2. \A n : ~Has(<<>>, <<d, n>>)
  BY DEF Has
<1>3. \A n, i \in Nat :
       n < i /\ i <= s /\ Waits(share, q, c, d, s, p, n) => Waits(share, q, c, d, s, p, i)
  BY <1>2 DEF HearsAll
<1>4. p => 1 <= s
  BY DEF HearsAll
<1>5. \A n, k \in Nat :
        /\ Has(t, Carrier(share, c, d, n)) => Has(q, Carrier(share, c, d, n))
        /\ Has(q, Carrier(share, c, d, n)) /\ Head(q) # Carrier(share, c, d, n) =>
             Has(t, Carrier(share, c, d, n))
        /\ Once(q, Carrier(share, c, d, n)) => Once(t, Carrier(share, c, d, n))
        /\ Once(q, Carrier(share, c, d, n)) /\ Head(q) = Carrier(share, c, d, n) =>
             ~Has(t, Carrier(share, c, d, n))
        /\ InFrontOf(q, Carrier(share, c, d, n), Carrier(share, c, d, k)) =>
             InFrontOf(t, Carrier(share, c, d, n), Carrier(share, c, d, k))
        /\ InFrontOf(q, Carrier(share, c, d, n), Carrier(share, c, d, k))
             /\ Head(q) = Carrier(share, c, d, k) => ~Has(q, Carrier(share, c, d, n))
        /\ Has(q, Head(q))
  BY TailHas
<1> HIDE DEF t
<1>6. Has(q, Carrier(share, c, d, x)) /\ ~Has(t, Carrier(share, c, d, x))
  BY <1>1, <1>5
<1>7. 1 <= x /\ x <= s /\ (p => x < s)
  BY <1>1, <1>6
<1>8. \A n \in Nat : n < x => ~Has(q, Carrier(share, c, d, n))
  BY <1>1, <1>5
<1>9. \A n \in Nat : n # x => Head(q) # Carrier(share, c, d, n)
  BY CarrierIs
<1>10. \A n \in Nat : Has(t, Carrier(share, c, d, n))
                  <=> (Has(q, Carrier(share, c, d, n)) /\ n # x)
  BY <1>5, <1>6, <1>9
<1>11. \A n \in Nat : Waits(share, t, c, d, s, p, n)
                  <=> (Waits(share, q, c, d, s, p, n) /\ n # x)
  <2> TAKE n \in Nat
  <2>1. p /\ n = s => n # x
    BY <1>7
  <2> QED BY <1>10, <2>1 DEF Waits
<1>12. \A n \in Nat : Waits(share, q, c, d, s, p, n) => x <= n
  <2> SUFFICES ASSUME NEW n \in Nat, Waits(share, q, c, d, s, p, n) PROVE x <= n
    OBVIOUS
  <2>1. CASE Has(q, Carrier(share, c, d, n))
    BY <1>8, <2>1
  <2>2. CASE p /\ n = s
    BY <1>7, <2>2
  <2> QED BY <2>1, <2>2 DEF Waits
<1>13. ASSUME NEW n \in Nat, NEW i \in Nat, n < i, i <= s, Waits(share, t, c, d, s, p, n)
       PROVE  Waits(share, t, c, d, s, p, i)
  <2>1. Waits(share, q, c, d, s, p, n) /\ n # x
    BY <1>11, <1>13
  <2>2. x <= n
    BY <1>12, <2>1
  <2>3. Waits(share, q, c, d, s, p, i) /\ i # x
    BY <1>3, <1>13, <2>1, <2>2
  <2> QED BY <1>11, <2>3
<1>14. \A n \in Nat : Once(t, Carrier(share, c, d, n))
       /\ (Has(t, Carrier(share, c, d, n)) => 1 <= n /\ n <= s /\ (p => n < s))
  BY <1>1, <1>5
<1>15. \A n, k \in Nat :
         n < k => InFrontOf(t, Carrier(share, c, d, n), Carrier(share, c, d, k))
  BY <1>1, <1>5
<1>16. HearsAll(share, <<>>, t, c, d, s, p, "new", since)
  BY <1>2, <1>4, <1>13, <1>14, <1>15 DEF HearsAll
<1> QED BY <1>16 DEF t

\* A pair that a step does not touch.
LEMMA PairSame ==
  ASSUME NEW c, NEW d, PairInv(c, d), hp' = hp, heard'[c] = heard[c], said'[d] = said[d],
         queued'[LoopOf(c)] = queued[LoopOf(c)], InHand(c, d)' = InHand(c, d),
         chatConn'[c] = chatConn[c], joined'[c] = joined[c]
  PROVE  PairInv(c, d)'
BY DEF PairInv, HearsWell, HearsAll, Waits, LoopOf

\* The parts of a state.
LEMMA ChatAt ==
  ASSUME ChatTypes
  PROVE  /\ \A c \in ChatConns :
              /\ chatConn[c] \in {"new", "kConnected", "kDisconnecting", "kDisconnected"}
              /\ said[c] \in Nat /\ heard[c] \in Seq(Spoken)
              /\ \A d \in ChatConns : joined[c][d] \in Nat
         /\ \A l \in ChatLoops :
              /\ queued[l] \in Seq(ChatFunctors) /\ saying[l] \in {Silence} \cup Spoken
              /\ tested[l] \in ChatConns \cup {NoOne}
BY DEF ChatTypes

\* No more than are admitted.
LEMMA AdmittedFew ==
  ASSUME NEW S \in SUBSET ChatConns, NEW T \in SUBSET S
  PROVE  Cardinality(T) \in Nat /\ Cardinality(S) \in Nat /\ Cardinality(T) <= Cardinality(S)
<1>1. IsFiniteSet(ChatConns)
  BY ChatNumbers, FS_Interval DEF ChatConns
<1>2. IsFiniteSet(S)
  BY <1>1, FS_Subset
<1> QED BY <1>2, FS_Subset, FS_CardinalityType

LEMMA ChatUpKeeps ==
  ASSUME ChatInv, NEW a \in ChatConns, ChatUp(a)
  PROVE  ChatInv'
<1>1. /\ ChatTypes /\ ChatConnInv(a) /\ chatConn[a] = "new"
      /\ members' = members \cup {a}
      /\ joined' = [joined EXCEPT ![a] = said]
      /\ UNCHANGED <<hp, limit, leaving, destroyed, said, saying, copied, rest,
                     tested, queued, heard, sentLate, dangling>>
  BY DEF ChatInv, ChatUp
<1>2. PICK v \in {"kDisconnecting", "kConnected"} :
        /\ chatConn' = [chatConn EXCEPT ![a] = v]
        /\ v = "kDisconnecting" => ~hp
        /\ v = "kConnected" /\ ~hp => ~(Cardinality(members') > limit)
  BY DEF ChatUp
<1>3. \A c \in ChatConns : /\ chatConn'[c] = IF c = a THEN v ELSE chatConn[c]
                           /\ joined'[c] = IF c = a THEN said ELSE joined[c]
  BY <1>1, <1>2 DEF ChatTypes
<1>4. ChatTypes'
  <2>1. chatConn' \in [ChatConns -> {"new", "kConnected", "kDisconnecting", "kDisconnected"}]
    BY <1>1, <1>2 DEF ChatTypes
  <2>2. joined' \in [ChatConns -> [ChatConns -> Nat]]
    BY <1>1 DEF ChatTypes
  <2> QED BY <1>1, <2>1, <2>2 DEF ChatTypes
<1>5. AdmittedInv'
  <2> SUFFICES ASSUME ~hp
               PROVE  Cardinality({c \in ChatConns : chatConn'[c] = "kConnected"}) <= limit
    BY <1>1 DEF AdmittedInv
  <2>1. CASE v = "kConnected"
    <3>1. \A c \in ChatConns : chatConn'[c] = "kConnected" => c \in members'
      BY <1>1, <1>3 DEF ChatInv, ChatConnInv
    <3>2. members' \subseteq ChatConns
      BY <1>4 DEF ChatTypes
    <3>3. {c \in ChatConns : chatConn'[c] = "kConnected"} \subseteq members'
      BY <3>1
    <3>4. /\ Cardinality({c \in ChatConns : chatConn'[c] = "kConnected"}) \in Nat
          /\ Cardinality(members') \in Nat
          /\ Cardinality({c \in ChatConns : chatConn'[c] = "kConnected"})
               <= Cardinality(members')
      BY <3>2, <3>3, AdmittedFew
    <3>5. ~(Cardinality(members') > limit) /\ limit \in Nat
      BY <1>1, <1>2, <2>1 DEF ChatTypes
    <3> QED BY <3>4, <3>5
  <2>2. CASE v # "kConnected"
    <3>1. {c \in ChatConns : chatConn'[c] = "kConnected"}
            = {c \in ChatConns : chatConn[c] = "kConnected"}
      BY <1>1, <1>3, <2>2
    <3> QED BY <3>1 DEF ChatInv, AdmittedInv
  <2> QED BY <2>1, <2>2
<1>6. ASSUME NEW l \in ChatLoops PROVE LoopInv(l)'
  <2>1. LoopInv(l)
    BY DEF ChatInv
  <2>2. \A c \in ChatConns, m \in Spoken :
          Has(queued[l], SendOf(c, m)) => chatConn'[c] \notin {"new", "kDisconnecting"}
    BY <1>1, <1>3, <2>1 DEF LoopInv
  <2> QED BY <1>1, <2>1, <2>2 DEF LoopInv, Has, LoopOf, SendOf, ShareOf
<1>7. ASSUME NEW c \in ChatConns PROVE ChatConnInv(c)'
  <2>1. ChatConnInv(c)
    BY DEF ChatInv
  <2>2. CASE c # a
    BY <1>1, <1>3, <2>1, <2>2 DEF ChatConnInv, Has, InFrontOf, LoopOf, SendOf, EndingOf
  <2>3. CASE c = a
    <3>1. a \notin leaving \cup destroyed /\ heard[a] = <<>>
          /\ \A l \in ChatLoops : tested[l] # a /\ ~Has(queued[l], EndingOf(a))
      BY <1>1 DEF ChatConnInv
    <3>2. a \notin sentLate =>
            \A m \in Spoken : InFrontOf(queued[LoopOf(a)], SendOf(a, m), EndingOf(a))
      BY <1>1 DEF ChatConnInv
    <3>3. chatConn'[a] = v /\ a \in members'
      BY <1>1, <1>3
    <3> QED BY <1>1, <1>2, <2>3, <3>1, <3>2, <3>3
            DEF ChatConnInv, Has, InFrontOf, LoopOf, SendOf, EndingOf
  <2> QED BY <2>2, <2>3
<1>8. ASSUME NEW c \in ChatConns, NEW d \in ChatConns PROVE PairInv(c, d)'
  <2>1. PairInv(c, d) /\ InHand(c, d)' = InHand(c, d)
    BY <1>1 DEF ChatInv, InHand, LoopOf
  <2>2. CASE c # a
    <3>1. chatConn'[c] = chatConn[c] /\ joined'[c] = joined[c]
      BY <1>3, <2>2
    <3> QED BY <1>1, <2>1, <3>1, PairSame
  <2>3. CASE c = a
    <3>1. /\ HearsWell(heard[c], d, said[d])
          /\ HearsAll(hp, heard[c], queued[LoopOf(c)], c, d, said[d], InHand(c, d), "new",
                      joined[c][d])
      BY <1>1, <2>1, <2>3 DEF PairInv
    <3>2. said[d] \in Nat
      BY <1>1, ChatAt
    <3>3. HearsAll(hp, heard[c], queued[LoopOf(c)], c, d, said[d], InHand(c, d),
                   "kConnected", said[d])
      BY <3>1, <3>2, UpHears
    <3>4. joined'[c][d] = said[d] /\ chatConn'[c] = v
      BY <1>3, <2>3
    <3>5. HearsWell(heard[c], d, said[d])'
      BY <1>1, <3>1 DEF HearsWell
    <3>6. chatConn'[c] = "kConnected" =>
            HearsAll(hp, heard[c], queued[LoopOf(c)], c, d, said[d], InHand(c, d),
                     chatConn[c], joined[c][d])'
      BY <1>1, <2>1, <3>3, <3>4 DEF HearsAll, Waits, LoopOf
    <3> QED BY <1>2, <3>4, <3>5, <3>6 DEF PairInv
  <2> QED BY <2>2, <2>3
<1>9. ~dangling'
  BY <1>1 DEF ChatInv
<1> QED BY <1>4, <1>5, <1>6, <1>7, <1>8, <1>9 DEF ChatInv

LEMMA ChatDownKeeps ==
  ASSUME ChatInv, NEW a \in ChatConns, ChatDown(a)
  PROVE  ChatInv'
<1>1. /\ ChatTypes /\ ChatConnInv(a) /\ chatConn[a] \in {"kConnected", "kDisconnecting"}
      /\ members' = members \ {a} /\ leaving' = leaving \cup {a}
      /\ chatConn' = [chatConn EXCEPT ![a] = "kDisconnected"]
      /\ sentLate' = IF \E l \in ChatLoops : tested[l] = a
                       THEN sentLate \cup {a} ELSE sentLate
      /\ UNCHANGED <<hp, limit, destroyed, said, saying, copied, rest, tested,
                     queued, heard, joined, dangling>>
  BY DEF ChatInv, ChatDown
<1>2. \A c \in ChatConns : chatConn'[c] = IF c = a THEN "kDisconnected" ELSE chatConn[c]
  BY <1>1 DEF ChatTypes
<1>3. ChatTypes'
  <2>1. chatConn' \in [ChatConns -> {"new", "kConnected", "kDisconnecting", "kDisconnected"}]
    BY <1>1 DEF ChatTypes
  <2> QED BY <1>1, <2>1 DEF ChatTypes
<1>4. AdmittedInv'
  <2> DEFINE up == {c \in ChatConns : chatConn[c] = "kConnected"}
             still == {c \in ChatConns : chatConn'[c] = "kConnected"}
  <2>1. still \subseteq up /\ up \subseteq ChatConns
    BY <1>2
  <2>2. Cardinality(still) \in Nat /\ Cardinality(up) \in Nat
        /\ Cardinality(still) <= Cardinality(up)
    BY <2>1, AdmittedFew
  <2>3. limit \in Nat /\ (~hp => Cardinality(up) <= limit)
    BY <1>1 DEF ChatInv, AdmittedInv, ChatTypes
  <2>4. ~hp => Cardinality(still) <= limit
    <3> HIDE DEF up, still
    <3> QED BY <2>2, <2>3
  <2> QED BY <1>1, <2>4 DEF AdmittedInv
<1>5. ASSUME NEW l \in ChatLoops PROVE LoopInv(l)'
  <2>1. LoopInv(l)
    BY DEF ChatInv
  <2>2. \A c \in ChatConns, m \in Spoken :
          Has(queued[l], SendOf(c, m)) => chatConn'[c] \notin {"new", "kDisconnecting"}
    BY <1>2, <2>1 DEF LoopInv
  <2> QED BY <1>1, <2>1, <2>2 DEF LoopInv, Has, LoopOf, SendOf, ShareOf
<1>6. ASSUME NEW c \in ChatConns PROVE ChatConnInv(c)'
  <2>1. ChatConnInv(c)
    BY DEF ChatInv
  <2>2. CASE c # a
    <3>1. /\ c \in members' <=> c \in members
          /\ c \in leaving' <=> c \in leaving
          /\ c \in sentLate' <=> c \in sentLate
          /\ chatConn'[c] = chatConn[c]
      BY <1>1, <1>2, <2>2
    <3> QED BY <1>1, <2>1, <3>1 DEF ChatConnInv, Has, InFrontOf, LoopOf, SendOf, EndingOf
  <2>3. CASE c = a
    <3>1. chatConn'[a] = "kDisconnected" /\ a \notin members' /\ a \notin destroyed
      BY <1>1, <1>2 DEF ChatConnInv
    <3>2. a \notin sentLate' =>
            /\ \A l \in ChatLoops : tested[l] # a
            /\ \A m \in Spoken : InFrontOf(queued[LoopOf(a)], SendOf(a, m), EndingOf(a))
      BY <1>1 DEF ChatConnInv
    <3>3. \A l \in ChatLoops : Has(queued[l], EndingOf(a)) => l = LoopOf(a)
      BY <1>1 DEF ChatConnInv
    <3> QED BY <1>1, <2>3, <3>1, <3>2, <3>3
            DEF ChatConnInv, Has, InFrontOf, LoopOf, SendOf, EndingOf
  <2> QED BY <2>2, <2>3
<1>7. ASSUME NEW c \in ChatConns, NEW d \in ChatConns PROVE PairInv(c, d)'
  <2>1. PairInv(c, d) /\ InHand(c, d)' = InHand(c, d)
    BY <1>1 DEF ChatInv, InHand, LoopOf
  <2>2. CASE c # a
    <3>1. chatConn'[c] = chatConn[c]
      BY <1>2, <2>2
    <3> QED BY <1>1, <2>1, <3>1, PairSame
  <2>3. CASE c = a
    <3>1. chatConn'[c] = "kDisconnected"
      BY <1>2, <2>3
    <3>2. HearsWell(heard[c], d, said[d])'
      BY <1>1, <2>1 DEF PairInv, HearsWell
    <3> QED BY <3>1, <3>2 DEF PairInv
  <2> QED BY <2>2, <2>3
<1>8. ~dangling'
  BY <1>1 DEF ChatInv
<1> QED BY <1>3, <1>4, <1>5, <1>6, <1>7, <1>8 DEF ChatInv

LEMMA ChatForgetKeeps ==
  ASSUME ChatInv, NEW a \in ChatConns, ChatForget(a)
  PROVE  ChatInv'
<1> DEFINE o == LoopOf(a)  f == EndingOf(a)
<1>1. /\ ChatTypes /\ ChatConnInv(a) /\ a \in leaving /\ leaving' = leaving \ {a}
      /\ queued' = [queued EXCEPT ![o] = Append(@, f)]
      /\ UNCHANGED <<hp, limit, chatConn, members, destroyed, said, saying, copied,
                     rest, tested, heard, joined, sentLate, dangling>>
  BY DEF ChatInv, ChatForget, Queue, EndingOf
<1>2. o \in ChatLoops /\ f \in ChatFunctors /\ queued \in [ChatLoops -> Seq(ChatFunctors)]
  <2>1. o \in ChatLoops
    BY ChatNumbers
  <2>2. f \in ChatFunctors
    BY DEF ChatFunctors
  <2> QED BY <1>1, <2>1, <2>2 DEF ChatTypes
<1>3. chatConn[a] = "kDisconnected"
  BY <1>1 DEF ChatConnInv
<1>4. /\ f = EndingOf(a) /\ o = LoopOf(a)
  OBVIOUS
<1> HIDE DEF o, f
<1>5. /\ queued'[o] = Append(queued[o], f)
      /\ \A l \in ChatLoops : l # o => queued'[l] = queued[l]
      /\ \A l \in ChatLoops : queued[l] \in Seq(ChatFunctors)
  BY <1>1, <1>2
<1>6. ChatTypes'
  <2>1. Append(queued[o], f) \in Seq(ChatFunctors)
    BY <1>2, <1>5, AppendProperties
  <2>2. queued' \in [ChatLoops -> Seq(ChatFunctors)]
    BY <1>1, <1>2, <2>1
  <2> QED BY <1>1, <2>2 DEF ChatTypes
<1>7. AdmittedInv' /\ ~dangling'
  BY <1>1 DEF ChatInv, AdmittedInv
<1>8. ASSUME NEW l \in ChatLoops, NEW e PROVE Has(queued'[l], e) <=> (Has(queued[l], e) \/ (l = o /\ e = f))
  <2>1. CASE l = o
    <3>1. /\ Has(Append(queued[o], f), e) <=> (Has(queued[o], e) \/ e = f)
          /\ Once(queued[o], e) /\ (f = e => ~Has(queued[o], e)) => Once(Append(queued[o], f), e)
      BY <1>2, <1>5, AppendOnce
    <3> QED BY <1>5, <2>1, <3>1
  <2>2. CASE l # o
    BY <1>5, <2>2
  <2> QED BY <2>1, <2>2
<1>9. ASSUME NEW l \in ChatLoops PROVE LoopInv(l)'
  <2>1. LoopInv(l)
    BY DEF ChatInv
  <2>2. \A c, m : f # SendOf(c, m) /\ f # ShareOf(m)
    BY <1>4, FunctorsDiffer
  <2>3. /\ \A m : Has(queued'[l], ShareOf(m)) <=> Has(queued[l], ShareOf(m))
        /\ \A c, m : Has(queued'[l], SendOf(c, m)) <=> Has(queued[l], SendOf(c, m))
    BY <1>8, <2>2
  <2>4. /\ \A m \in Spoken : Has(queued'[l], ShareOf(m)) => hp /\ LoopOf(m[1]) # l
        /\ \A c \in ChatConns, m \in Spoken :
             Has(queued'[l], SendOf(c, m)) =>
               ~hp /\ LoopOf(c) = l /\ LoopOf(m[1]) # l
               /\ chatConn[c] \notin {"new", "kDisconnecting"}
    BY <2>1, <2>3 DEF LoopInv
  <2>5. /\ \A m : Has(queued[l], ShareOf(m))' = Has(queued'[l], ShareOf(m))
        /\ \A c, m : Has(queued[l], SendOf(c, m))' = Has(queued'[l], SendOf(c, m))
    BY DEF Has, SendOf, ShareOf
  <2> QED BY <1>1, <2>1, <2>4, <2>5 DEF LoopInv, LoopOf
<1>10. ASSUME NEW c \in ChatConns PROVE ChatConnInv(c)'
  <2>1. ChatConnInv(c) /\ LoopOf(c) \in ChatLoops
    BY ChatNumbers DEF ChatInv
  <2>2. \A l \in ChatLoops : Has(queued'[l], EndingOf(c)) =>
          l = LoopOf(c) /\ chatConn[c] = "kDisconnected"
    <3> SUFFICES ASSUME NEW l \in ChatLoops, Has(queued'[l], EndingOf(c))
                 PROVE  l = LoopOf(c) /\ chatConn[c] = "kDisconnected"
      OBVIOUS
    <3>1. CASE Has(queued[l], EndingOf(c))
      BY <2>1, <3>1 DEF ChatConnInv
    <3>2. CASE l = o /\ EndingOf(c) = f
      <4>1. c = a
        BY <1>4, <3>2, FunctorsDiffer
      <4> QED BY <1>3, <1>4, <3>2, <4>1
    <3> QED BY <1>8, <3>1, <3>2
  <2>3. ASSUME NEW m \in Spoken
        PROVE  /\ InFrontOf(queued[LoopOf(c)], SendOf(c, m), EndingOf(c)) =>
                    InFrontOf(queued'[LoopOf(c)], SendOf(c, m), EndingOf(c))
               /\ Has(queued'[LoopOf(c)], SendOf(c, m)) => Has(queued[LoopOf(c)], SendOf(c, m))
    <3>1. f # SendOf(c, m) /\ SendOf(c, m) # EndingOf(c)
      BY <1>4, FunctorsDiffer
    <3>2. CASE LoopOf(c) = o
      <4>1. /\ Has(Append(queued[o], f), SendOf(c, m)) <=>
                 (Has(queued[o], SendOf(c, m)) \/ SendOf(c, m) = f)
            /\ InFrontOf(queued[o], SendOf(c, m), EndingOf(c))
                 /\ (f = SendOf(c, m) => ~Has(queued[o], EndingOf(c)))
                 /\ SendOf(c, m) # EndingOf(c) =>
                 InFrontOf(Append(queued[o], f), SendOf(c, m), EndingOf(c))
        BY <1>2, <1>5, AppendHas
      <4> QED BY <1>5, <3>1, <3>2, <4>1
    <3>3. CASE LoopOf(c) # o
      BY <1>5, <2>1, <3>3
    <3> QED BY <3>2, <3>3
  <2>4. c \notin sentLate =>
          /\ \A m \in Spoken : InFrontOf(queued'[LoopOf(c)], SendOf(c, m), EndingOf(c))
          /\ c \in destroyed =>
               \A m \in Spoken : ~Has(queued'[LoopOf(c)], SendOf(c, m))
    BY <2>1, <2>3 DEF ChatConnInv
  <2>5. /\ \A l : Has(queued[l], EndingOf(c))' = Has(queued'[l], EndingOf(c))
        /\ \A m : InFrontOf(queued[LoopOf(c)], SendOf(c, m), EndingOf(c))'
                    = InFrontOf(queued'[LoopOf(c)], SendOf(c, m), EndingOf(c))
        /\ \A m : Has(queued[LoopOf(c)], SendOf(c, m))' = Has(queued'[LoopOf(c)], SendOf(c, m))
    BY DEF Has, InFrontOf, SendOf, EndingOf, LoopOf
  <2>6. c \in leaving' \cup destroyed => chatConn[c] = "kDisconnected"
    BY <1>1, <2>1 DEF ChatConnInv
  <2> QED BY <1>1, <2>1, <2>2, <2>4, <2>5, <2>6 DEF ChatConnInv
<1>11. ASSUME NEW c \in ChatConns, NEW d \in ChatConns PROVE PairInv(c, d)'
  <2>1. PairInv(c, d) /\ InHand(c, d)' = InHand(c, d) /\ LoopOf(c) \in ChatLoops
    BY <1>1, ChatNumbers DEF ChatInv, InHand, LoopOf
  <2>2. CASE LoopOf(c) # o
    BY <1>1, <1>5, <2>1, <2>2, PairSame
  <2>3. CASE LoopOf(c) = o
    <3>1. HearsWell(heard[c], d, said[d])'
      BY <1>1, <2>1 DEF PairInv, HearsWell
    <3>2. ASSUME chatConn[c] \in {"new", "kConnected"}
          PROVE  HearsAll(hp, heard[c], queued'[o], c, d, said[d], InHand(c, d),
                          chatConn[c], joined[c][d])
      <4>1. HearsAll(hp, heard[c], queued[o], c, d, said[d], InHand(c, d),
                     chatConn[c], joined[c][d])
        BY <2>1, <2>3, <3>2 DEF PairInv
      <4>2. \A n \in Nat : f # Carrier(hp, c, d, n)
        BY <1>4, CarrierIs
      <4> QED BY <1>2, <1>5, <4>1, <4>2, OtherWaits
    <3>3. chatConn'[c] \in {"new", "kConnected"} =>
            HearsAll(hp, heard[c], queued[LoopOf(c)], c, d, said[d], InHand(c, d),
                     chatConn[c], joined[c][d])'
      BY <1>1, <2>1, <2>3, <3>2 DEF HearsAll, Waits, LoopOf
    <3> QED BY <3>1, <3>3 DEF PairInv
  <2> QED BY <2>2, <2>3
<1> QED BY <1>6, <1>7, <1>9, <1>10, <1>11 DEF ChatInv

LEMMA SayKeeps ==
  ASSUME ChatInv, NEW a \in ChatConns, Say(a)
  PROVE  ChatInv'
<1>1. PICK o : o = LoopOf(a)
  OBVIOUS
<1>2. /\ ChatTypes /\ Free(o) /\ chatConn[a] \in {"kConnected", "kDisconnecting"}
      /\ said' = [said EXCEPT ![a] = @ + 1]
      /\ saying' = [saying EXCEPT ![o] = <<a, said'[a]>>]
      /\ copied' = [copied EXCEPT ![o] = IF hp THEN {} ELSE members]
      /\ rest' = [rest EXCEPT ![o] = IF hp THEN ChatLoops ELSE members]
      /\ UNCHANGED <<hp, limit, chatConn, members, leaving, destroyed, tested,
                     queued, heard, joined, sentLate, dangling>>
  BY <1>1 DEF ChatInv, Say
<1>3. o \in ChatLoops /\ saying[o] = Silence /\ LoopInv(o)
  BY <1>1, <1>2, ChatNumbers DEF Free, ChatInv
<1>4. /\ \A c \in ChatConns : said'[c] = IF c = a THEN said[c] + 1 ELSE said[c]
      /\ \A c \in ChatConns : said[c] \in Nat
  BY <1>2 DEF ChatTypes
<1>5. PICK n \in Nat : n = said[a] + 1 /\ n = said'[a]
  BY <1>4
<1>6. \A l \in ChatLoops :
        /\ saying'[l] = IF l = o THEN <<a, n>> ELSE saying[l]
        /\ rest'[l] = IF l = o THEN (IF hp THEN ChatLoops ELSE members) ELSE rest[l]
  BY <1>2, <1>3, <1>5 DEF ChatTypes
<1>7. ChatTypes'
  <2>1. said' \in [ChatConns -> Nat]
    BY <1>2 DEF ChatTypes
  <2>2. <<a, n>> \in Spoken
    BY DEF Spoken
  <2>3. saying' \in [ChatLoops -> {Silence} \cup Spoken]
    BY <1>2, <1>5, <2>2 DEF ChatTypes
  <2>4. members \subseteq ChatConns
    BY <1>2 DEF ChatTypes
  <2>5. copied' \in [ChatLoops -> SUBSET ChatConns]
    BY <1>2, <2>4 DEF ChatTypes
  <2>6. rest' \in [ChatLoops -> SUBSET (ChatConns \cup ChatLoops)]
    BY <1>2, <2>4 DEF ChatTypes
  <2> QED BY <1>2, <2>1, <2>3, <2>5, <2>6 DEF ChatTypes
<1>8. AdmittedInv' /\ ~dangling'
  BY <1>2 DEF ChatInv, AdmittedInv
<1>9. ASSUME NEW l \in ChatLoops PROVE LoopInv(l)'
  <2>1. LoopInv(l)
    BY DEF ChatInv
  <2>2. CASE l # o
    <3>1. saying[l] # Silence => saying[l][1] \in ChatConns /\ saying[l][1] # a
      <4>1. saying[l] \in {Silence} \cup Spoken
        BY <1>2, ChatAt
      <4> QED BY <1>1, <2>1, <2>2, <4>1 DEF LoopInv, Spoken
    <3>2. saying[l] # Silence => said'[saying[l][1]] = said[saying[l][1]]
      BY <1>4, <3>1
    <3>3. saying'[l] = saying[l] /\ rest'[l] = rest[l]
      BY <1>6, <2>2
    <3> QED BY <1>2, <2>1, <3>2, <3>3 DEF LoopInv, Has, LoopOf, SendOf, ShareOf
  <2>3. CASE l = o
    <3>1. saying'[l] = <<a, n>> /\ tested'[l] = NoOne
      BY <1>2, <1>3, <1>6, <2>1, <2>3 DEF LoopInv
    <3>2. <<a, n>>[1] = a /\ <<a, n>>[2] = n /\ <<a, n>> # Silence
      BY DEF Silence
    <3>3. /\ hp => rest'[l] \subseteq ChatLoops
          /\ ~hp => rest'[l] \subseteq ChatConns /\ NoOne \notin rest'[l]
      <4>1. members \subseteq ChatConns /\ NoOne \notin ChatConns
        BY <1>2, ChatNumbers DEF ChatTypes, NoOne
      <4> QED BY <1>6, <2>3, <4>1
    <3>4. LoopOf(a)' = o
      BY <1>1 DEF LoopOf
    <3> QED BY <1>2, <1>5, <2>1, <2>3, <3>1, <3>2, <3>3, <3>4
            DEF LoopInv, Has, LoopOf, SendOf, ShareOf
  <2> QED BY <2>2, <2>3
<1>10. ASSUME NEW c \in ChatConns PROVE ChatConnInv(c)'
  <2>1. ChatConnInv(c)
    BY DEF ChatInv
  <2>2. chatConn[c] = "new" /\ ~hp => \A l \in ChatLoops : c \notin rest'[l]
    BY <1>6, <2>1 DEF ChatConnInv
  <2> QED BY <1>2, <2>1, <2>2 DEF ChatConnInv, Has, InFrontOf, LoopOf, SendOf, EndingOf
<1>11. ASSUME NEW c \in ChatConns, NEW d \in ChatConns PROVE PairInv(c, d)'
  <2>1. PairInv(c, d) /\ LoopOf(c) \in ChatLoops /\ LoopOf(d) \in ChatLoops
    BY ChatNumbers DEF ChatInv
  <2>2. CASE d # a
    <3>1. said'[d] = said[d]
      BY <1>4, <2>2
    <3>2. InHand(c, d)' = InHand(c, d)
      <4>1. CASE LoopOf(d) = o
        <5>1. saying[o] # <<d, said[d]>> /\ saying'[o] # <<d, said[d]>>
          BY <1>3, <1>6, <2>2 DEF Silence
        <5> QED BY <3>1, <4>1, <5>1 DEF InHand, LoopOf
      <4>2. CASE LoopOf(d) # o
        <5>1. saying'[LoopOf(d)] = saying[LoopOf(d)] /\ rest'[LoopOf(d)] = rest[LoopOf(d)]
          BY <1>6, <2>1, <4>2
        <5> QED BY <1>2, <3>1, <5>1 DEF InHand, LoopOf
      <4> QED BY <4>1, <4>2
    <3> QED BY <1>2, <2>1, <3>1, <3>2, PairSame
  <2>3. CASE d = a
    <3>1. HearsWell(heard[c], d, said[d]) /\ said[d] \in Nat /\ said'[d] = said[d] + 1
      BY <1>4, <2>1, <2>3 DEF PairInv
    <3>2. HearsWell(heard[c], d, said[d] + 1)
      BY <3>1, SaidMore
    <3>3. HearsWell(heard[c], d, said[d])'
      BY <1>2, <3>1, <3>2 DEF HearsWell
    <3>4. InHand(c, d) = FALSE
      <4>1. saying[LoopOf(d)] # <<d, said[d]>>
        <5>1. saying[LoopOf(d)] = Silence
          BY <1>1, <1>3, <2>3
        <5>2. <<d, said[d]>> # Silence
          BY DEF Silence
        <5> QED BY <5>1, <5>2
      <4> QED BY <4>1 DEF InHand
    <3>5. InHand(c, d)' = (hp \/ c \in members)
      <4>1. saying'[LoopOf(d)] = <<d, said'[d]>>
        BY <1>1, <1>5, <1>6, <2>1, <2>3
      <4>2. rest'[LoopOf(d)] = IF hp THEN ChatLoops ELSE members
        BY <1>1, <1>6, <2>1, <2>3
      <4>3. tested'[LoopOf(d)] # c
        <5>1. tested[o] = NoOne /\ c # NoOne
          BY <1>3, ChatNumbers DEF LoopInv, NoOne
        <5> QED BY <1>1, <1>2, <2>3, <5>1
      <4>4. InHand(c, d)' <=> (hp \/ c \in members)
        BY <1>2, <2>1, <4>1, <4>2, <4>3 DEF InHand, LoopOf
      <4>5. InHand(c, d)' \in BOOLEAN /\ (hp \/ c \in members) \in BOOLEAN
        BY DEF InHand
      <4> QED BY <4>4, <4>5
    <3>6. ASSUME chatConn[c] \in {"new", "kConnected"}
          PROVE  HearsAll(hp, heard[c], queued[LoopOf(c)], c, d, said[d] + 1,
                          InHand(c, d)', chatConn[c], joined[c][d])
      <4>1. HearsAll(hp, heard[c], queued[LoopOf(c)], c, d, said[d], FALSE,
                     chatConn[c], joined[c][d])
        BY <2>1, <3>4, <3>6 DEF PairInv
      <4>2. ChatConnInv(c) /\ LoopInv(LoopOf(c))
        BY <2>1 DEF ChatInv
      <4>3. CASE hp \/ c \in members
        <5>1. InHand(c, d)' = TRUE
          BY <3>5, <4>3
        <5>2. HearsAll(hp, heard[c], queued[LoopOf(c)], c, d, said[d] + 1, TRUE,
                       chatConn[c], joined[c][d])
          BY <3>1, <4>1, SaidInHand
        <5> QED BY <5>1, <5>2
      <4>4. CASE ~hp /\ c \notin members
        <5>1. InHand(c, d)' = FALSE
          BY <3>5, <4>4
        <5>2. chatConn[c] = "new" /\ heard[c] = <<>>
          BY <3>6, <4>2, <4>4 DEF ChatConnInv
        <5>3. \A k \in Nat : ~Has(queued[LoopOf(c)], Carrier(hp, c, d, k))
          BY <4>2, <4>4, <5>2, CarrierIs DEF Carrier, LoopInv
        <5>4. HearsAll(hp, <<>>, queued[LoopOf(c)], c, d, said[d] + 1, FALSE, "new",
                       joined[c][d])
          BY <5>3, NothingHeard
        <5> QED BY <5>1, <5>2, <5>4
      <4> QED BY <4>3, <4>4
    <3>7. chatConn'[c] \in {"new", "kConnected"} =>
            HearsAll(hp, heard[c], queued[LoopOf(c)], c, d, said[d], InHand(c, d),
                     chatConn[c], joined[c][d])'
      BY <1>2, <2>1, <3>1, <3>6 DEF HearsAll, Waits, LoopOf
    <3> QED BY <3>3, <3>7 DEF PairInv
  <2> QED BY <2>2, <2>3
<1> QED BY <1>7, <1>8, <1>9, <1>10, <1>11 DEF ChatInv

LEMMA SaidAllKeeps ==
  ASSUME ChatInv, NEW o \in ChatLoops, SaidAll(o)
  PROVE  ChatInv'
<1>1. /\ ChatTypes /\ LoopInv(o)
      /\ rest[o] = {} /\ tested[o] = NoOne
      /\ saying' = [saying EXCEPT ![o] = Silence]
      /\ copied' = [copied EXCEPT ![o] = {}]
      /\ UNCHANGED <<hp, limit, chatConn, members, leaving, destroyed, said, rest,
                     tested, queued, heard, joined, sentLate, dangling>>
  BY DEF ChatInv, SaidAll
<1>2. \A l \in ChatLoops : saying'[l] = IF l = o THEN Silence ELSE saying[l]
  BY <1>1 DEF ChatTypes
<1>3. ChatTypes'
  <2>1. saying' \in [ChatLoops -> {Silence} \cup Spoken]
    BY <1>1 DEF ChatTypes
  <2>2. copied' \in [ChatLoops -> SUBSET ChatConns]
    BY <1>1 DEF ChatTypes
  <2> QED BY <1>1, <2>1, <2>2 DEF ChatTypes
<1>4. AdmittedInv' /\ ~dangling'
  BY <1>1 DEF ChatInv, AdmittedInv
<1>5. ASSUME NEW l \in ChatLoops PROVE LoopInv(l)'
  <2>1. LoopInv(l)
    BY DEF ChatInv
  <2> QED BY <1>1, <1>2, <2>1 DEF LoopInv, Has, LoopOf, SendOf, ShareOf
<1>6. ASSUME NEW c \in ChatConns PROVE ChatConnInv(c)'
  <2>1. ChatConnInv(c)
    BY DEF ChatInv
  <2> QED BY <1>1, <2>1 DEF ChatConnInv, Has, InFrontOf, LoopOf, SendOf, EndingOf
<1>7. ASSUME NEW c \in ChatConns, NEW d \in ChatConns PROVE PairInv(c, d)'
  <2>1. PairInv(c, d) /\ LoopOf(d) \in ChatLoops /\ c # NoOne
    BY ChatNumbers DEF ChatInv, NoOne
  <2>2. InHand(c, d)' = InHand(c, d)
    <3>1. CASE LoopOf(d) = o
      <4>1. ~InHand(c, d) /\ ~InHand(c, d)'
        BY <1>1, <2>1, <3>1 DEF InHand, LoopOf
      <4> QED BY <4>1 DEF InHand
    <3>2. CASE LoopOf(d) # o
      BY <1>1, <1>2, <2>1, <3>2 DEF InHand, LoopOf
    <3> QED BY <3>1, <3>2
  <2> QED BY <1>1, <2>1, <2>2, PairSame
<1> QED BY <1>3, <1>4, <1>5, <1>6, <1>7 DEF ChatInv

LEMMA SendToNextKeeps ==
  ASSUME ChatInv, NEW o \in ChatLoops, NEW a \in ChatConns, SendToNext(o, a)
  PROVE  ChatInv'
<1>1. /\ ChatTypes /\ LoopInv(o) /\ ChatConnInv(a)
      /\ ~hp /\ tested[o] = NoOne /\ a \in rest[o]
      /\ rest' = [rest EXCEPT ![o] = @ \ {a}]
      /\ UNCHANGED <<hp, limit, chatConn, members, leaving, destroyed, said,
                     saying, copied, queued, joined, sentLate, dangling>>
  BY DEF ChatInv, SendToNext, IsNext
<1>2. saying[o] # Silence
  BY <1>1 DEF LoopInv
<1>3. PICK b \in ChatConns, n \in Nat : saying[o] = <<b, n>>
  BY <1>1, <1>2, ChatAt DEF Spoken
<1>4. LoopOf(b) = o /\ n = said[b]
  BY <1>1, <1>2, <1>3 DEF LoopInv
<1>5. \/ /\ chatConn[a] = "kConnected" /\ LoopOf(a) # o
         /\ tested' = [tested EXCEPT ![o] = a] /\ heard' = heard
      \/ /\ chatConn[a] = "kConnected" /\ LoopOf(a) = o /\ tested' = tested
         /\ heard' = [heard EXCEPT ![a] = Append(@, <<b, n>>)]
      \/ chatConn[a] # "kConnected" /\ tested' = tested /\ heard' = heard
  <2>1. CASE chatConn[a] = "kConnected" /\ LoopOf(a) # o
    BY <2>1 DEF SendToNext
  <2>2. CASE ~(chatConn[a] = "kConnected" /\ LoopOf(a) # o)
    <3>1. SendOut({d \in {a} : chatConn[d] = "kConnected"}, saying[o]) /\ tested' = tested
      BY <2>2 DEF SendToNext
    <3>2. heard' = [c \in ChatConns |->
                      IF c = a /\ chatConn[a] = "kConnected"
                        THEN Append(heard[c], <<b, n>>) ELSE heard[c]]
      BY <1>3, <3>1 DEF SendOut
    <3> QED BY <1>1, <2>2, <3>1, <3>2 DEF ChatTypes
  <2> QED BY <2>1, <2>2
<1>6. \A l \in ChatLoops : rest'[l] = IF l = o THEN rest[o] \ {a} ELSE rest[l]
  BY <1>1 DEF ChatTypes
<1>7. /\ \A l \in ChatLoops : l # o => tested'[l] = tested[l]
      /\ tested'[o] = tested[o] \/ (tested'[o] = a /\ LoopOf(a) # o /\ chatConn[a] = "kConnected")
  BY <1>1, <1>5 DEF ChatTypes
<1>8. \A c \in ChatConns :
        \/ heard'[c] = heard[c]
        \/ c = a /\ chatConn[a] = "kConnected" /\ LoopOf(a) = o
           /\ heard'[c] = Append(heard[c], <<b, n>>)
  BY <1>1, <1>5 DEF ChatTypes
<1>9. ChatTypes'
  <2>1. rest' \in [ChatLoops -> SUBSET (ChatConns \cup ChatLoops)]
    BY <1>1 DEF ChatTypes
  <2>2. tested' \in [ChatLoops -> ChatConns \cup {NoOne}]
    BY <1>1, <1>5 DEF ChatTypes
  <2>3. heard' \in [ChatConns -> Seq(Spoken)]
    <3>1. heard \in [ChatConns -> Seq(Spoken)]
      BY <1>1 DEF ChatTypes
    <3>2. Append(heard[a], <<b, n>>) \in Seq(Spoken)
      BY <3>1, AppendProperties DEF Spoken
    <3> QED BY <1>5, <3>1, <3>2
  <2> QED BY <1>1, <2>1, <2>2, <2>3 DEF ChatTypes
<1>10. AdmittedInv' /\ ~dangling'
  BY <1>1 DEF ChatInv, AdmittedInv
<1>11. ASSUME NEW l \in ChatLoops PROVE LoopInv(l)'
  <2>1. LoopInv(l)
    BY DEF ChatInv
  <2>2. CASE l # o
    BY <1>1, <1>6, <1>7, <2>1, <2>2 DEF LoopInv, Has, LoopOf, SendOf, ShareOf
  <2>3. CASE l = o
    <3>1. rest'[o] = rest[o] \ {a}
      BY <1>6
    <3>2. /\ rest'[o] \subseteq ChatConns /\ tested'[o] \notin rest'[o]
          /\ tested'[o] # NoOne => LoopOf(tested'[o]) # o
      BY <1>1, <1>7, <3>1 DEF LoopInv
    <3> QED BY <1>1, <1>2, <2>1, <2>3, <3>2 DEF LoopInv, Has, LoopOf, SendOf, ShareOf
  <2> QED BY <2>2, <2>3
<1>12. ASSUME NEW c \in ChatConns PROVE ChatConnInv(c)'
  <2>1. ChatConnInv(c)
    BY DEF ChatInv
  <2>2. \A l \in ChatLoops : tested'[l] = c => tested[l] = c \/ (c = a /\ chatConn[c] = "kConnected")
    BY <1>7
  <2>3. chatConn[c] \in {"new", "kDisconnecting"} =>
          heard'[c] = <<>> /\ \A l \in ChatLoops : tested'[l] # c
    BY <1>8, <2>1, <2>2 DEF ChatConnInv
  <2>4. chatConn[c] = "new" => \A l \in ChatLoops : c \notin rest'[l]
    BY <1>1, <1>6, <2>1 DEF ChatConnInv
  <2>5. c \notin sentLate => \A l \in ChatLoops : tested'[l] = c => chatConn[c] = "kConnected"
    BY <2>1, <2>2 DEF ChatConnInv
  <2> QED BY <1>1, <2>1, <2>3, <2>4, <2>5 DEF ChatConnInv, Has, InFrontOf, LoopOf, SendOf, EndingOf
<1>13. ASSUME NEW c \in ChatConns, NEW d \in ChatConns PROVE PairInv(c, d)'
  <2>1. PairInv(c, d) /\ LoopOf(d) \in ChatLoops /\ LoopOf(c) \in ChatLoops /\ c # NoOne
    BY ChatNumbers DEF ChatInv, NoOne
  <2>2. CASE d # b \/ c # a
    <3>1. InHand(c, d)' = InHand(c, d)
      <4>1. CASE LoopOf(d) # o
        BY <1>1, <1>6, <1>7, <2>1, <4>1 DEF InHand, LoopOf
      <4>2. CASE d # b /\ LoopOf(d) = o
        <5>1. saying[LoopOf(d)] # <<d, said[d]>>
          BY <1>3, <4>2
        <5> QED BY <1>1, <5>1 DEF InHand, LoopOf
      <4>3. CASE c # a /\ LoopOf(d) = o
        <5>1. c \in rest'[o] <=> c \in rest[o]
          BY <1>6, <4>3
        <5>2. tested'[o] # c /\ tested[o] # c
          BY <1>1, <1>7, <2>1, <4>3
        <5>3. InHand(c, d)' <=> InHand(c, d)
          BY <1>1, <4>3, <5>1, <5>2 DEF InHand, LoopOf
        <5> QED BY <5>3 DEF InHand
      <4> QED BY <2>2, <4>1, <4>2, <4>3
    <3>2. CASE heard'[c] = heard[c]
      BY <1>1, <2>1, <3>1, <3>2, PairSame
    <3>3. CASE heard'[c] = Append(heard[c], <<b, n>>) /\ d # b
      <4>1. <<b, n>> \in Spoken /\ <<b, n>>[1] # d /\ heard[c] \in Seq(Spoken)
        BY <1>1, <3>3, ChatAt DEF Spoken
      <4>2. HearsWell(heard[c], d, said[d])
        BY <2>1 DEF PairInv
      <4>3. HearsWell(heard'[c], d, said[d])
        BY <3>3, <4>1, <4>2, OtherHeard
      <4>4. ASSUME chatConn[c] \in {"new", "kConnected"}
            PROVE  HearsAll(hp, heard'[c], queued[LoopOf(c)], c, d, said[d], InHand(c, d),
                            chatConn[c], joined[c][d])
        <5>1. HearsAll(hp, heard[c], queued[LoopOf(c)], c, d, said[d], InHand(c, d),
                       chatConn[c], joined[c][d])
          BY <2>1, <4>4 DEF PairInv
        <5> QED BY <3>3, <4>1, <4>2, <5>1, OtherHeardAll
      <4>5. HearsWell(heard[c], d, said[d])'
        BY <1>1, <4>3 DEF HearsWell
      <4>6. chatConn'[c] \in {"new", "kConnected"} =>
              HearsAll(hp, heard[c], queued[LoopOf(c)], c, d, said[d], InHand(c, d),
                       chatConn[c], joined[c][d])'
        BY <1>1, <3>1, <4>4 DEF HearsAll, Waits, LoopOf
      <4> QED BY <4>5, <4>6 DEF PairInv
    <3> QED BY <1>8, <2>2, <3>2, <3>3
  <2>3. CASE d = b /\ c = a
    <3>1. InHand(c, d) = TRUE
      <4>1. InHand(c, d)
        BY <1>1, <1>3, <1>4, <2>3 DEF InHand
      <4> QED BY <4>1 DEF InHand
    <3>2. HearsWell(heard[c], d, said[d]) /\ said[d] \in Nat /\ heard[c] \in Seq(Spoken)
          /\ queued[LoopOf(c)] \in Seq(ChatFunctors)
      BY <1>1, <2>1, ChatAt DEF PairInv
    <3>3. CASE chatConn[a] = "kConnected" /\ LoopOf(a) # o
      <4>1. tested'[o] = a /\ heard' = heard
        BY <1>1, <1>5, <3>3 DEF ChatTypes
      <4>2. InHand(c, d)' = TRUE
        <5>1. InHand(c, d)'
          BY <1>1, <1>3, <1>4, <2>3, <4>1 DEF InHand, LoopOf
        <5> QED BY <5>1 DEF InHand
      <4> QED BY <1>1, <2>1, <3>1, <4>1, <4>2, PairSame
    <3>4. CASE chatConn[a] = "kConnected" /\ LoopOf(a) = o
      <4>1. heard'[c] = Append(heard[c], <<d, said[d]>>)
        BY <1>1, <1>4, <1>5, <2>3, <3>4 DEF ChatTypes
      <4>2. InHand(c, d)' = FALSE
        <5>1. a \notin rest'[o] /\ tested'[o] = NoOne
          BY <1>1, <1>6, <1>7, <3>4
        <5>2. ~InHand(c, d)'
          BY <1>1, <1>4, <2>1, <2>3, <5>1 DEF InHand, LoopOf
        <5> QED BY <5>2 DEF InHand
      <4>3. HearsAll(hp, heard[c], queued[LoopOf(c)], c, d, said[d], TRUE,
                     chatConn[c], joined[c][d])
        BY <2>1, <2>3, <3>1, <3>4 DEF PairInv
      <4>4. \A k \in Nat : ~Has(queued[LoopOf(c)], Carrier(hp, c, d, k))
        <5>1. \A k \in Nat : <<d, k>> \in Spoken /\ <<d, k>>[1] = d
          BY DEF Spoken
        <5>2. \A k \in Nat : ~Has(queued[o], SendOf(c, <<d, k>>))
          BY <1>1, <1>4, <2>3, <5>1 DEF LoopInv
        <5> QED BY <1>1, <2>3, <3>4, <5>2 DEF Carrier
      <4>5. /\ HearsWell(Append(heard[c], <<d, said[d]>>), d, said[d])
            /\ HearsAll(hp, Append(heard[c], <<d, said[d]>>), queued[LoopOf(c)], c, d,
                        said[d], FALSE, chatConn[c], joined[c][d])
        BY <3>2, <4>3, <4>4, InHandHeard
      <4>6. HearsWell(heard[c], d, said[d])'
        BY <1>1, <4>1, <4>5 DEF HearsWell
      <4>7. HearsAll(hp, heard[c], queued[LoopOf(c)], c, d, said[d], InHand(c, d),
                     chatConn[c], joined[c][d])'
        BY <1>1, <4>1, <4>2, <4>5 DEF HearsAll, Waits, LoopOf
      <4> QED BY <4>6, <4>7 DEF PairInv
    <3>5. CASE chatConn[a] # "kConnected"
      <4>1. chatConn[a] # "new"
        BY <1>1 DEF ChatConnInv
      <4>2. heard' = heard
        BY <1>5, <3>5
      <4>3. HearsWell(heard[c], d, said[d])'
        BY <1>1, <3>2, <4>2 DEF HearsWell
      <4> QED BY <1>1, <2>3, <3>5, <4>1, <4>3 DEF PairInv
    <3> QED BY <3>3, <3>4, <3>5
  <2> QED BY <2>2, <2>3
<1> QED BY <1>9, <1>10, <1>11, <1>12, <1>13 DEF ChatInv

LEMMA SendElsewhereKeeps ==
  ASSUME ChatInv, NEW o \in ChatLoops, SendElsewhere(o)
  PROVE  ChatInv'
<1>1. /\ ChatTypes /\ LoopInv(o) /\ tested[o] # NoOne
      /\ tested' = [tested EXCEPT ![o] = NoOne]
      /\ queued' = [queued EXCEPT ![LoopOf(tested[o])] =
                      Append(@, SendOf(tested[o], saying[o]))]
      /\ UNCHANGED <<hp, limit, chatConn, members, leaving, destroyed, said,
                     saying, copied, rest, heard, joined, sentLate, dangling>>
  BY DEF ChatInv, SendElsewhere, Queue, SendOf
<1>2. ~hp /\ saying[o] # Silence
  BY <1>1 DEF LoopInv
<1>3. PICK a \in ChatConns : tested[o] = a
  BY <1>1, ChatAt
<1>4. PICK b \in ChatConns, n \in Nat : saying[o] = <<b, n>>
  BY <1>1, <1>2, ChatAt DEF Spoken
<1>5. /\ LoopOf(b) = o /\ n = said[b] /\ a # NoOne /\ LoopOf(a) # o
      /\ a \notin rest[o] /\ LoopOf(a) \in ChatLoops
  BY <1>1, <1>2, <1>3, <1>4, ChatNumbers DEF LoopInv
<1>6. PICK k \in ChatLoops : k = LoopOf(a)
  BY <1>5
<1>7. PICK f \in ChatFunctors : f = SendOf(a, <<b, n>>)
  <2>1. SendOf(a, <<b, n>>) \in ChatFunctors
    BY DEF ChatFunctors, Spoken
  <2> QED BY <2>1
<1>8. /\ queued'[k] = Append(queued[k], f)
      /\ \A l \in ChatLoops : l # k => queued'[l] = queued[l]
      /\ \A l \in ChatLoops : queued[l] \in Seq(ChatFunctors)
      /\ tested'[o] = NoOne /\ \A l \in ChatLoops : l # o => tested'[l] = tested[l]
  BY <1>1, <1>3, <1>4, <1>6, <1>7 DEF ChatTypes
<1>9. ChatTypes'
  <2>1. Append(queued[k], f) \in Seq(ChatFunctors)
    BY <1>8, AppendProperties
  <2>2. queued' \in [ChatLoops -> Seq(ChatFunctors)]
    BY <1>1, <1>3, <1>4, <1>6, <1>7, <2>1 DEF ChatTypes
  <2>3. tested' \in [ChatLoops -> ChatConns \cup {NoOne}]
    BY <1>1 DEF ChatTypes
  <2> QED BY <1>1, <2>2, <2>3 DEF ChatTypes
<1>10. AdmittedInv' /\ ~dangling'
  BY <1>1 DEF ChatInv, AdmittedInv
<1>11. ASSUME NEW l \in ChatLoops, NEW e PROVE Has(queued'[l], e) <=> (Has(queued[l], e) \/ (l = k /\ e = f))
  <2>1. CASE l = k
    <3>1. /\ Has(Append(queued[k], f), e) <=> (Has(queued[k], e) \/ e = f)
          /\ Once(queued[k], e) /\ (f = e => ~Has(queued[k], e)) => Once(Append(queued[k], f), e)
      BY <1>8, AppendOnce
    <3> QED BY <1>8, <2>1, <3>1
  <2>2. CASE l # k
    BY <1>8, <2>2
  <2> QED BY <2>1, <2>2
<1>12. /\ \A m : f # ShareOf(m)
       /\ \A c : f # EndingOf(c)
       /\ \A c, m : f = SendOf(c, m) => c = a /\ m = <<b, n>>
  BY <1>7, FunctorsDiffer
<1>13. ChatConnInv(a) /\ chatConn[a] \notin {"new", "kDisconnecting"}
       /\ (a \notin sentLate => chatConn[a] = "kConnected")
  BY <1>1, <1>3 DEF ChatInv, ChatConnInv
<1>14. ASSUME NEW l \in ChatLoops PROVE LoopInv(l)'
  <2>1. LoopInv(l)
    BY DEF ChatInv
  <2>2. \A m \in Spoken : Has(queued'[l], ShareOf(m)) => hp /\ LoopOf(m[1]) # l
    BY <1>11, <1>12, <2>1 DEF LoopInv
  <2>3. ASSUME NEW c \in ChatConns, NEW m \in Spoken, Has(queued'[l], SendOf(c, m))
        PROVE  ~hp /\ LoopOf(c) = l /\ LoopOf(m[1]) # l
               /\ chatConn[c] \notin {"new", "kDisconnecting"}
    <3>1. CASE Has(queued[l], SendOf(c, m))
      BY <2>1, <3>1 DEF LoopInv
    <3>2. CASE l = k /\ SendOf(c, m) = f
      <4>1. c = a /\ m = <<b, n>>
        BY <1>12, <3>2
      <4>2. m[1] = b
        BY <4>1
      <4> QED BY <1>2, <1>5, <1>6, <1>13, <3>2, <4>1, <4>2
    <3> QED BY <1>11, <2>3, <3>1, <3>2
  <2>4. /\ \A m : Has(queued[l], ShareOf(m))' = Has(queued'[l], ShareOf(m))
        /\ \A c, m : Has(queued[l], SendOf(c, m))' = Has(queued'[l], SendOf(c, m))
    BY DEF Has, SendOf, ShareOf
  <2>5. /\ saying[l] = Silence => tested'[l] = NoOne
        /\ tested'[l] = NoOne \/ tested'[l] = tested[l]
    BY <1>8, <2>1 DEF LoopInv
  <2>6. NoOne \notin ChatConns
    BY ChatNumbers DEF NoOne
  <2>7. ~hp => rest[l] \subseteq ChatConns /\ tested'[l] \notin rest[l]
    BY <2>1, <2>5, <2>6 DEF LoopInv
  <2> QED BY <1>1, <2>1, <2>2, <2>3, <2>4, <2>5, <2>7 DEF LoopInv, LoopOf
<1>15. ASSUME NEW c \in ChatConns PROVE ChatConnInv(c)'
  <2>1. ChatConnInv(c) /\ LoopOf(c) \in ChatLoops /\ c # NoOne
    BY ChatNumbers DEF ChatInv, NoOne
  <2>2. \A l \in ChatLoops : Has(queued'[l], EndingOf(c)) =>
          l = LoopOf(c) /\ chatConn[c] = "kDisconnected"
    BY <1>11, <1>12, <2>1 DEF ChatConnInv
  <2>3. \A l \in ChatLoops : tested'[l] = c => tested[l] = c
    BY <1>8, <2>1
  <2>4. ASSUME c \notin sentLate, NEW m \in Spoken
        PROVE  /\ InFrontOf(queued'[LoopOf(c)], SendOf(c, m), EndingOf(c))
               /\ c \in destroyed => ~Has(queued'[LoopOf(c)], SendOf(c, m))
    <3>1. /\ InFrontOf(queued[LoopOf(c)], SendOf(c, m), EndingOf(c))
          /\ c \in destroyed => ~Has(queued[LoopOf(c)], SendOf(c, m))
      BY <2>1, <2>4 DEF ChatConnInv
    <3>2. CASE LoopOf(c) # k
      BY <1>8, <2>1, <3>1, <3>2
    <3>3. CASE LoopOf(c) = k
      <4>1. f = SendOf(c, m) => chatConn[c] = "kConnected"
        BY <1>12, <1>13, <2>4
      <4>2. f = SendOf(c, m) => c \notin destroyed /\ ~Has(queued[k], EndingOf(c))
        BY <2>1, <4>1 DEF ChatConnInv
      <4>3. SendOf(c, m) # EndingOf(c)
        BY FunctorsDiffer
      <4>4. /\ Has(Append(queued[k], f), SendOf(c, m)) <=> (Has(queued[k], SendOf(c, m)) \/ SendOf(c, m) = f)
            /\ Once(queued[k], SendOf(c, m)) /\ (f = SendOf(c, m) => ~Has(queued[k], SendOf(c, m)))
                 => Once(Append(queued[k], f), SendOf(c, m))
            /\ InFrontOf(queued[k], SendOf(c, m), EndingOf(c))
                 /\ (f = SendOf(c, m) => ~Has(queued[k], EndingOf(c)))
                 /\ SendOf(c, m) # EndingOf(c) =>
                   InFrontOf(Append(queued[k], f), SendOf(c, m), EndingOf(c))
        BY <1>8, AppendHas
      <4> QED BY <1>8, <3>1, <3>3, <4>2, <4>3, <4>4
    <3> QED BY <3>2, <3>3
  <2>5. /\ \A l \in ChatLoops : Has(queued[l], EndingOf(c))' = Has(queued'[l], EndingOf(c))
        /\ \A m : /\ Has(queued[LoopOf(c)], SendOf(c, m))' = Has(queued'[LoopOf(c)], SendOf(c, m))
                  /\ InFrontOf(queued[LoopOf(c)], SendOf(c, m), EndingOf(c))' =
                       InFrontOf(queued'[LoopOf(c)], SendOf(c, m), EndingOf(c))
    BY DEF Has, InFrontOf, SendOf, EndingOf, LoopOf
  <2>6. c \notin sentLate => \A l \in ChatLoops : tested'[l] = c => chatConn[c] = "kConnected"
    BY <2>1, <2>3 DEF ChatConnInv
  <2>7. chatConn[c] \in {"new", "kDisconnecting"} =>
          heard[c] = <<>> /\ \A l \in ChatLoops : tested'[l] # c
    BY <2>1, <2>3 DEF ChatConnInv
  <2> QED BY <1>1, <2>1, <2>2, <2>4, <2>5, <2>6, <2>7 DEF ChatConnInv, LoopOf
<1>16. ASSUME NEW c \in ChatConns, NEW d \in ChatConns PROVE PairInv(c, d)'
  <2>1. /\ PairInv(c, d) /\ LoopOf(d) \in ChatLoops /\ LoopOf(c) \in ChatLoops /\ c # NoOne
        /\ said[d] \in Nat
    BY <1>1, ChatNumbers, ChatAt DEF ChatInv, NoOne
  <2>2. HearsWell(heard[c], d, said[d])'
    BY <1>1, <2>1 DEF PairInv, HearsWell
  <2>3. CASE c = a /\ d = b
    <3>1. InHand(c, d) = TRUE /\ InHand(c, d)' = FALSE
      <4>1. InHand(c, d)
        BY <1>2, <1>3, <1>4, <1>5, <2>3 DEF InHand
      <4>2. ~InHand(c, d)'
        <5>1. rest'[o] = rest[o] /\ tested'[o] = NoOne /\ ~hp'
          BY <1>1, <1>2, <1>8
        <5>2. (LoopOf(d))' = o
          BY <1>5, <2>3 DEF LoopOf
        <5> QED BY <1>5, <2>1, <2>3, <5>1, <5>2 DEF InHand
      <4> QED BY <4>1, <4>2 DEF InHand
    <3>2. ASSUME chatConn[c] \in {"new", "kConnected"}
          PROVE  HearsAll(hp, heard[c], queued'[LoopOf(c)], c, d, said[d], FALSE,
                          chatConn[c], joined[c][d])
      <4>1. HearsAll(hp, heard[c], queued[LoopOf(c)], c, d, said[d], TRUE,
                     chatConn[c], joined[c][d])
        BY <2>1, <3>1, <3>2 DEF PairInv
      <4>2. queued'[LoopOf(c)] = Append(queued[LoopOf(c)], Carrier(hp, c, d, said[d]))
        BY <1>2, <1>5, <1>6, <1>7, <1>8, <2>3 DEF Carrier
      <4>3. queued[LoopOf(c)] \in Seq(ChatFunctors)
        BY <1>8, <2>1
      <4> QED BY <2>1, <4>1, <4>2, <4>3, InHandQueued
    <3>3. chatConn'[c] \in {"new", "kConnected"} =>
            HearsAll(hp, heard[c], queued[LoopOf(c)], c, d, said[d], InHand(c, d),
                     chatConn[c], joined[c][d])'
      BY <1>1, <3>1, <3>2 DEF HearsAll, Waits, LoopOf
    <3> QED BY <2>2, <3>3 DEF PairInv
  <2>4. CASE c # a \/ d # b
    <3>1. InHand(c, d)' = InHand(c, d)
      <4>1. CASE LoopOf(d) # o
        BY <1>1, <1>8, <2>1, <4>1 DEF InHand, LoopOf
      <4>2. CASE d # b /\ LoopOf(d) = o
        <5>1. saying[LoopOf(d)] # <<d, said[d]>>
          BY <1>4, <4>2
        <5> QED BY <1>1, <5>1 DEF InHand, LoopOf
      <4>3. CASE c # a /\ LoopOf(d) = o
        <5>1. tested'[o] # c /\ tested[o] # c
          BY <1>3, <1>8, <2>1, <4>3
        <5>2. InHand(c, d)' <=> InHand(c, d)
          BY <1>1, <4>3, <5>1 DEF InHand, LoopOf
        <5> QED BY <5>2 DEF InHand
      <4> QED BY <2>4, <4>1, <4>2, <4>3
    <3>2. ASSUME chatConn[c] \in {"new", "kConnected"}
          PROVE  HearsAll(hp, heard[c], queued'[LoopOf(c)], c, d, said[d], InHand(c, d),
                          chatConn[c], joined[c][d])
      <4>1. HearsAll(hp, heard[c], queued[LoopOf(c)], c, d, said[d], InHand(c, d),
                     chatConn[c], joined[c][d])
        BY <2>1, <3>2 DEF PairInv
      <4>2. CASE LoopOf(c) # k
        BY <1>8, <2>1, <4>1, <4>2
      <4>3. CASE LoopOf(c) = k
        <5>1. \A i \in Nat : f # Carrier(hp, c, d, i)
          <6>1. SUFFICES ASSUME NEW i \in Nat, f = SendOf(c, <<d, i>>) PROVE FALSE
            BY <1>2 DEF Carrier
          <6>2. c = a /\ <<d, i>> = <<b, n>>
            BY <1>12, <6>1
          <6> QED BY <2>4, <6>2
        <5> QED BY <1>8, <2>1, <4>1, <4>3, <5>1, OtherWaits
      <4> QED BY <4>2, <4>3
    <3>3. chatConn'[c] \in {"new", "kConnected"} =>
            HearsAll(hp, heard[c], queued[LoopOf(c)], c, d, said[d], InHand(c, d),
                     chatConn[c], joined[c][d])'
      BY <1>1, <3>1, <3>2 DEF HearsAll, Waits, LoopOf
    <3> QED BY <2>2, <3>3 DEF PairInv
  <2> QED BY <2>3, <2>4
<1> QED BY <1>9, <1>10, <1>14, <1>15, <1>16 DEF ChatInv

\* A callback of the shared kind hands its message to its own loop.
LEMMA HandHereKeeps ==
  ASSUME ChatInv, NEW o \in ChatLoops, HandToNext(o, o)
  PROVE  ChatInv'
<1>1. /\ ChatTypes /\ LoopInv(o) /\ hp /\ o \in rest[o]
      /\ rest' = [rest EXCEPT ![o] = @ \ {o}]
      /\ Distribute(o, saying[o])
      /\ UNCHANGED <<hp, limit, chatConn, members, leaving, destroyed, said,
                     saying, copied, tested, queued, joined, sentLate, dangling>>
  BY DEF ChatInv, HandToNext, IsNext
<1>2. saying[o] # Silence
  BY <1>1 DEF LoopInv
<1>3. PICK b \in ChatConns, n \in Nat : saying[o] = <<b, n>>
  BY <1>1, <1>2, ChatAt DEF Spoken
<1>4. LoopOf(b) = o /\ n = said[b]
  BY <1>1, <1>2, <1>3 DEF LoopInv
<1>5. heard' = [c \in ChatConns |->
                  IF c \in members /\ LoopOf(c) = o /\ chatConn[c] = "kConnected"
                    THEN Append(heard[c], <<b, n>>) ELSE heard[c]]
  BY <1>1, <1>3 DEF Distribute, SendOut
<1>6. \A c \in ChatConns :
        heard'[c] = IF LoopOf(c) = o /\ chatConn[c] = "kConnected"
                      THEN Append(heard[c], <<b, n>>) ELSE heard[c]
  <2>1. \A c \in ChatConns : chatConn[c] = "kConnected" => c \in members
    BY DEF ChatInv, ChatConnInv
  <2> QED BY <1>5, <2>1
<1>7. \A l \in ChatLoops : rest'[l] = IF l = o THEN rest[o] \ {o} ELSE rest[l]
  BY <1>1 DEF ChatTypes
<1>8. ChatTypes'
  <2>1. rest' \in [ChatLoops -> SUBSET (ChatConns \cup ChatLoops)]
    BY <1>1 DEF ChatTypes
  <2>2. \A c \in ChatConns : heard[c] \in Seq(Spoken) /\ Append(heard[c], <<b, n>>) \in Seq(Spoken)
    BY <1>1, ChatAt, AppendProperties DEF Spoken
  <2>3. heard' \in [ChatConns -> Seq(Spoken)]
    BY <1>5, <2>2
  <2> QED BY <1>1, <2>1, <2>3 DEF ChatTypes
<1>9. AdmittedInv' /\ ~dangling'
  BY <1>1 DEF ChatInv, AdmittedInv
<1>10. ASSUME NEW l \in ChatLoops PROVE LoopInv(l)'
  <2>1. LoopInv(l) /\ rest'[l] \subseteq rest[l]
    BY <1>7 DEF ChatInv
  <2> QED BY <1>1, <1>2, <2>1 DEF LoopInv, Has, LoopOf, SendOf, ShareOf
<1>11. ASSUME NEW c \in ChatConns PROVE ChatConnInv(c)'
  <2>1. ChatConnInv(c)
    BY DEF ChatInv
  <2>2. chatConn[c] \in {"new", "kDisconnecting"} => heard'[c] = <<>>
    BY <1>6, <2>1 DEF ChatConnInv
  <2> QED BY <1>1, <2>1, <2>2 DEF ChatConnInv, Has, InFrontOf, LoopOf, SendOf, EndingOf
<1>12. ASSUME NEW c \in ChatConns, NEW d \in ChatConns PROVE PairInv(c, d)'
  <2>1. /\ PairInv(c, d) /\ LoopOf(d) \in ChatLoops /\ LoopOf(c) \in ChatLoops
        /\ said[d] \in Nat /\ heard[c] \in Seq(Spoken)
        /\ queued[LoopOf(c)] \in Seq(ChatFunctors)
    BY <1>1, ChatNumbers, ChatAt DEF ChatInv
  <2>2. HearsWell(heard[c], d, said[d])
    BY <2>1 DEF PairInv
  <2>3. CASE d # b \/ LoopOf(c) # o
    <3>1. InHand(c, d)' = InHand(c, d)
      <4>1. CASE LoopOf(d) # o
        BY <1>1, <1>7, <2>1, <4>1 DEF InHand, LoopOf
      <4>2. CASE d # b /\ LoopOf(d) = o
        <5>1. saying[LoopOf(d)] # <<d, said[d]>>
          BY <1>3, <4>2
        <5> QED BY <1>1, <5>1 DEF InHand, LoopOf
      <4>3. CASE LoopOf(c) # o /\ LoopOf(d) = o
        <5>1. LoopOf(c) \in rest'[o] <=> LoopOf(c) \in rest[o]
          BY <1>7, <4>3
        <5>2. InHand(c, d)' <=> InHand(c, d)
          BY <1>1, <4>3, <5>1 DEF InHand, LoopOf
        <5> QED BY <5>2 DEF InHand
      <4> QED BY <2>3, <4>1, <4>2, <4>3
    <3>2. CASE heard'[c] = heard[c]
      BY <1>1, <2>1, <3>1, <3>2, PairSame
    <3>3. CASE heard'[c] = Append(heard[c], <<b, n>>) /\ d # b
      <4>1. <<b, n>> \in Spoken /\ <<b, n>>[1] # d
        BY <3>3 DEF Spoken
      <4>2. HearsWell(heard'[c], d, said[d])
        BY <2>1, <2>2, <3>3, <4>1, OtherHeard
      <4>3. ASSUME chatConn[c] \in {"new", "kConnected"}
            PROVE  HearsAll(hp, heard'[c], queued[LoopOf(c)], c, d, said[d], InHand(c, d),
                            chatConn[c], joined[c][d])
        <5>1. HearsAll(hp, heard[c], queued[LoopOf(c)], c, d, said[d], InHand(c, d),
                       chatConn[c], joined[c][d])
          BY <2>1, <4>3 DEF PairInv
        <5> QED BY <2>1, <2>2, <3>3, <4>1, <5>1, OtherHeardAll
      <4>4. HearsWell(heard[c], d, said[d])'
        BY <1>1, <4>2 DEF HearsWell
      <4>5. chatConn'[c] \in {"new", "kConnected"} =>
              HearsAll(hp, heard[c], queued[LoopOf(c)], c, d, said[d], InHand(c, d),
                       chatConn[c], joined[c][d])'
        BY <1>1, <3>1, <4>3 DEF HearsAll, Waits, LoopOf
      <4> QED BY <4>4, <4>5 DEF PairInv
    <3> QED BY <1>6, <2>3, <3>2, <3>3
  <2>4. CASE d = b /\ LoopOf(c) = o
    <3>1. InHand(c, d) = TRUE /\ InHand(c, d)' = FALSE
      <4>1. InHand(c, d)
        BY <1>1, <1>3, <1>4, <2>4 DEF InHand
      <4>2. (LoopOf(c))' = o /\ (LoopOf(d))' = o /\ o \notin rest'[o] /\ hp'
        BY <1>1, <1>4, <1>7, <2>4 DEF LoopOf
      <4>3. ~InHand(c, d)'
        BY <4>2 DEF InHand
      <4> QED BY <4>1, <4>3 DEF InHand
    <3>2. \A k \in Nat : ~Has(queued[LoopOf(c)], Carrier(hp, c, d, k))
      <4>1. \A k \in Nat : <<d, k>> \in Spoken /\ <<d, k>>[1] = d
        BY DEF Spoken
      <4>2. \A k \in Nat : ~Has(queued[o], ShareOf(<<d, k>>))
        BY <1>1, <1>4, <2>4, <4>1 DEF LoopInv
      <4> QED BY <1>1, <2>4, <4>2 DEF Carrier
    <3>3. ASSUME chatConn[c] \in {"new", "kConnected"}
          PROVE  HearsAll(hp, heard[c], queued[LoopOf(c)], c, d, said[d], TRUE,
                          chatConn[c], joined[c][d])
      BY <2>1, <3>1, <3>3 DEF PairInv
    <3>4. CASE chatConn[c] = "kConnected"
      <4>1. heard'[c] = Append(heard[c], <<d, said[d]>>)
        BY <1>4, <1>6, <2>4, <3>4
      <4>2. HearsAll(hp, heard[c], queued[LoopOf(c)], c, d, said[d], TRUE,
                     chatConn[c], joined[c][d])
        BY <3>3, <3>4
      <4>3. /\ HearsWell(Append(heard[c], <<d, said[d]>>), d, said[d])
            /\ HearsAll(hp, Append(heard[c], <<d, said[d]>>), queued[LoopOf(c)], c, d,
                        said[d], FALSE, chatConn[c], joined[c][d])
        BY <2>1, <2>2, <3>2, <4>2, InHandHeard
      <4>4. HearsWell(heard[c], d, said[d])'
        BY <1>1, <4>1, <4>3 DEF HearsWell
      <4>5. HearsAll(hp, heard[c], queued[LoopOf(c)], c, d, said[d], InHand(c, d),
                     chatConn[c], joined[c][d])'
        BY <1>1, <3>1, <4>1, <4>3 DEF HearsAll, Waits, LoopOf
      <4> QED BY <4>4, <4>5 DEF PairInv
    <3>5. CASE chatConn[c] # "kConnected"
      <4>1. heard'[c] = heard[c]
        BY <1>6, <3>5
      <4>2. HearsWell(heard[c], d, said[d])'
        BY <1>1, <2>2, <4>1 DEF HearsWell
      <4>3. ASSUME chatConn[c] = "new"
            PROVE  HearsAll(hp, heard[c], queued[LoopOf(c)], c, d, said[d], FALSE,
                            chatConn[c], joined[c][d])
        <5>1. heard[c] = <<>>
          BY <4>3 DEF ChatInv, ChatConnInv
        <5>2. HearsAll(hp, <<>>, queued[LoopOf(c)], c, d, said[d], FALSE, "new",
                       joined[c][d])
          BY <3>2, NothingHeard
        <5> QED BY <4>3, <5>1, <5>2
      <4>4. chatConn'[c] \in {"new", "kConnected"} =>
              HearsAll(hp, heard[c], queued[LoopOf(c)], c, d, said[d], InHand(c, d),
                       chatConn[c], joined[c][d])'
        BY <1>1, <3>1, <3>5, <4>1, <4>3 DEF HearsAll, Waits, LoopOf
      <4> QED BY <4>2, <4>4 DEF PairInv
    <3> QED BY <3>4, <3>5
  <2> QED BY <2>3, <2>4
<1> QED BY <1>8, <1>9, <1>10, <1>11, <1>12 DEF ChatInv

\* It queues its message in the other loop.
LEMMA HandOverKeeps ==
  ASSUME ChatInv, NEW o \in ChatLoops, NEW k \in ChatLoops, k # o, HandToNext(o, k)
  PROVE  ChatInv'
<1>1. /\ ChatTypes /\ LoopInv(o) /\ hp /\ k \in rest[o]
      /\ rest' = [rest EXCEPT ![o] = @ \ {k}]
      /\ queued' = [queued EXCEPT ![k] = Append(@, ShareOf(saying[o]))]
      /\ UNCHANGED <<hp, limit, chatConn, members, leaving, destroyed, said,
                     saying, copied, tested, heard, joined, sentLate, dangling>>
  BY DEF ChatInv, HandToNext, IsNext, Queue, ShareOf
<1>2. saying[o] # Silence
  BY <1>1 DEF LoopInv
<1>3. PICK b \in ChatConns, n \in Nat : saying[o] = <<b, n>>
  BY <1>1, <1>2, ChatAt DEF Spoken
<1>4. LoopOf(b) = o /\ n = said[b]
  BY <1>1, <1>2, <1>3 DEF LoopInv
<1>5. PICK f \in ChatFunctors : f = ShareOf(<<b, n>>)
  <2>1. ShareOf(<<b, n>>) \in ChatFunctors
    BY DEF ChatFunctors, Spoken
  <2> QED BY <2>1
<1>6. /\ queued'[k] = Append(queued[k], f)
      /\ \A l \in ChatLoops : l # k => queued'[l] = queued[l]
      /\ \A l \in ChatLoops : queued[l] \in Seq(ChatFunctors)
      /\ \A l \in ChatLoops : rest'[l] = IF l = o THEN rest[o] \ {k} ELSE rest[l]
  BY <1>1, <1>3, <1>5 DEF ChatTypes
<1>7. ChatTypes'
  <2>1. Append(queued[k], f) \in Seq(ChatFunctors)
    BY <1>6, AppendProperties
  <2>2. queued' \in [ChatLoops -> Seq(ChatFunctors)]
    BY <1>1, <1>3, <1>5, <2>1 DEF ChatTypes
  <2>3. rest' \in [ChatLoops -> SUBSET (ChatConns \cup ChatLoops)]
    BY <1>1 DEF ChatTypes
  <2> QED BY <1>1, <2>2, <2>3 DEF ChatTypes
<1>8. AdmittedInv' /\ ~dangling'
  BY <1>1 DEF ChatInv, AdmittedInv
<1>9. ASSUME NEW l \in ChatLoops, NEW e PROVE Has(queued'[l], e) <=> (Has(queued[l], e) \/ (l = k /\ e = f))
  <2>1. CASE l = k
    <3>1. /\ Has(Append(queued[k], f), e) <=> (Has(queued[k], e) \/ e = f)
          /\ Once(queued[k], e) /\ (f = e => ~Has(queued[k], e)) => Once(Append(queued[k], f), e)
      BY <1>6, AppendOnce
    <3> QED BY <1>6, <2>1, <3>1
  <2>2. CASE l # k
    BY <1>6, <2>2
  <2> QED BY <2>1, <2>2
<1>10. /\ \A c : f # EndingOf(c)
       /\ \A c, m : f # SendOf(c, m)
       /\ \A m : f = ShareOf(m) => m = <<b, n>>
  BY <1>5, FunctorsDiffer
<1>11. ASSUME NEW l \in ChatLoops PROVE LoopInv(l)'
  <2>1. LoopInv(l) /\ rest'[l] \subseteq rest[l]
    BY <1>6 DEF ChatInv
  <2>2. ASSUME NEW m \in Spoken, Has(queued'[l], ShareOf(m)) PROVE hp /\ LoopOf(m[1]) # l
    <3>1. CASE Has(queued[l], ShareOf(m))
      BY <2>1, <3>1 DEF LoopInv
    <3>2. CASE l = k /\ ShareOf(m) = f
      <4>1. m[1] = b
        BY <1>10, <3>2
      <4> QED BY <1>1, <1>4, <3>2, <4>1
    <3> QED BY <1>9, <2>2, <3>1, <3>2
  <2>3. \A c \in ChatConns, m \in Spoken :
          Has(queued'[l], SendOf(c, m)) =>
            ~hp /\ LoopOf(c) = l /\ LoopOf(m[1]) # l
            /\ chatConn[c] \notin {"new", "kDisconnecting"}
    BY <1>9, <1>10, <2>1 DEF LoopInv
  <2>4. /\ \A m : Has(queued[l], ShareOf(m))' = Has(queued'[l], ShareOf(m))
        /\ \A c, m : Has(queued[l], SendOf(c, m))' = Has(queued'[l], SendOf(c, m))
    BY DEF Has, SendOf, ShareOf
  <2> QED BY <1>1, <1>2, <2>1, <2>2, <2>3, <2>4 DEF LoopInv, LoopOf
<1>12. ASSUME NEW c \in ChatConns PROVE ChatConnInv(c)'
  <2>1. ChatConnInv(c) /\ LoopOf(c) \in ChatLoops
    BY ChatNumbers DEF ChatInv
  <2>2. \A l \in ChatLoops : Has(queued'[l], EndingOf(c)) =>
          l = LoopOf(c) /\ chatConn[c] = "kDisconnected"
    BY <1>9, <1>10, <2>1 DEF ChatConnInv
  <2>3. ASSUME c \notin sentLate, NEW m \in Spoken
        PROVE  /\ InFrontOf(queued'[LoopOf(c)], SendOf(c, m), EndingOf(c))
               /\ c \in destroyed => ~Has(queued'[LoopOf(c)], SendOf(c, m))
    <3>1. /\ InFrontOf(queued[LoopOf(c)], SendOf(c, m), EndingOf(c))
          /\ c \in destroyed => ~Has(queued[LoopOf(c)], SendOf(c, m))
      BY <2>1, <2>3 DEF ChatConnInv
    <3>2. CASE LoopOf(c) # k
      BY <1>6, <2>1, <3>1, <3>2
    <3>3. CASE LoopOf(c) = k
      <4>1. SendOf(c, m) # EndingOf(c)
        BY FunctorsDiffer
      <4>2. /\ Has(Append(queued[k], f), SendOf(c, m)) <=> (Has(queued[k], SendOf(c, m)) \/ SendOf(c, m) = f)
            /\ Once(queued[k], SendOf(c, m)) /\ (f = SendOf(c, m) => ~Has(queued[k], SendOf(c, m)))
                 => Once(Append(queued[k], f), SendOf(c, m))
            /\ InFrontOf(queued[k], SendOf(c, m), EndingOf(c))
                 /\ (f = SendOf(c, m) => ~Has(queued[k], EndingOf(c)))
                 /\ SendOf(c, m) # EndingOf(c) =>
                   InFrontOf(Append(queued[k], f), SendOf(c, m), EndingOf(c))
        BY <1>6, AppendHas
      <4> QED BY <1>6, <1>10, <3>1, <3>3, <4>1, <4>2
    <3> QED BY <3>2, <3>3
  <2>4. /\ \A l \in ChatLoops : Has(queued[l], EndingOf(c))' = Has(queued'[l], EndingOf(c))
        /\ \A m : /\ Has(queued[LoopOf(c)], SendOf(c, m))' = Has(queued'[LoopOf(c)], SendOf(c, m))
                  /\ InFrontOf(queued[LoopOf(c)], SendOf(c, m), EndingOf(c))' =
                       InFrontOf(queued'[LoopOf(c)], SendOf(c, m), EndingOf(c))
    BY DEF Has, InFrontOf, SendOf, EndingOf, LoopOf
  <2> QED BY <1>1, <2>1, <2>2, <2>3, <2>4 DEF ChatConnInv, LoopOf
<1>13. ASSUME NEW c \in ChatConns, NEW d \in ChatConns PROVE PairInv(c, d)'
  <2>1. /\ PairInv(c, d) /\ LoopOf(d) \in ChatLoops /\ LoopOf(c) \in ChatLoops
        /\ said[d] \in Nat
    BY <1>1, ChatNumbers, ChatAt DEF ChatInv
  <2>2. HearsWell(heard[c], d, said[d])'
    BY <1>1, <2>1 DEF PairInv, HearsWell
  <2>3. CASE LoopOf(c) = k /\ d = b
    <3>1. InHand(c, d) = TRUE /\ InHand(c, d)' = FALSE
      <4>1. InHand(c, d)
        BY <1>1, <1>3, <1>4, <2>3 DEF InHand
      <4>2. (LoopOf(c))' = k /\ (LoopOf(d))' = o /\ k \notin rest'[o] /\ hp'
        BY <1>1, <1>4, <1>6, <2>3 DEF LoopOf
      <4>3. ~InHand(c, d)'
        BY <4>2 DEF InHand
      <4> QED BY <4>1, <4>3 DEF InHand
    <3>2. ASSUME chatConn[c] \in {"new", "kConnected"}
          PROVE  HearsAll(hp, heard[c], queued'[LoopOf(c)], c, d, said[d], FALSE,
                          chatConn[c], joined[c][d])
      <4>1. HearsAll(hp, heard[c], queued[LoopOf(c)], c, d, said[d], TRUE,
                     chatConn[c], joined[c][d])
        BY <2>1, <3>1, <3>2 DEF PairInv
      <4>2. queued'[LoopOf(c)] = Append(queued[LoopOf(c)], Carrier(hp, c, d, said[d]))
        BY <1>1, <1>4, <1>5, <1>6, <2>3 DEF Carrier
      <4>3. queued[LoopOf(c)] \in Seq(ChatFunctors)
        BY <1>6, <2>1
      <4> QED BY <2>1, <4>1, <4>2, <4>3, InHandQueued
    <3>3. chatConn'[c] \in {"new", "kConnected"} =>
            HearsAll(hp, heard[c], queued[LoopOf(c)], c, d, said[d], InHand(c, d),
                     chatConn[c], joined[c][d])'
      BY <1>1, <3>1, <3>2 DEF HearsAll, Waits, LoopOf
    <3> QED BY <2>2, <3>3 DEF PairInv
  <2>4. CASE LoopOf(c) # k \/ d # b
    <3>1. InHand(c, d)' = InHand(c, d)
      <4>1. CASE LoopOf(d) # o
        BY <1>1, <1>6, <2>1, <4>1 DEF InHand, LoopOf
      <4>2. CASE d # b /\ LoopOf(d) = o
        <5>1. saying[LoopOf(d)] # <<d, said[d]>>
          BY <1>3, <4>2
        <5> QED BY <1>1, <5>1 DEF InHand, LoopOf
      <4>3. CASE LoopOf(c) # k /\ LoopOf(d) = o
        <5>1. LoopOf(c) \in rest'[o] <=> LoopOf(c) \in rest[o]
          BY <1>6, <4>3
        <5>2. InHand(c, d)' <=> InHand(c, d)
          BY <1>1, <4>3, <5>1 DEF InHand, LoopOf
        <5> QED BY <5>2 DEF InHand
      <4> QED BY <2>4, <4>1, <4>2, <4>3
    <3>2. ASSUME chatConn[c] \in {"new", "kConnected"}
          PROVE  HearsAll(hp, heard[c], queued'[LoopOf(c)], c, d, said[d], InHand(c, d),
                          chatConn[c], joined[c][d])
      <4>1. HearsAll(hp, heard[c], queued[LoopOf(c)], c, d, said[d], InHand(c, d),
                     chatConn[c], joined[c][d])
        BY <2>1, <3>2 DEF PairInv
      <4>2. CASE LoopOf(c) # k
        BY <1>6, <2>1, <4>1, <4>2
      <4>3. CASE LoopOf(c) = k
        <5>1. \A i \in Nat : f # Carrier(hp, c, d, i)
          <6>1. SUFFICES ASSUME NEW i \in Nat, f = ShareOf(<<d, i>>) PROVE FALSE
            BY <1>1 DEF Carrier
          <6>2. <<d, i>> = <<b, n>>
            BY <1>10, <6>1
          <6> QED BY <2>4, <4>3, <6>2
        <5> QED BY <1>6, <2>1, <4>1, <4>3, <5>1, OtherWaits
      <4> QED BY <4>2, <4>3
    <3>3. chatConn'[c] \in {"new", "kConnected"} =>
            HearsAll(hp, heard[c], queued[LoopOf(c)], c, d, said[d], InHand(c, d),
                     chatConn[c], joined[c][d])'
      BY <1>1, <3>1, <3>2 DEF HearsAll, Waits, LoopOf
    <3> QED BY <2>2, <3>3 DEF PairInv
  <2> QED BY <2>3, <2>4
<1> QED BY <1>7, <1>8, <1>11, <1>12, <1>13 DEF ChatInv

\* A connection hears the first that waits in its loop's queue.
LEMMA RunHeard ==
  ASSUME NEW share, NEW h \in Seq(Spoken), NEW q \in Seq(ChatFunctors), NEW c \in ChatConns,
         NEW d \in ChatConns, NEW s \in Nat, NEW p, NEW st, NEW since,
         NEW b \in ChatConns, NEW x \in Nat,
         HearsWell(h, d, s), HearsAll(share, h, q, c, d, s, p, st, since),
         q # <<>>, Head(q) = Carrier(share, c, b, x)
  PROVE  /\ HearsWell(Append(h, <<b, x>>), d, s)
         /\ HearsAll(share, Append(h, <<b, x>>), Tail(q), c, d, s, p, st, since)
<1>1. CASE d = b
  BY <1>1, QueuedHeard
<1>2. CASE d # b
  <2>1. <<b, x>> \in Spoken /\ <<b, x>>[1] # d
    BY <1>2 DEF Spoken
  <2>2. \A n \in Nat : Head(q) # Carrier(share, c, d, n)
    <3>1. SUFFICES ASSUME NEW n \in Nat, Carrier(share, c, b, x) = Carrier(share, c, d, n)
                   PROVE  FALSE
      OBVIOUS
    <3>2. <<b, x>> = <<d, n>>
      BY <3>1, FunctorsDiffer DEF Carrier
    <3> QED BY <1>2, <3>2
  <2>3. HearsWell(Append(h, <<b, x>>), d, s)
    BY <2>1, OtherHeard
  <2>4. HearsAll(share, Append(h, <<b, x>>), q, c, d, s, p, st, since)
    BY <2>1, OtherHeardAll
  <2>5. HearsAll(share, Append(h, <<b, x>>), Tail(q), c, d, s, p, st, since)
    BY <2>2, <2>4, OtherWaits
  <2> QED BY <2>3, <2>5
<1> QED BY <1>1, <1>2

\* What two connections need of the next state.
LEMMA PairNext ==
  ASSUME NEW c, NEW d, hp' = hp, said'[d] = said[d], InHand(c, d)' = InHand(c, d),
         chatConn'[c] = chatConn[c], joined'[c] = joined[c],
         HearsWell(heard'[c], d, said[d]),
         chatConn[c] \in {"new", "kConnected"} =>
           HearsAll(hp, heard'[c], queued'[LoopOf(c)], c, d, said[d], InHand(c, d),
                    chatConn[c], joined[c][d])
  PROVE  PairInv(c, d)'
BY DEF PairInv, HearsWell, HearsAll, Waits, LoopOf

\* A functor leaves its queue.
LEMMA FunctorRuns ==
  ASSUME ChatInv, NEW o \in ChatLoops, RunChatFunctor(o)
  PROVE  /\ queued[o] # <<>> /\ Head(queued[o]) \in ChatFunctors
         /\ Has(queued[o], Head(queued[o]))
         /\ UNCHANGED <<hp, limit, chatConn, members, leaving, said, saying, copied,
                        rest, tested, joined, sentLate>>
         /\ \A l \in ChatLoops :
              /\ queued'[l] = IF l = o THEN Tail(queued[o]) ELSE queued[l]
              /\ \A e : Has(queued'[l], e) => Has(queued[l], e)
              /\ \A e, g : InFrontOf(queued[l], e, g) => InFrontOf(queued'[l], e, g)
         /\ queued' \in [ChatLoops -> Seq(ChatFunctors)]
         /\ AdmittedInv' /\ \A l \in ChatLoops : LoopInv(l)'
         /\ \A c, d \in ChatConns : InHand(c, d)' = InHand(c, d)
<1>1. /\ ChatTypes /\ queued[o] # <<>>
      /\ queued' = [queued EXCEPT ![o] = Tail(@)]
      /\ UNCHANGED <<hp, limit, chatConn, members, leaving, said, saying, copied,
                     rest, tested, joined, sentLate>>
  BY DEF ChatInv, RunChatFunctor
<1>2. queued[o] \in Seq(ChatFunctors)
  BY <1>1, ChatAt
<1>3. Head(queued[o]) \in ChatFunctors /\ Tail(queued[o]) \in Seq(ChatFunctors)
  BY <1>1, <1>2, HeadTailProperties
<1>4. queued' \in [ChatLoops -> Seq(ChatFunctors)]
      /\ \A l \in ChatLoops : queued'[l] = IF l = o THEN Tail(queued[o]) ELSE queued[l]
  BY <1>1, <1>3 DEF ChatTypes
<1>5. \A e, g :
        /\ Has(Tail(queued[o]), e) => Has(queued[o], e)
        /\ Has(queued[o], e) /\ Head(queued[o]) # e => Has(Tail(queued[o]), e)
        /\ Once(queued[o], e) => Once(Tail(queued[o]), e)
        /\ Once(queued[o], e) /\ Head(queued[o]) = e => ~Has(Tail(queued[o]), e)
        /\ InFrontOf(queued[o], e, g) => InFrontOf(Tail(queued[o]), e, g)
        /\ InFrontOf(queued[o], e, g) /\ Head(queued[o]) = g => ~Has(queued[o], e)
        /\ Has(queued[o], Head(queued[o]))
  BY <1>1, <1>2, TailHas
<1>6. \A l \in ChatLoops :
        /\ \A e : Has(queued'[l], e) => Has(queued[l], e)
        /\ \A e, g : InFrontOf(queued[l], e, g) => InFrontOf(queued'[l], e, g)
  BY <1>4, <1>5
<1>7. AdmittedInv'
  BY <1>1 DEF ChatInv, AdmittedInv
<1>8. ASSUME NEW l \in ChatLoops PROVE LoopInv(l)'
  <2>1. LoopInv(l)
    BY DEF ChatInv
  <2>2. \A m \in Spoken : Has(queued'[l], ShareOf(m)) => hp /\ LoopOf(m[1]) # l
    BY <1>6, <2>1 DEF LoopInv
  <2>3. \A c \in ChatConns, m \in Spoken :
          Has(queued'[l], SendOf(c, m)) =>
            ~hp /\ LoopOf(c) = l /\ LoopOf(m[1]) # l
            /\ chatConn[c] \notin {"new", "kDisconnecting"}
    BY <1>6, <2>1 DEF LoopInv
  <2>4. /\ \A m : Has(queued[l], ShareOf(m))' = Has(queued'[l], ShareOf(m))
        /\ \A c, m : Has(queued[l], SendOf(c, m))' = Has(queued'[l], SendOf(c, m))
    BY DEF Has, SendOf, ShareOf
  <2> QED BY <1>1, <2>1, <2>2, <2>3, <2>4 DEF LoopInv, LoopOf
<1>9. \A c, d \in ChatConns : InHand(c, d)' = InHand(c, d)
  BY <1>1 DEF InHand, LoopOf
<1>10. Has(queued[o], Head(queued[o]))
  BY <1>5
<1> QED BY <1>1, <1>3, <1>4, <1>6, <1>7, <1>8, <1>9, <1>10

\* A connection whose destruction does not run.
LEMMA ConnStays ==
  ASSUME ChatInv, NEW o \in ChatLoops, RunChatFunctor(o), NEW c \in ChatConns,
         c \in destroyed' <=> c \in destroyed,
         chatConn[c] \in {"new", "kDisconnecting"} => heard'[c] = heard[c]
  PROVE  ChatConnInv(c)'
<1>1. ChatConnInv(c) /\ LoopOf(c) \in ChatLoops
  BY ChatNumbers DEF ChatInv
<1>2. /\ UNCHANGED <<hp, limit, chatConn, members, leaving, said, saying, copied,
                     rest, tested, joined, sentLate>>
      /\ \A l \in ChatLoops :
           /\ \A e : Has(queued'[l], e) => Has(queued[l], e)
           /\ \A e, g : InFrontOf(queued[l], e, g) => InFrontOf(queued'[l], e, g)
  BY FunctorRuns
<1>3. \A l \in ChatLoops :
        Has(queued'[l], EndingOf(c)) => l = LoopOf(c) /\ chatConn[c] = "kDisconnected"
  BY <1>1, <1>2 DEF ChatConnInv
<1>4. c \notin sentLate =>
        /\ \A m \in Spoken : InFrontOf(queued'[LoopOf(c)], SendOf(c, m), EndingOf(c))
        /\ c \in destroyed => \A m \in Spoken : ~Has(queued'[LoopOf(c)], SendOf(c, m))
  BY <1>1, <1>2 DEF ChatConnInv
<1>5. /\ \A l : Has(queued[l], EndingOf(c))' = Has(queued'[l], EndingOf(c))
      /\ \A m : /\ Has(queued[LoopOf(c)], SendOf(c, m))' = Has(queued'[LoopOf(c)], SendOf(c, m))
                /\ InFrontOf(queued[LoopOf(c)], SendOf(c, m), EndingOf(c))' =
                     InFrontOf(queued'[LoopOf(c)], SendOf(c, m), EndingOf(c))
  BY DEF Has, InFrontOf, SendOf, EndingOf, LoopOf
<1> QED BY <1>1, <1>2, <1>3, <1>4, <1>5 DEF ChatConnInv, LoopOf

\* sendInLoop() runs.
LEMMA RunSendKeeps ==
  ASSUME ChatInv, NEW o \in ChatLoops, RunChatFunctor(o),
         NEW a \in ChatConns, NEW m \in Spoken, Head(queued[o]) = SendOf(a, m)
  PROVE  ChatInv'
<1> DEFINE q == queued[o]
<1>1. /\ q # <<>> /\ Has(q, SendOf(a, m))
      /\ UNCHANGED <<hp, limit, chatConn, members, leaving, said, saying, copied,
                     rest, tested, joined, sentLate>>
      /\ \A l \in ChatLoops : queued'[l] = IF l = o THEN Tail(q) ELSE queued[l]
      /\ queued' \in [ChatLoops -> Seq(ChatFunctors)]
      /\ AdmittedInv' /\ \A l \in ChatLoops : LoopInv(l)'
      /\ \A c, d \in ChatConns : InHand(c, d)' = InHand(c, d)
  BY FunctorRuns
<1>2. ChatTypes /\ LoopInv(o) /\ ChatConnInv(a) /\ ~dangling
  BY DEF ChatInv
<1>3. ~hp /\ LoopOf(a) = o /\ chatConn[a] \notin {"new", "kDisconnecting"}
  BY <1>1, <1>2 DEF LoopInv
<1>4. /\ dangling' = (dangling \/ (Deleted(a) /\ a \notin sentLate))
      /\ heard' = [c \in ChatConns |->
                     IF c \in {d \in {a} : chatConn[d] # "kDisconnected"}
                       THEN Append(heard[c], m) ELSE heard[c]]
      /\ destroyed' = destroyed
  <2>1. /\ Head(queued[o]).type = "sendInLoop" /\ Head(queued[o]).conn = a
        /\ Head(queued[o]).msg = m
    BY DEF SendOf
  <2>2. /\ dangling' = (dangling \/ (Deleted(Head(queued[o]).conn)
                                     /\ Head(queued[o]).conn \notin sentLate))
        /\ SendOut({c \in {Head(queued[o]).conn} : chatConn[c] # "kDisconnected"},
                   Head(queued[o]).msg)
        /\ UNCHANGED destroyed
    BY <2>1 DEF RunChatFunctor
  <2> QED BY <2>1, <2>2 DEF SendOut
<1>5. \A c \in ChatConns :
        heard'[c] = IF c = a /\ chatConn[c] = "kConnected" THEN Append(heard[c], m) ELSE heard[c]
  BY <1>2, <1>3, <1>4, ChatAt
<1>6. ~dangling'
  <2>1. a \notin sentLate => a \notin destroyed
    BY <1>1, <1>2, <1>3 DEF ChatConnInv
  <2> QED BY <1>2, <1>4, <2>1 DEF Deleted
<1>7. ChatTypes'
  <2>1. \A c \in ChatConns : heard[c] \in Seq(Spoken) /\ Append(heard[c], m) \in Seq(Spoken)
    BY <1>2, ChatAt, AppendProperties
  <2>2. heard' \in [ChatConns -> Seq(Spoken)]
    BY <1>4, <2>1
  <2> QED BY <1>1, <1>2, <2>2 DEF ChatTypes
<1>8. ASSUME NEW c \in ChatConns PROVE ChatConnInv(c)'
  <2>1. chatConn[c] \in {"new", "kDisconnecting"} => heard'[c] = heard[c]
    BY <1>5
  <2> QED BY <1>4, <2>1, ConnStays
<1>9. PICK b \in ChatConns, x \in Nat : m = <<b, x>>
  BY DEF Spoken
<1>10. ASSUME NEW c \in ChatConns, NEW d \in ChatConns PROVE PairInv(c, d)'
  <2>1. /\ PairInv(c, d) /\ LoopOf(c) \in ChatLoops /\ said[d] \in Nat
        /\ heard[c] \in Seq(Spoken) /\ q \in Seq(ChatFunctors)
    BY <1>2, ChatNumbers, ChatAt DEF ChatInv
  <2>2. HearsWell(heard[c], d, said[d])
    BY <2>1 DEF PairInv
  <2>3. chatConn[c] \in {"new", "kConnected"} =>
          HearsAll(hp, heard[c], queued[LoopOf(c)], c, d, said[d], InHand(c, d),
                   chatConn[c], joined[c][d])
    BY <2>1 DEF PairInv
  <2>4. CASE c = a /\ chatConn[c] = "kConnected"
    <3>1. Head(q) = Carrier(hp, c, b, x)
      BY <1>3, <1>9, <2>4 DEF Carrier
    <3>2. HearsAll(hp, heard[c], q, c, d, said[d], InHand(c, d), chatConn[c], joined[c][d])
      BY <1>3, <2>3, <2>4
    <3>3. /\ HearsWell(Append(heard[c], <<b, x>>), d, said[d])
          /\ HearsAll(hp, Append(heard[c], <<b, x>>), Tail(q), c, d, said[d], InHand(c, d),
                      chatConn[c], joined[c][d])
      BY <1>1, <2>1, <2>2, <3>1, <3>2, RunHeard
    <3>4. heard'[c] = Append(heard[c], <<b, x>>) /\ queued'[LoopOf(c)] = Tail(q)
      BY <1>1, <1>3, <1>5, <1>9, <2>4
    <3>5. HearsWell(heard'[c], d, said[d])
      BY <3>3, <3>4
    <3>6. HearsAll(hp, heard'[c], queued'[LoopOf(c)], c, d, said[d], InHand(c, d),
                   chatConn[c], joined[c][d])
      BY <3>3, <3>4
    <3> QED BY <1>1, <3>5, <3>6, PairNext
  <2>5. CASE ~(c = a /\ chatConn[c] = "kConnected")
    <3>1. heard'[c] = heard[c]
      BY <1>5, <2>5
    <3>2. ASSUME chatConn[c] \in {"new", "kConnected"}
          PROVE  HearsAll(hp, heard[c], queued'[LoopOf(c)], c, d, said[d], InHand(c, d),
                          chatConn[c], joined[c][d])
      <4>1. CASE LoopOf(c) # o
        BY <1>1, <2>1, <2>3, <3>2, <4>1
      <4>2. CASE LoopOf(c) = o
        <5>1. c # a
          BY <1>3, <2>5, <3>2
        <5>2. \A n \in Nat : Head(q) # Carrier(hp, c, d, n)
          BY <1>3, <5>1, FunctorsDiffer DEF Carrier
        <5>3. HearsAll(hp, heard[c], q, c, d, said[d], InHand(c, d), chatConn[c], joined[c][d])
          BY <2>3, <3>2, <4>2
        <5>4. HearsAll(hp, heard[c], Tail(q), c, d, said[d], InHand(c, d), chatConn[c],
                       joined[c][d])
          BY <1>1, <2>1, <5>2, <5>3, OtherWaits
        <5>5. queued'[LoopOf(c)] = Tail(q)
          BY <1>1, <4>2
        <5> QED BY <5>4, <5>5
      <4> QED BY <4>1, <4>2
    <3>3. HearsWell(heard'[c], d, said[d])
      BY <2>2, <3>1
    <3>4. chatConn[c] \in {"new", "kConnected"} =>
            HearsAll(hp, heard'[c], queued'[LoopOf(c)], c, d, said[d], InHand(c, d),
                     chatConn[c], joined[c][d])
      BY <3>1, <3>2
    <3> QED BY <1>1, <3>3, <3>4, PairNext
  <2> QED BY <2>4, <2>5
<1> QED BY <1>1, <1>6, <1>7, <1>8, <1>10 DEF ChatInv

\* onDistributeMessage() runs.
LEMMA RunShareKeeps ==
  ASSUME ChatInv, NEW o \in ChatLoops, RunChatFunctor(o),
         NEW m \in Spoken, Head(queued[o]) = ShareOf(m)
  PROVE  ChatInv'
<1> DEFINE q == queued[o]
<1>1. /\ q # <<>> /\ Has(q, ShareOf(m))
      /\ UNCHANGED <<hp, limit, chatConn, members, leaving, said, saying, copied,
                     rest, tested, joined, sentLate>>
      /\ \A l \in ChatLoops : queued'[l] = IF l = o THEN Tail(q) ELSE queued[l]
      /\ queued' \in [ChatLoops -> Seq(ChatFunctors)]
      /\ AdmittedInv' /\ \A l \in ChatLoops : LoopInv(l)'
      /\ \A c, d \in ChatConns : InHand(c, d)' = InHand(c, d)
  BY FunctorRuns
<1>2. ChatTypes /\ LoopInv(o) /\ ~dangling
  BY DEF ChatInv
<1>3. hp
  BY <1>1, <1>2 DEF LoopInv
<1>4. /\ heard' = [c \in ChatConns |->
                     IF c \in {d \in members : LoopOf(d) = o /\ chatConn[d] = "kConnected"}
                       THEN Append(heard[c], m) ELSE heard[c]]
      /\ destroyed' = destroyed /\ dangling' = dangling
  <2>1. Head(queued[o]).type = "onDistributeMessage" /\ Head(queued[o]).msg = m
    BY DEF ShareOf
  <2>2. Distribute(o, Head(queued[o]).msg) /\ UNCHANGED <<destroyed, dangling>>
    BY <2>1 DEF RunChatFunctor
  <2> QED BY <2>1, <2>2 DEF Distribute, SendOut
<1>5. \A c \in ChatConns :
        heard'[c] = IF LoopOf(c) = o /\ chatConn[c] = "kConnected"
                      THEN Append(heard[c], m) ELSE heard[c]
  <2>1. \A c \in ChatConns : chatConn[c] = "kConnected" => c \in members
    BY DEF ChatInv, ChatConnInv
  <2> QED BY <1>4, <2>1
<1>6. ChatTypes'
  <2>1. \A c \in ChatConns : heard[c] \in Seq(Spoken) /\ Append(heard[c], m) \in Seq(Spoken)
    BY <1>2, ChatAt, AppendProperties
  <2>2. heard' \in [ChatConns -> Seq(Spoken)]
    BY <1>4, <2>1
  <2> QED BY <1>1, <1>2, <2>2 DEF ChatTypes
<1>7. ASSUME NEW c \in ChatConns PROVE ChatConnInv(c)'
  <2>1. chatConn[c] \in {"new", "kDisconnecting"} => heard'[c] = heard[c]
    BY <1>5
  <2> QED BY <1>4, <2>1, ConnStays
<1>8. PICK b \in ChatConns, x \in Nat : m = <<b, x>>
  BY DEF Spoken
<1>9. ASSUME NEW c \in ChatConns, NEW d \in ChatConns PROVE PairInv(c, d)'
  <2>1. /\ PairInv(c, d) /\ LoopOf(c) \in ChatLoops /\ said[d] \in Nat
        /\ heard[c] \in Seq(Spoken) /\ q \in Seq(ChatFunctors)
    BY <1>2, ChatNumbers, ChatAt DEF ChatInv
  <2>2. HearsWell(heard[c], d, said[d])
    BY <2>1 DEF PairInv
  <2>3. chatConn[c] \in {"new", "kConnected"} =>
          HearsAll(hp, heard[c], queued[LoopOf(c)], c, d, said[d], InHand(c, d),
                   chatConn[c], joined[c][d])
    BY <2>1 DEF PairInv
  <2>4. Head(q) = Carrier(hp, c, b, x)
    BY <1>3, <1>8 DEF Carrier
  <2>5. CASE LoopOf(c) = o /\ chatConn[c] = "kConnected"
    <3>1. HearsAll(hp, heard[c], q, c, d, said[d], InHand(c, d), chatConn[c], joined[c][d])
      BY <2>3, <2>5
    <3>2. /\ HearsWell(Append(heard[c], <<b, x>>), d, said[d])
          /\ HearsAll(hp, Append(heard[c], <<b, x>>), Tail(q), c, d, said[d], InHand(c, d),
                      chatConn[c], joined[c][d])
      BY <1>1, <2>1, <2>2, <2>4, <3>1, RunHeard
    <3>3. heard'[c] = Append(heard[c], <<b, x>>) /\ queued'[LoopOf(c)] = Tail(q)
      BY <1>1, <1>5, <1>8, <2>5
    <3>4. HearsWell(heard'[c], d, said[d])
      BY <3>2, <3>3
    <3>5. HearsAll(hp, heard'[c], queued'[LoopOf(c)], c, d, said[d], InHand(c, d),
                   chatConn[c], joined[c][d])
      BY <3>2, <3>3
    <3> QED BY <1>1, <3>4, <3>5, PairNext
  <2>6. CASE ~(LoopOf(c) = o /\ chatConn[c] = "kConnected")
    <3>1. heard'[c] = heard[c]
      BY <1>5, <2>6
    <3>2. ASSUME chatConn[c] \in {"new", "kConnected"}
          PROVE  HearsAll(hp, heard[c], queued'[LoopOf(c)], c, d, said[d], InHand(c, d),
                          chatConn[c], joined[c][d])
      <4>1. CASE LoopOf(c) # o
        BY <1>1, <2>1, <2>3, <3>2, <4>1
      <4>2. CASE LoopOf(c) = o
        <5>1. chatConn[c] = "new" /\ heard[c] = <<>>
          <6>1. chatConn[c] = "new"
            BY <2>6, <3>2, <4>2
          <6> QED BY <6>1 DEF ChatInv, ChatConnInv
        <5>2. HearsAll(hp, <<>>, q, c, d, said[d], InHand(c, d), "new", joined[c][d])
          BY <2>3, <4>2, <5>1
        <5>3. HearsAll(hp, <<>>, Tail(q), c, d, said[d], InHand(c, d), "new", joined[c][d])
          <6>1. CASE d = b
            BY <1>1, <2>1, <2>4, <5>2, <6>1, QueuedMissed
          <6>2. CASE d # b
            <7>1. \A n \in Nat : Head(q) # Carrier(hp, c, d, n)
              <8>1. SUFFICES ASSUME NEW n \in Nat, ShareOf(m) = ShareOf(<<d, n>>) PROVE FALSE
                BY <1>3 DEF Carrier
              <8>2. m = <<d, n>>
                BY <8>1, FunctorsDiffer
              <8> QED BY <1>8, <6>2, <8>2
            <7> QED BY <1>1, <2>1, <5>2, <7>1, OtherWaits
          <6> QED BY <6>1, <6>2
        <5>4. queued'[LoopOf(c)] = Tail(q)
          BY <1>1, <4>2
        <5> QED BY <5>1, <5>3, <5>4
      <4> QED BY <4>1, <4>2
    <3>3. HearsWell(heard'[c], d, said[d])
      BY <2>2, <3>1
    <3>4. chatConn[c] \in {"new", "kConnected"} =>
            HearsAll(hp, heard'[c], queued'[LoopOf(c)], c, d, said[d], InHand(c, d),
                     chatConn[c], joined[c][d])
      BY <3>1, <3>2
    <3> QED BY <1>1, <3>3, <3>4, PairNext
  <2> QED BY <2>5, <2>6
<1> QED BY <1>1, <1>2, <1>4, <1>6, <1>7, <1>9 DEF ChatInv

\* connectDestroyed() runs.
LEMMA RunEndingKeeps ==
  ASSUME ChatInv, NEW o \in ChatLoops, RunChatFunctor(o),
         NEW a \in ChatConns, Head(queued[o]) = EndingOf(a)
  PROVE  ChatInv'
<1> DEFINE q == queued[o]
<1>1. /\ q # <<>> /\ Has(q, EndingOf(a))
      /\ UNCHANGED <<hp, limit, chatConn, members, leaving, said, saying, copied,
                     rest, tested, joined, sentLate>>
      /\ \A l \in ChatLoops : queued'[l] = IF l = o THEN Tail(q) ELSE queued[l]
      /\ \A l \in ChatLoops :
           /\ \A e : Has(queued'[l], e) => Has(queued[l], e)
           /\ \A e, g : InFrontOf(queued[l], e, g) => InFrontOf(queued'[l], e, g)
      /\ queued' \in [ChatLoops -> Seq(ChatFunctors)]
      /\ AdmittedInv' /\ \A l \in ChatLoops : LoopInv(l)'
      /\ \A c, d \in ChatConns : InHand(c, d)' = InHand(c, d)
  BY FunctorRuns
<1>2. ChatTypes /\ ChatConnInv(a) /\ ~dangling
  BY DEF ChatInv
<1>3. LoopOf(a) = o /\ chatConn[a] = "kDisconnected"
  BY <1>1, <1>2 DEF ChatConnInv
<1>4. destroyed' = destroyed \cup {a} /\ heard' = heard /\ dangling' = dangling
  <2>1. Head(queued[o]).type = "connectDestroyed" /\ Head(queued[o]).conn = a
    BY DEF EndingOf
  <2>2. destroyed' = destroyed \cup {Head(queued[o]).conn} /\ UNCHANGED <<heard, dangling>>
    BY <2>1 DEF RunChatFunctor
  <2> QED BY <2>1, <2>2
<1>5. ChatTypes'
  BY <1>1, <1>2, <1>4 DEF ChatTypes
<1>6. ASSUME NEW c \in ChatConns PROVE ChatConnInv(c)'
  <2>1. CASE c # a
    BY <1>4, <2>1, ConnStays
  <2>2. CASE c = a
    <3>1. a \notin sentLate => \A m \in Spoken : ~Has(q, SendOf(a, m))
      <4>1. SUFFICES ASSUME a \notin sentLate, NEW m \in Spoken PROVE ~Has(q, SendOf(a, m))
        OBVIOUS
      <4>2. InFrontOf(q, SendOf(a, m), EndingOf(a))
        BY <1>2, <1>3, <4>1 DEF ChatConnInv
      <4>3. q \in Seq(ChatFunctors)
        BY <1>2, ChatAt
      <4>4. /\ Has(Tail(q), SendOf(a, m)) => Has(q, SendOf(a, m))
            /\ Has(q, SendOf(a, m)) /\ Head(q) # SendOf(a, m) => Has(Tail(q), SendOf(a, m))
            /\ Once(q, SendOf(a, m)) => Once(Tail(q), SendOf(a, m))
            /\ Once(q, SendOf(a, m)) /\ Head(q) = SendOf(a, m) => ~Has(Tail(q), SendOf(a, m))
            /\ InFrontOf(q, SendOf(a, m), EndingOf(a)) => InFrontOf(Tail(q), SendOf(a, m), EndingOf(a))
            /\ InFrontOf(q, SendOf(a, m), EndingOf(a)) /\ Head(q) = EndingOf(a) => ~Has(q, SendOf(a, m))
            /\ Has(q, Head(q))
        BY <1>1, <4>3, TailHas
      <4> QED BY <4>2, <4>4
    <3>2. a \notin sentLate =>
            /\ \A m \in Spoken : InFrontOf(queued'[o], SendOf(a, m), EndingOf(a))
            /\ \A m \in Spoken : ~Has(queued'[o], SendOf(a, m))
      BY <1>1, <1>2, <1>3, <3>1 DEF ChatConnInv
    <3>3. \A l \in ChatLoops : Has(queued'[l], EndingOf(a)) => l = o
      BY <1>1, <1>2, <1>3 DEF ChatConnInv
    <3>4. /\ \A l : Has(queued[l], EndingOf(a))' = Has(queued'[l], EndingOf(a))
          /\ (LoopOf(a))' = o
          /\ \A m : /\ Has(queued[LoopOf(a)], SendOf(a, m))' = Has(queued'[o], SendOf(a, m))
                    /\ InFrontOf(queued[LoopOf(a)], SendOf(a, m), EndingOf(a))' =
                         InFrontOf(queued'[o], SendOf(a, m), EndingOf(a))
      BY <1>3 DEF Has, InFrontOf, SendOf, EndingOf, LoopOf
    <3> QED BY <1>1, <1>2, <1>3, <1>4, <2>2, <3>2, <3>3, <3>4 DEF ChatConnInv
  <2> QED BY <2>1, <2>2
<1>7. ASSUME NEW c \in ChatConns, NEW d \in ChatConns PROVE PairInv(c, d)'
  <2>1. /\ PairInv(c, d) /\ LoopOf(c) \in ChatLoops /\ said[d] \in Nat
        /\ q \in Seq(ChatFunctors)
    BY <1>2, ChatNumbers, ChatAt DEF ChatInv
  <2>2. HearsWell(heard'[c], d, said[d])
    BY <1>4, <2>1 DEF PairInv
  <2>3. chatConn[c] \in {"new", "kConnected"} =>
          HearsAll(hp, heard[c], queued[LoopOf(c)], c, d, said[d], InHand(c, d),
                   chatConn[c], joined[c][d])
    BY <2>1 DEF PairInv
  <2>4. ASSUME chatConn[c] \in {"new", "kConnected"}
        PROVE  HearsAll(hp, heard'[c], queued'[LoopOf(c)], c, d, said[d], InHand(c, d),
                        chatConn[c], joined[c][d])
    <3>1. CASE LoopOf(c) # o
      BY <1>1, <1>4, <2>1, <2>3, <2>4, <3>1
    <3>2. CASE LoopOf(c) = o
      <4>1. \A n \in Nat : Head(q) # Carrier(hp, c, d, n)
        BY CarrierIs
      <4>2. HearsAll(hp, heard[c], q, c, d, said[d], InHand(c, d), chatConn[c], joined[c][d])
        BY <2>3, <2>4, <3>2
      <4>3. HearsAll(hp, heard[c], Tail(q), c, d, said[d], InHand(c, d), chatConn[c], joined[c][d])
        BY <1>1, <2>1, <4>1, <4>2, OtherWaits
      <4>4. queued'[LoopOf(c)] = Tail(q)
        BY <1>1, <3>2
      <4> QED BY <1>4, <4>3, <4>4
    <3> QED BY <3>1, <3>2
  <2> QED BY <1>1, <2>2, <2>4, PairNext
<1> QED BY <1>1, <1>2, <1>4, <1>5, <1>6, <1>7 DEF ChatInv

LEMMA ChatStarts == ChatInit => ChatInv
<1> SUFFICES ASSUME ChatInit PROVE ChatInv
  OBVIOUS
<1>1. /\ hp \in BOOLEAN /\ limit \in Limits
      /\ chatConn = [c \in ChatConns |-> "new"]
      /\ members = {} /\ leaving = {} /\ destroyed = {}
      /\ said = [c \in ChatConns |-> 0]
      /\ saying = [l \in ChatLoops |-> Silence]
      /\ copied = [l \in ChatLoops |-> {}] /\ rest = [l \in ChatLoops |-> {}]
      /\ tested = [l \in ChatLoops |-> NoOne] /\ queued = [l \in ChatLoops |-> <<>>]
      /\ heard = [c \in ChatConns |-> <<>>]
      /\ joined = [c \in ChatConns |-> said]
      /\ dangling = FALSE
  BY DEF ChatInit
<1>2. /\ \A c \in ChatConns : chatConn[c] = "new" /\ heard[c] = <<>> /\ said[c] = 0
      /\ \A l \in ChatLoops : saying[l] = Silence /\ rest[l] = {} /\ tested[l] = NoOne
                              /\ queued[l] = <<>>
  BY <1>1
<1>3. \A e : ~Has(<<>>, e) /\ \A g : InFrontOf(<<>>, e, g)
  BY DEF Has, InFrontOf
<1>4. ChatTypes
  <2>1. limit \in Nat /\ said \in [ChatConns -> Nat]
    BY <1>1, ChatNumbers
  <2>2. joined \in [ChatConns -> [ChatConns -> Nat]]
    BY <1>1, <2>1
  <2>3. <<>> \in Seq(ChatFunctors) /\ <<>> \in Seq(Spoken)
    OBVIOUS
  <2> QED BY <1>1, <2>1, <2>2, <2>3 DEF ChatTypes
<1>5. AdmittedInv
  <2>1. {c \in ChatConns : chatConn[c] = "kConnected"} = {}
    BY <1>2
  <2>2. Cardinality({}) = 0 /\ limit \in Nat
    BY <1>4, FS_EmptySet DEF ChatTypes
  <2> QED BY <2>1, <2>2 DEF AdmittedInv
<1>6. \A l \in ChatLoops : LoopInv(l)
  BY <1>2, <1>3 DEF LoopInv
<1>7. ASSUME NEW c \in ChatConns PROVE ChatConnInv(c)
  <2>1. LoopOf(c) \in ChatLoops /\ c # NoOne
    BY ChatNumbers DEF NoOne
  <2> QED BY <1>1, <1>2, <1>3, <2>1 DEF ChatConnInv
<1>8. ASSUME NEW c \in ChatConns, NEW d \in ChatConns PROVE PairInv(c, d)
  <2>1. LoopOf(c) \in ChatLoops /\ LoopOf(d) \in ChatLoops
    BY ChatNumbers
  <2>2. InHand(c, d) = FALSE
    <3>1. ~InHand(c, d)
      BY <1>2, <2>1 DEF InHand, Silence
    <3> QED BY <3>1 DEF InHand
  <2>3. HearsWell(<<>>, d, said[d])
        /\ HearsAll(hp, <<>>, <<>>, c, d, said[d], FALSE, "new", joined[c][d])
    BY <1>3, NothingHeard
  <2> QED BY <1>2, <2>1, <2>2, <2>3 DEF PairInv
<1> QED BY <1>1, <1>4, <1>5, <1>6, <1>7, <1>8 DEF ChatInv

LEMMA ChatSteps == ChatInv /\ [ChatNext]_chatVars => ChatInv'
<1> SUFFICES ASSUME ChatInv, [ChatNext]_chatVars PROVE ChatInv'
  OBVIOUS
<1>1. ASSUME NEW c \in ChatConns, ChatUp(c) PROVE ChatInv'
  BY <1>1, ChatUpKeeps
<1>2. ASSUME NEW c \in ChatConns, ChatDown(c) PROVE ChatInv'
  BY <1>2, ChatDownKeeps
<1>3. ASSUME NEW c \in ChatConns, ChatForget(c) PROVE ChatInv'
  BY <1>3, ChatForgetKeeps
<1>4. ASSUME NEW c \in ChatConns, Say(c) PROVE ChatInv'
  BY <1>4, SayKeeps
<1>5. ASSUME NEW l \in ChatLoops, SendElsewhere(l) PROVE ChatInv'
  BY <1>5, SendElsewhereKeeps
<1>6. ASSUME NEW l \in ChatLoops, SaidAll(l) PROVE ChatInv'
  BY <1>6, SaidAllKeeps
<1>7. ASSUME NEW l \in ChatLoops, RunChatFunctor(l) PROVE ChatInv'
  <2>1. Head(queued[l]) \in ChatFunctors
    BY <1>7, FunctorRuns
  <2>2. CASE \E c \in ChatConns, m \in Spoken : Head(queued[l]) = SendOf(c, m)
    BY <1>7, <2>2, RunSendKeeps
  <2>3. CASE \E m \in Spoken : Head(queued[l]) = ShareOf(m)
    BY <1>7, <2>3, RunShareKeeps
  <2>4. CASE \E c \in ChatConns : Head(queued[l]) = EndingOf(c)
    BY <1>7, <2>4, RunEndingKeeps
  <2> QED BY <2>1, <2>2, <2>3, <2>4 DEF ChatFunctors
<1>8. ASSUME NEW l \in ChatLoops, NEW c \in ChatConns, SendToNext(l, c) PROVE ChatInv'
  BY <1>8, SendToNextKeeps
<1>9. ASSUME NEW l \in ChatLoops, NEW k \in ChatLoops, HandToNext(l, k) PROVE ChatInv'
  <2>1. CASE k = l
    BY <1>9, <2>1, HandHereKeeps
  <2>2. CASE k # l
    BY <1>9, <2>2, HandOverKeeps
  <2> QED BY <2>1, <2>2
<1>10. ASSUME UNCHANGED chatVars PROVE ChatInv'
  <2>1. UNCHANGED <<hp, limit, chatConn, members, leaving, destroyed, said, saying,
                    copied, rest, tested, queued, heard, joined, sentLate, dangling>>
    BY <1>10 DEF chatVars
  <2>2. ChatTypes' /\ AdmittedInv' /\ ~dangling'
    BY <2>1 DEF ChatInv, ChatTypes, AdmittedInv
  <2>3. ASSUME NEW l \in ChatLoops PROVE LoopInv(l)'
    <3>1. LoopInv(l)
      BY DEF ChatInv
    <3> QED BY <2>1, <3>1 DEF LoopInv, Has, LoopOf, SendOf, ShareOf
  <2>4. ASSUME NEW c \in ChatConns PROVE ChatConnInv(c)'
    <3>1. ChatConnInv(c)
      BY DEF ChatInv
    <3> QED BY <2>1, <3>1 DEF ChatConnInv, Has, InFrontOf, LoopOf, SendOf, EndingOf
  <2>5. ASSUME NEW c \in ChatConns, NEW d \in ChatConns PROVE PairInv(c, d)'
    <3>1. PairInv(c, d) /\ InHand(c, d)' = InHand(c, d)
      BY <2>1 DEF ChatInv, InHand, LoopOf
    <3> QED BY <2>1, <3>1, PairSame
  <2> QED BY <2>2, <2>3, <2>4, <2>5 DEF ChatInv
<1> QED BY <1>1, <1>2, <1>3, <1>4, <1>5, <1>6, <1>7, <1>8, <1>9, <1>10 DEF ChatNext

\* The messages of one speaker are in the order they were said, and between two
\* of them are those said between them.
LEMMA HeardInOrder ==
  ASSUME NEW h \in Seq(Spoken), NEW d, NEW s, HearsWell(h, d, s),
         NEW j \in DOMAIN h, NEW k \in DOMAIN h, j < k, h[j][1] = d, h[k][1] = d
  PROVE  /\ h[j][2] \in Nat /\ h[k][2] \in Nat /\ h[j][2] < h[k][2]
         /\ \A i \in h[j][2] .. h[k][2] : Has(h, <<d, i>>)
<1>1. h[j] \in Spoken /\ h[k] \in Spoken
  OBVIOUS
<1>2. PICK n \in Nat : h[j] = <<d, n>>
  BY <1>1 DEF Spoken
<1>3. PICK m \in Nat : h[k] = <<d, m>>
  BY <1>1 DEF Spoken
<1>4. j \in Nat /\ k \in Nat
  OBVIOUS
<1>5. n # m
  <2>1. Once(h, <<d, n>>)
    BY DEF HearsWell
  <2> QED BY <1>2, <1>3, <1>4, <2>1 DEF Once
<1>6. ~(m < n)
  <2>1. SUFFICES ASSUME m < n PROVE FALSE
    OBVIOUS
  <2>2. InFrontOf(h, <<d, m>>, <<d, n>>)
    BY <2>1 DEF HearsWell
  <2>3. k < j
    BY <1>2, <1>3, <2>2 DEF InFrontOf
  <2> QED BY <1>4, <2>3
<1>7. Has(h, <<d, n>>) /\ Has(h, <<d, m>>)
  BY <1>2, <1>3 DEF Has
<1>8. ASSUME NEW i \in n .. m PROVE Has(h, <<d, i>>)
  <2>1. i = n \/ i = m \/ (n < i /\ i < m /\ i \in Nat)
    OBVIOUS
  <2>2. n < i /\ i < m /\ i \in Nat => Has(h, <<d, i>>)
    BY <1>7 DEF HearsWell
  <2> QED BY <1>7, <2>1, <2>2
<1>9. n < m
  BY <1>5, <1>6
<1> QED BY <1>2, <1>3, <1>8, <1>9

LEMMA ChatInvRight == ChatInv => ChatRight
<1> SUFFICES ASSUME ChatInv PROVE ChatRight
  OBVIOUS
<1> DEFINE hears(c, d) ==
             {heard[c][k][2] : k \in {j \in DOMAIN heard[c] : heard[c][j][1] = d}}
<1>1. /\ ChatTypes
      /\ \A c \in ChatConns : heard[c] \in Seq(Spoken)
  BY ChatAt DEF ChatInv
<1>2. ASSUME NEW c \in ChatConns, NEW d \in ChatConns, NEW i, Has(heard[c], <<d, i>>)
      PROVE  i \in hears(c, d)
  <2>1. PICK k \in DOMAIN heard[c] : heard[c][k] = <<d, i>>
    BY <1>2 DEF Has
  <2>2. heard[c][k][1] = d /\ heard[c][k][2] = i
    BY <2>1
  <2> QED BY <2>2
<1>3. ASSUME NEW c \in ChatConns, NEW j \in DOMAIN heard[c], NEW k \in DOMAIN heard[c],
             j < k, heard[c][j][1] = heard[c][k][1]
      PROVE  /\ heard[c][j][2] < heard[c][k][2]
             /\ heard[c][j][2]..heard[c][k][2] \subseteq hears(c, heard[c][k][1])
  <2>1. heard[c][k] \in Spoken
    BY <1>1
  <2>2. heard[c][k][1] \in ChatConns
    BY <2>1 DEF Spoken
  <2>3. PICK d \in ChatConns : d = heard[c][k][1]
    BY <2>2
  <2>4. HearsWell(heard[c], d, said[d])
    BY DEF ChatInv, PairInv
  <2>5. /\ heard[c][j][2] < heard[c][k][2]
        /\ \A i \in heard[c][j][2] .. heard[c][k][2] : Has(heard[c], <<d, i>>)
    BY <1>1, <1>3, <2>3, <2>4, HeardInOrder
  <2>6. \A i : Has(heard[c], <<d, i>>) => i \in hears(c, d)
    BY <1>2
  <2> QED
    <3> HIDE DEF hears
    <3> QED BY <2>3, <2>5, <2>6
<1>4. ASSUME NEW c \in ChatConns, NEW d \in ChatConns
      PROVE  hears(c, d) \subseteq 1 .. said[d]
  <2>1. HearsWell(heard[c], d, said[d]) /\ said[d] \in Nat
    BY <1>1, ChatAt DEF ChatInv, PairInv
  <2>2. SUFFICES ASSUME NEW k \in DOMAIN heard[c], heard[c][k][1] = d
                 PROVE  heard[c][k][2] \in 1 .. said[d]
    OBVIOUS
  <2>3. heard[c][k] \in Spoken
    BY <1>1
  <2>4. PICK n \in Nat : heard[c][k] = <<d, n>>
    BY <2>2, <2>3 DEF Spoken
  <2>5. Has(heard[c], <<d, n>>)
    BY <2>4 DEF Has
  <2>6. 1 <= n /\ n <= said[d]
    BY <2>1, <2>5 DEF HearsWell
  <2> QED BY <2>1, <2>4, <2>6
<1>5. ASSUME \A l \in ChatLoops : Free(l) /\ queued[l] = <<>>,
             NEW c \in ChatConns, chatConn[c] = "kConnected", NEW d \in ChatConns
      PROVE  joined[c][d] + 1..said[d] \subseteq hears(c, d)
  <2>1. LoopOf(c) \in ChatLoops /\ LoopOf(d) \in ChatLoops
        /\ said[d] \in Nat /\ joined[c][d] \in Nat
    BY <1>1, ChatNumbers, ChatAt
  <2>2. ~InHand(c, d)
    <3>1. saying[LoopOf(d)] = Silence
      BY <1>5, <2>1 DEF Free
    <3>2. <<d, said[d]>> # Silence
      BY DEF Silence
    <3> QED BY <3>1, <3>2 DEF InHand
  <2>3. HearsAll(hp, heard[c], <<>>, c, d, said[d], InHand(c, d), "kConnected", joined[c][d])
    BY <1>5, <2>1 DEF ChatInv, PairInv
  <2>4. \A i \in Nat : ~Waits(hp, <<>>, c, d, said[d], InHand(c, d), i)
    BY <2>2 DEF Waits, Has
  <2>5. \A i \in Nat : joined[c][d] < i /\ i <= said[d] => Has(heard[c], <<d, i>>)
    BY <2>3, <2>4 DEF HearsAll
  <2>6. SUFFICES ASSUME NEW i \in joined[c][d] + 1..said[d] PROVE i \in hears(c, d)
    OBVIOUS
  <2>7. i \in Nat /\ joined[c][d] < i /\ i <= said[d]
    BY <2>1
  <2> QED BY <1>2, <2>5, <2>7
<1>6. ~dangling /\ (~hp => Cardinality({c \in ChatConns : chatConn[c] = "kConnected"}) <= limit)
  BY DEF ChatInv, AdmittedInv
<1> QED BY <1>3, <1>4, <1>5, <1>6 DEF ChatRight

\* Theorem: of each speaker a client of the chat servers hears the messages one
\* after the other and leaves none out, in whichever loops the two are; when
\* nothing is under way it has heard all that was said since it came.  No more
\* are connected than are admitted, and a queued sendInLoop() finds its
\* connection unless that ended between the test and the push.
THEOREM ChatAlwaysRight == ChatSpec => []ChatRight
<1>1. ChatInit => ChatInv
  BY ChatStarts
<1>2. ChatInv /\ [ChatNext]_chatVars => ChatInv'
  BY ChatSteps
<1>3. ChatInv => ChatRight
  BY ChatInvRight
<1> QED BY <1>1, <1>2, <1>3, PTL DEF ChatSpec

-----------------------------------------------------------------------------
(* The programs in one specification: each takes its own steps, or none.   *)

LEMMA EachStarts ==
  Init => MuxInit /\ SocksInit /\ ChatInit /\ DownloadInit /\ SolverInit
BY DEF Init

LEMMA EachSteps ==
  [Next]_netVars =>
    /\ [MuxNext]_muxVars /\ [SocksNext]_socksVars /\ [ChatNext]_chatVars
    /\ [DownloadNext]_downloadVars /\ [SolverNext]_solverVars
<1> SUFFICES ASSUME [Next]_netVars
             PROVE  /\ [MuxNext]_muxVars /\ [SocksNext]_socksVars /\ [ChatNext]_chatVars
                    /\ [DownloadNext]_downloadVars /\ [SolverNext]_solverVars
  OBVIOUS
<1>1. CASE Next
  BY <1>1 DEF Next
<1>2. CASE UNCHANGED netVars
  BY <1>2 DEF netVars
<1> QED BY <1>1, <1>2

\* Theorem: the programs that run on the library do what they are for, each in
\* every state that Spec, the specification the runs check, can reach.
THEOREM ProgramsAlwaysRight == Spec => []ProgramsRight
<1>1. Spec => MuxSpec
  BY EachStarts, EachSteps, PTL DEF Spec, MuxSpec
<1>2. Spec => SocksSpec
  BY EachStarts, EachSteps, PTL DEF Spec, SocksSpec
<1>3. Spec => ChatSpec
  BY EachStarts, EachSteps, PTL DEF Spec, ChatSpec
<1>4. Spec => DownloadSpec
  BY EachStarts, EachSteps, PTL DEF Spec, DownloadSpec
<1>5. Spec => SolverSpec
  BY EachStarts, EachSteps, PTL DEF Spec, SolverSpec
<1>6. MuxRight /\ SocksRight /\ ChatRight /\ DownloadRight /\ SolverServes => ProgramsRight
  BY DEF ProgramsRight
<1> QED BY <1>1, <1>2, <1>3, <1>4, <1>5, <1>6, MuxAlwaysRight, SocksAlwaysRight,
           ChatAlwaysRight, DownloadAlwaysRight, SolverAlwaysServes, PTL
=============================================================================
