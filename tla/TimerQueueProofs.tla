-------------------------- MODULE TimerQueueProofs --------------------------
(***************************************************************************)
(* TLAPS proofs about TimerQueue, for any addresses, intervals, expirations *)
(* and bounds: both indexes agree and every raw Timer pointer is owned by  *)
(* exactly one of the indexes, the expired batch and the queued functors.  *)
(***************************************************************************)
EXTENDS TimerQueue, SequenceLemmas

\* No timer is queued twice by addTimer().
AddedOnce ==
  \A i, j \in DOMAIN pending :
    (pending[i].op = "add" /\ pending[j].op = "add"
       /\ pending[i].id = pending[j].id) => i = j

\* What makes IndexesAgree and PointersOwned inductive.
TimerInv ==
  /\ TypeOK
  /\ IndexesAgree
  /\ PointersOwned
  /\ AddedOnce
  /\ ~callingExpiredTimers => expired = {}

-----------------------------------------------------------------------------
(* The timers being added, as the functor queue changes.                   *)

\* Pushing an add adds its timer, pushing a cancel adds none.
LEMMA AddingAppend ==
  ASSUME pending \in Seq(Functors), NEW f \in Functors,
         pending' = Append(pending, f)
  PROVE  Adding' = Adding \cup (IF f.op = "add" THEN {f.id} ELSE {})
<1>1. /\ Len(pending) \in Nat
      /\ DOMAIN pending = 1 .. Len(pending)
      /\ DOMAIN pending' = 1 .. (Len(pending) + 1)
      /\ \A i \in 1 .. Len(pending) : pending'[i] = pending[i]
      /\ pending'[Len(pending) + 1] = f
  OBVIOUS
<1>2. ASSUME NEW id \in Adding'
      PROVE  id \in Adding \cup (IF f.op = "add" THEN {f.id} ELSE {})
  <2>1. PICK j \in DOMAIN pending' : pending'[j].op = "add" /\ pending'[j].id = id
    BY <1>2 DEF Adding
  <2> QED BY <1>1, <2>1 DEF Adding
<1>3. ASSUME NEW id \in Adding
      PROVE  id \in Adding'
  <2>1. PICK j \in DOMAIN pending : pending[j].op = "add" /\ pending[j].id = id
    BY <1>3 DEF Adding
  <2> QED BY <1>1, <2>1 DEF Adding
<1>4. f.op = "add" => f.id \in Adding'
  BY <1>1 DEF Adding
<1> QED BY <1>2, <1>3, <1>4

\* Running the oldest functor takes away its timer, if it is an add, and
\* leaves the others.
LEMMA AddingTail ==
  ASSUME pending \in Seq(Functors), pending # <<>>, AddedOnce,
         pending' = Tail(pending)
  PROVE  /\ AddedOnce'
         /\ Adding' \subseteq Adding
         /\ Head(pending).op = "add" =>
              Head(pending).id \in Adding /\ Head(pending).id \notin Adding'
<1>1. /\ Len(pending) \in Nat \ {0}
      /\ DOMAIN pending = 1 .. Len(pending)
      /\ DOMAIN pending' = 1 .. (Len(pending) - 1)
      /\ \A i \in 1 .. (Len(pending) - 1) : pending'[i] = pending[i + 1]
      /\ Head(pending) = pending[1]
  OBVIOUS
<1>2. AddedOnce'
  BY <1>1 DEF AddedOnce
<1>3. ASSUME NEW id \in Adding'
      PROVE  /\ id \in Adding
             /\ Head(pending).op = "add" => id # Head(pending).id
  <2>1. PICK j \in DOMAIN pending' : pending'[j].op = "add" /\ pending'[j].id = id
    BY <1>3 DEF Adding
  <2>2. /\ j + 1 \in DOMAIN pending /\ j + 1 # 1 /\ 1 \in DOMAIN pending
        /\ pending[j + 1].op = "add" /\ pending[j + 1].id = id
    BY <1>1, <2>1
  <2>3. id \in Adding
    BY <2>2 DEF Adding
  <2>4. Head(pending).op = "add" => id # Head(pending).id
    BY <1>1, <2>2 DEF AddedOnce
  <2> QED BY <2>3, <2>4
<1>4. Head(pending).op = "add" => Head(pending).id \in Adding
  BY <1>1 DEF Adding
<1> QED BY <1>2, <1>3, <1>4

-----------------------------------------------------------------------------
(* Type correctness.                                                       *)

\* A live timer's sequence number is a positive one that was handed out.
LEMMA LiveSequence ==
  ASSUME TypeOK, NEW a \in Addrs, Live(a)
  PROVE  heap[a].sequence \in 1 .. MaxCreated
<1>1. heap[a] \in Timers
  BY DEF TypeOK
<1>2. heap[a].sequence \in 0 .. MaxCreated /\ heap[a].sequence # 0
  BY <1>1 DEF Timers, Live
<1> QED BY <1>2, TimerAssumption

\* The head of the functor queue and what is left of it are well typed.
LEMMA PendingTypes ==
  ASSUME TypeOK, pending # <<>>
  PROVE  /\ Head(pending) \in Functors
         /\ Tail(pending) \in Seq(Functors)
         /\ Head(pending).id \in TimerIds
         /\ Head(pending).id = <<Head(pending).id[1], Head(pending).id[2]>>
<1>1. Head(pending) \in Functors /\ Tail(pending) \in Seq(Functors)
  BY HeadTailProperties DEF TypeOK
<1>2. Head(pending).id \in TimerIds
  BY <1>1 DEF Functors
<1> QED BY <1>1, <1>2 DEF TimerIds

\* howMuchTimeFromNow() is a positive delay.
LEMMA TicksUntilType ==
  ASSUME TypeOK, NEW when \in Nat
  PROVE  TicksUntil(when) \in Nat \ {0}
BY DEF TypeOK, TicksUntil

\* new Timer keeps the state it touches well typed.
LEMMA NewTimerType ==
  ASSUME TypeOK, NEW a \in Addrs, NEW when \in Expirations,
         NEW interval \in Intervals, NewTimer(a, when, interval)
  PROVE  /\ created' \in 0 .. MaxCreated
         /\ created + 1 \in 1 .. MaxCreated
         /\ when \in Nat
         /\ <<a, created + 1>> \in TimerIds
         /\ heap' \in [Addrs -> Timers]
         /\ ids' \subseteq TimerIds
         /\ periodic' \subseteq 1 .. MaxCreated
<1>1. created + 1 \in 1 .. MaxCreated /\ when \in Nat
  BY TimerAssumption DEF TypeOK, NewTimer
<1>2. [sequence |-> created + 1, expiration |-> when, interval |-> interval]
        \in Timers
  BY <1>1, TimerAssumption DEF Timers
<1>3. <<a, created + 1>> \in TimerIds
  BY <1>1 DEF TimerIds
<1>4. heap' \in [Addrs -> Timers]
  BY <1>2 DEF TypeOK, NewTimer
<1>5. ids' \subseteq TimerIds
  BY <1>3 DEF TypeOK, NewTimer
<1>6. periodic' \subseteq 1 .. MaxCreated /\ created' \in 0 .. MaxCreated
  BY <1>1 DEF TypeOK, NewTimer
<1> QED BY <1>1, <1>3, <1>4, <1>5, <1>6

\* cancelInLoop keeps the state it touches well typed.
LEMMA CancelInLoopType ==
  ASSUME TypeOK, NEW a \in Addrs, NEW sequence \in 1 .. MaxCreated,
         CancelInLoop(a, sequence)
  PROVE  /\ cancelled' \subseteq 1 .. MaxCreated
         /\ overtaken' \subseteq cancelled'
         /\ timers' \subseteq timers
         /\ activeTimers' \subseteq activeTimers
         /\ heap' \in [Addrs -> Timers]
         /\ cancelingTimers' \subseteq TimerIds
<1>1. NoTimer \in Timers
  BY TimerAssumption DEF NoTimer, Timers
<1>2. <<a, sequence>> \in TimerIds
  BY DEF TimerIds
<1>3. overtaken' \subseteq cancelled' /\ cancelled' \subseteq 1 .. MaxCreated
  BY DEF TypeOK, CancelInLoop
<1> QED BY <1>1, <1>2, <1>3 DEF TypeOK, CancelInLoop

\* Calls of user code keep the state well typed.
LEMMA UserCallTypeOK ==
  ASSUME TimerInv, UserCall
  PROVE  TypeOK'
<1> USE DEF TimerInv
<1>1. ASSUME NEW a \in Addrs, NEW when \in Expirations,
             NEW interval \in Intervals, AddTimer(a, when, interval)
      PROVE  TypeOK'
  <2>1. [op |-> "add", id |-> <<a, created + 1>>] \in Functors
    BY <1>1, NewTimerType DEF AddTimer, Functors
  <2>2. pending' \in Seq(Functors)
    BY <1>1, <2>1, AppendProperties DEF AddTimer, TypeOK
  <2> QED BY <1>1, <2>2, NewTimerType DEF AddTimer, TypeOK, loopVars
<1>2. ASSUME NEW a \in Addrs, NEW when \in Expirations,
             NEW interval \in Intervals, LoopAddTimer(a, when, interval)
      PROVE  TypeOK'
  <2>1. when \in Nat /\ <<a, created + 1>> \in TimerIds
    BY <1>2, NewTimerType DEF LoopAddTimer
  <2>2. /\ timers' \subseteq Nat \X Addrs
        /\ activeTimers' \subseteq TimerIds
    BY <1>2, <2>1 DEF LoopAddTimer, AddTimerInLoop, TypeOK
  <2>3. alarm' \in Nat \cup {Disarmed}
    BY <1>2, <2>1, TicksUntilType DEF LoopAddTimer, AddTimerInLoop, TypeOK
  <2> QED BY <1>2, <2>2, <2>3, NewTimerType DEF LoopAddTimer, TypeOK
<1>3. ASSUME NEW id \in ids, Cancel(id[1], id[2])
      PROVE  TypeOK'
  <2>1. [op |-> "cancel", id |-> <<id[1], id[2]>>] \in Functors
    BY <1>3 DEF Cancel, Functors, TypeOK, TimerIds
  <2>2. pending' \in Seq(Functors)
    BY <1>3, <2>1, AppendProperties DEF Cancel, TypeOK
  <2> QED BY <1>3, <2>2 DEF Cancel, TypeOK, loopVars
<1>4. ASSUME NEW id \in ids, LoopCancel(id[1], id[2])
      PROVE  TypeOK'
  <2>1. id[1] \in Addrs /\ id[2] \in 1 .. MaxCreated
    BY DEF TypeOK, TimerIds
  <2>2. CancelInLoop(id[1], id[2])
    BY <1>4 DEF LoopCancel
  <2> QED BY <1>4, <2>1, <2>2, CancelInLoopType DEF LoopCancel, TypeOK
<1> QED BY <1>1, <1>2, <1>3, <1>4 DEF UserCall

\* The steps of the loop thread and the clocks keep the state well typed.
LEMMA LoopStepTypeOK ==
  ASSUME TimerInv, LoopStep \/ Tick \/ StepBack
  PROVE  TypeOK'
<1> USE DEF TimerInv
<1>1. CASE PollTimerfd
  BY <1>1 DEF PollTimerfd, TypeOK, loopVars
<1>2. CASE HandleRead
  <2>1. Due(wall) \subseteq Addrs
    BY DEF Due
  <2> QED BY <1>2, <2>1 DEF HandleRead, TypeOK
<1>3. ASSUME NEW a \in Addrs, RunTimer(a)
      PROVE  TypeOK'
  <2>1. a \in expired
    BY <1>3 DEF RunTimer, TypeOK
  <2>2. heap[a].sequence \in 1 .. MaxCreated
    BY <2>1, LiveSequence DEF PointersOwned
  <2> QED BY <1>3, <2>2 DEF RunTimer, TypeOK
<1>4. CASE EndCallback
  BY <1>4 DEF EndCallback, TypeOK
<1>5. CASE Reset
  <2>1. ASSUME NEW a \in Restarted
        PROVE  /\ a \in Addrs
               /\ NextExpiration(a) \in Nat
               /\ <<a, heap[a].sequence>> \in TimerIds
    <3>1. a \in expired /\ a \in Addrs /\ heap[a] \in Timers
      BY <2>1 DEF Restarted, TypeOK
    <3>2. heap[a].sequence \in 1 .. MaxCreated
      BY <3>1, LiveSequence DEF PointersOwned
    <3>3. heap[a].interval \in Nat
      <4>1. heap[a].interval \in Intervals \cup {0}
        BY <3>1 DEF Timers
      <4>2. Intervals \cup {0} \subseteq Nat
        BY TimerAssumption
      <4> QED BY <4>1, <4>2, Zenon
    <3> QED BY <3>1, <3>2, <3>3 DEF NextExpiration, TypeOK, TimerIds
  <2>2. timers' \subseteq Nat \X Addrs /\ activeTimers' \subseteq TimerIds
    <3>1. ASSUME NEW a \in Restarted
          PROVE  <<NextExpiration(a), a>> \in Nat \X Addrs
      BY <2>1
    <3>2. /\ timers' = timers \cup {<<NextExpiration(a), a>> : a \in Restarted}
          /\ activeTimers' =
               activeTimers \cup {<<a, heap[a].sequence>> : a \in Restarted}
      BY <1>5 DEF Reset
    <3>3. timers \subseteq Nat \X Addrs /\ activeTimers \subseteq TimerIds
      BY DEF TypeOK
    <3>4. timers' \subseteq Nat \X Addrs
      BY <3>1, <3>2, <3>3, Zenon
    <3>5. activeTimers' \subseteq TimerIds
      BY <2>1, <3>2, <3>3, Zenon
    <3> QED BY <3>4, <3>5
  <2>3. ASSUME NEW a \in Addrs
        PROVE  /\ NoTimer \in Timers
               /\ heap[a] \in Timers
               /\ a \in Restarted =>
                    [heap[a] EXCEPT !.expiration = NextExpiration(a)] \in Timers
    <3>1. NoTimer \in Timers
      BY TimerAssumption DEF NoTimer, Timers
    <3>2. heap[a] \in Timers
      BY DEF TypeOK
    <3>3. ASSUME NEW n \in Nat
          PROVE  [heap[a] EXCEPT !.expiration = n] \in Timers
      BY <3>2 DEF Timers
    <3> QED BY <2>1, <3>1, <3>2, <3>3
  <2>4. heap' \in [Addrs -> Timers]
    BY <1>5, <2>3 DEF Reset
  <2>5. alarm' \in Nat \cup {Disarmed}
    <3>1. CASE UNCHANGED alarm
      BY <3>1 DEF TypeOK
    <3>2. ASSUME NEW first \in timers', alarm' = TicksUntil(first[1])
          PROVE  alarm' \in Nat \cup {Disarmed}
      <4>1. first[1] \in Nat
        BY <2>2
      <4> QED BY <3>2, <4>1, TicksUntilType
    <3> QED BY <1>5, <3>1, <3>2 DEF Reset, Rearm
  <2> QED BY <1>5, <2>2, <2>4, <2>5 DEF Reset, TypeOK
<1>6. CASE RunFunctor
  <2> DEFINE a == Head(pending).id[1]
             sequence == Head(pending).id[2]
  <2>1. /\ Tail(pending) \in Seq(Functors)
        /\ a \in Addrs /\ sequence \in 1 .. MaxCreated
        /\ <<a, sequence>> \in TimerIds
    BY <1>6, PendingTypes DEF RunFunctor, TimerIds
  <2>2. heap[a].expiration \in Nat
    BY <2>1 DEF TypeOK, Timers
  <2>3. CASE AddTimerInLoop(a, heap[a].expiration, sequence)
             /\ UNCHANGED <<heap, cancelingTimers, cancelled, overtaken>>
    <3>1. /\ timers' \subseteq Nat \X Addrs
          /\ activeTimers' \subseteq TimerIds
      <4>1. /\ timers' = timers \cup {<<heap[a].expiration, a>>}
            /\ activeTimers' = activeTimers \cup {<<a, sequence>>}
        BY <2>3 DEF AddTimerInLoop
      <4>2. <<heap[a].expiration, a>> \in Nat \X Addrs
        BY <2>1, <2>2
      <4>3. timers \subseteq Nat \X Addrs /\ activeTimers \subseteq TimerIds
        BY DEF TypeOK
      <4> QED BY <2>1, <4>1, <4>2, <4>3, Zenon
    <3>2. alarm' \in Nat \cup {Disarmed}
      BY <2>2, <2>3, TicksUntilType DEF AddTimerInLoop, TypeOK
    <3> QED BY <1>6, <2>1, <2>3, <3>1, <3>2 DEF RunFunctor, TypeOK
  <2>4. CASE CancelInLoop(a, sequence) /\ UNCHANGED alarm
    <3>1. /\ cancelled' \subseteq 1 .. MaxCreated
          /\ overtaken' \subseteq cancelled'
          /\ timers' \subseteq timers
          /\ activeTimers' \subseteq activeTimers
          /\ heap' \in [Addrs -> Timers]
          /\ cancelingTimers' \subseteq TimerIds
      BY <2>1, <2>4, CancelInLoopType
    <3> QED BY <1>6, <2>1, <2>4, <3>1 DEF RunFunctor, TypeOK
  <2> QED BY <1>6, <2>3, <2>4 DEF RunFunctor
<1>7. CASE Tick
  BY <1>7 DEF Tick, TypeOK, loopVars, Disarmed
<1>8. CASE StepBack
  BY <1>8 DEF StepBack, TypeOK, loopVars
<1> QED
  BY <1>1, <1>2, <1>3, <1>4, <1>5, <1>6, <1>7, <1>8 DEF LoopStep, ReadStep

-----------------------------------------------------------------------------
(* The indexes agree and every pointer has one owner.                      *)

\* What the indexes and the functors hold are pairs.
LEMMA Pairs ==
  ASSUME TypeOK
  PROVE  /\ \A entry \in timers :
              entry[1] \in Nat /\ entry[2] \in Addrs
                /\ entry = <<entry[1], entry[2]>>
         /\ \A id \in activeTimers :
              id[1] \in Addrs /\ id[2] \in 1 .. MaxCreated
                /\ id = <<id[1], id[2]>>
         /\ \A id \in Adding :
              id[1] \in Addrs /\ id[2] \in 1 .. MaxCreated
                /\ id = <<id[1], id[2]>>
<1>1. \A entry \in timers :
        entry[1] \in Nat /\ entry[2] \in Addrs /\ entry = <<entry[1], entry[2]>>
  BY DEF TypeOK
<1>2. \A id \in TimerIds :
        id[1] \in Addrs /\ id[2] \in 1 .. MaxCreated /\ id = <<id[1], id[2]>>
  BY DEF TimerIds
<1>3. Adding \subseteq TimerIds
  <2>1. \A i \in DOMAIN pending : pending[i] \in Functors
    BY DEF TypeOK
  <2> QED BY <2>1 DEF Adding, Functors
<1> QED BY <1>1, <1>2, <1>3 DEF TypeOK

\* new Timer at a free address touches no timer that anything points to.
LEMMA NewTimerInv ==
  ASSUME TimerInv, NEW a \in Addrs, NEW when \in Expirations,
         NEW interval \in Intervals, NewTimer(a, when, interval)
  PROVE  /\ \A entry \in timers : entry[2] # a
         /\ \A id \in activeTimers \cup Adding : id[1] # a
         /\ a \notin expired
         /\ heap'[a].sequence = created + 1
         /\ heap'[a].expiration = when
         /\ created + 1 # 0
         /\ \A b \in Addrs \ {a} : heap'[b] = heap[b]
<1>1. heap[a].sequence = 0
  BY DEF NewTimer, Live
<1>2. ASSUME NEW id \in activeTimers \cup Adding
      PROVE  id[1] # a
  <2>1. id[2] \in 1 .. MaxCreated
    BY Pairs DEF TimerInv
  <2>2. heap[id[1]].sequence = id[2]
    BY DEF TimerInv, IndexesAgree, PointersOwned
  <2> QED BY <1>1, <2>1, <2>2
<1>3. (\A entry \in timers : entry[2] # a) /\ a \notin expired
  BY <1>1 DEF TimerInv, IndexesAgree, PointersOwned, Live
<1>4. heap \in [Addrs -> Timers] /\ created \in Nat
  BY DEF TimerInv, TypeOK
<1> QED BY <1>2, <1>3, <1>4 DEF NewTimer

\* addTimer() on another thread hands the new timer to the queued functor.
LEMMA AddTimerInv ==
  ASSUME TimerInv, NEW a \in Addrs, NEW when \in Expirations,
         NEW interval \in Intervals, AddTimer(a, when, interval)
  PROVE  IndexesAgree' /\ PointersOwned' /\ AddedOnce'
<1> DEFINE id0 == <<a, created + 1>>
           f0 == [op |-> "add", id |-> id0]
<1>1. NewTimer(a, when, interval)
  BY DEF AddTimer
<1>2. /\ pending' = Append(pending, f0) /\ f0 \in Functors
      /\ pending \in Seq(Functors)
  BY <1>1, NewTimerType DEF AddTimer, Functors, TimerInv, TypeOK
<1>3. Adding' = Adding \cup {id0}
  BY <1>2, AddingAppend
<1>4. UNCHANGED <<timers, activeTimers, expired>>
  BY DEF AddTimer, loopVars
<1>5. IndexesAgree'
  BY <1>1, <1>4, NewTimerInv, Pairs DEF TimerInv, IndexesAgree, Live
<1>6. ASSUME NEW b \in expired'
      PROVE  Live(b)' /\ <<b, heap'[b].sequence>> \notin activeTimers'
  <2>1. b \in expired /\ b # a /\ b \in Addrs
    BY <1>1, <1>4, <1>6, NewTimerInv DEF TimerInv, TypeOK
  <2> QED BY <1>1, <1>4, <2>1, NewTimerInv DEF TimerInv, PointersOwned, Live
<1>7. ASSUME NEW id \in Adding'
      PROVE  /\ heap'[id[1]].sequence = id[2]
             /\ id \notin activeTimers'
             /\ id[1] \notin expired'
  <2>1. CASE id \in Adding
    BY <1>1, <1>4, <2>1, NewTimerInv, Pairs DEF TimerInv, PointersOwned
  <2>2. CASE id = id0
    BY <1>1, <1>4, <2>2, NewTimerInv
  <2> QED BY <1>3, <1>7, <2>1, <2>2
<1>8. PointersOwned'
  BY <1>6, <1>7 DEF PointersOwned
<1>9. AddedOnce'
  <2>1. \A i \in DOMAIN pending : pending[i].op = "add" => pending[i].id # id0
    <3>1. ASSUME NEW i \in DOMAIN pending, pending[i].op = "add"
          PROVE  pending[i].id # id0
      <4>1. pending[i].id \in Adding
        BY <3>1 DEF Adding
      <4> QED BY <1>1, <4>1, NewTimerInv
    <3> QED BY <3>1
  <2>2. /\ Len(pending) \in Nat
        /\ DOMAIN pending = 1 .. Len(pending)
        /\ DOMAIN pending' = 1 .. (Len(pending) + 1)
        /\ \A i \in 1 .. Len(pending) : pending'[i] = pending[i]
        /\ pending'[Len(pending) + 1].id = id0
    BY <1>2
  <2> QED BY <2>1, <2>2 DEF TimerInv, AddedOnce
<1> QED BY <1>5, <1>8, <1>9

\* addTimer() on the loop thread puts the new timer into both indexes.
LEMMA LoopAddTimerInv ==
  ASSUME TimerInv, NEW a \in Addrs, NEW when \in Expirations,
         NEW interval \in Intervals, LoopAddTimer(a, when, interval)
  PROVE  IndexesAgree' /\ PointersOwned' /\ AddedOnce'
<1>1. NewTimer(a, when, interval)
  BY DEF LoopAddTimer
<1>2. /\ timers' = timers \cup {<<when, a>>}
      /\ activeTimers' = activeTimers \cup {<<a, created + 1>>}
      /\ UNCHANGED <<pending, expired>>
  BY DEF LoopAddTimer, AddTimerInLoop
<1>3. Adding' = Adding /\ AddedOnce'
  BY <1>2 DEF Adding, AddedOnce, TimerInv
<1>4. IndexesAgree'
  <2>1. ASSUME NEW entry \in timers'
        PROVE  /\ Live(entry[2])'
               /\ heap'[entry[2]].expiration = entry[1]
               /\ <<entry[2], heap'[entry[2]].sequence>> \in activeTimers'
    <3>1. CASE entry \in timers
      BY <1>1, <1>2, <3>1, NewTimerInv, Pairs DEF TimerInv, IndexesAgree, Live
    <3>2. CASE entry = <<when, a>>
      BY <1>1, <1>2, <3>2, NewTimerInv DEF Live
    <3> QED BY <1>2, <2>1, <3>1, <3>2
  <2>2. ASSUME NEW id \in activeTimers'
        PROVE  /\ heap'[id[1]].sequence = id[2]
               /\ <<heap'[id[1]].expiration, id[1]>> \in timers'
    <3>1. CASE id \in activeTimers
      BY <1>1, <1>2, <3>1, NewTimerInv, Pairs DEF TimerInv, IndexesAgree
    <3>2. CASE id = <<a, created + 1>>
      BY <1>1, <1>2, <3>2, NewTimerInv
    <3> QED BY <1>2, <2>2, <3>1, <3>2
  <2> QED BY <2>1, <2>2 DEF IndexesAgree
<1>5. PointersOwned'
  <2>1. ASSUME NEW b \in expired'
        PROVE  Live(b)' /\ <<b, heap'[b].sequence>> \notin activeTimers'
    <3>1. b \in expired /\ b # a /\ b \in Addrs
      BY <1>1, <1>2, <2>1, NewTimerInv DEF TimerInv, TypeOK
    <3> QED BY <1>1, <1>2, <3>1, NewTimerInv DEF TimerInv, PointersOwned, Live
  <2>2. ASSUME NEW id \in Adding'
        PROVE  /\ heap'[id[1]].sequence = id[2]
               /\ id \notin activeTimers'
               /\ id[1] \notin expired'
    BY <1>1, <1>2, <1>3, <2>2, NewTimerInv, Pairs DEF TimerInv, PointersOwned
  <2> QED BY <2>1, <2>2 DEF PointersOwned
<1> QED BY <1>3, <1>4, <1>5

\* cancelInLoop deletes only a timer that the indexes own.
LEMMA CancelInLoopInv ==
  ASSUME TimerInv, NEW a \in Addrs, NEW sequence \in 1 .. MaxCreated,
         CancelInLoop(a, sequence), UNCHANGED expired, Adding' \subseteq Adding
  PROVE  IndexesAgree' /\ PointersOwned'
<1>1. CASE <<a, sequence>> \notin activeTimers
  <2>1. UNCHANGED <<timers, activeTimers, heap>>
    BY <1>1 DEF CancelInLoop
  <2> QED BY <2>1 DEF TimerInv, IndexesAgree, PointersOwned, Live
<1>2. CASE <<a, sequence>> \in activeTimers
  <2>1. heap[a].sequence = sequence
    BY <1>2 DEF TimerInv, IndexesAgree
  <2>2. /\ timers' = timers \ {<<heap[a].expiration, a>>}
        /\ activeTimers' = activeTimers \ {<<a, sequence>>}
        /\ \A b \in Addrs \ {a} : heap'[b] = heap[b]
    BY <1>2 DEF CancelInLoop, TimerInv, TypeOK
  <2>3. ASSUME NEW entry \in timers'
        PROVE  entry \in timers /\ entry[2] # a
    <3>1. entry \in timers /\ entry # <<heap[a].expiration, a>>
      BY <2>2
    <3>2. entry = <<entry[1], entry[2]>>
      BY <3>1, Pairs DEF TimerInv
    <3>3. heap[entry[2]].expiration = entry[1]
      BY <3>1 DEF TimerInv, IndexesAgree
    <3> QED BY <3>1, <3>2, <3>3
  <2>4. ASSUME NEW id \in activeTimers'
        PROVE  id \in activeTimers /\ id[1] # a
    <3>1. id \in activeTimers /\ id # <<a, sequence>>
      BY <2>2
    <3>2. id = <<id[1], id[2]>> /\ heap[id[1]].sequence = id[2]
      BY <3>1, Pairs DEF TimerInv, IndexesAgree
    <3> QED BY <2>1, <3>1, <3>2
  <2>5. IndexesAgree'
    BY <2>2, <2>3, <2>4, Pairs DEF TimerInv, IndexesAgree, Live
  <2>6. a \notin expired
    BY <1>2, <2>1 DEF TimerInv, PointersOwned
  <2>7. \A id \in Adding : id[1] # a
    BY <1>2, <2>1, Pairs DEF TimerInv, PointersOwned
  <2>8. expired \subseteq Addrs
    BY DEF TimerInv, TypeOK
  <2>9. PointersOwned'
    BY <2>2, <2>4, <2>6, <2>7, <2>8, Pairs DEF TimerInv, PointersOwned, Live
  <2> QED BY <2>5, <2>9
<1> QED BY <1>1, <1>2

\* getExpired() moves the due timers from both indexes into the batch.
LEMMA HandleReadInv ==
  ASSUME TimerInv, HandleRead
  PROVE  IndexesAgree' /\ PointersOwned'
<1> DEFINE D == Due(wall)
<1>1. /\ expired' = D
      /\ timers' = {entry \in timers : entry[1] > wall}
      /\ activeTimers' =
           {id \in activeTimers : ~(id[1] \in D /\ heap[id[1]].sequence = id[2])}
      /\ UNCHANGED <<heap, pending>>
  BY DEF HandleRead
<1>2. wall \in Nat
  BY DEF TimerInv, TypeOK
<1>3. ASSUME NEW a \in D
      PROVE  /\ a \in Addrs
             /\ <<heap[a].expiration, a>> \in timers
             /\ heap[a].expiration \in 0 .. wall
  <2>1. PICK when \in 0 .. wall : <<when, a>> \in timers
    BY DEF Due
  <2>2. heap[a].expiration = when
    BY <2>1 DEF TimerInv, IndexesAgree
  <2> QED BY <2>1, <2>2 DEF Due
<1>4. ASSUME NEW entry \in timers'
      PROVE  entry \in timers /\ entry[2] \notin D
  <2>1. entry \in timers /\ entry[1] > wall /\ heap[entry[2]].expiration = entry[1]
    BY <1>1 DEF TimerInv, IndexesAgree
  <2>2. entry[1] \in Nat
    BY <2>1, Pairs DEF TimerInv
  <2>3. ASSUME entry[2] \in D
        PROVE  FALSE
    <3>1. heap[entry[2]].expiration \in 0 .. wall
      BY <1>3, <2>3
    <3> QED BY <1>2, <2>1, <2>2, <3>1
  <2> QED BY <2>1, <2>3
<1>5. ASSUME NEW id \in activeTimers'
      PROVE  id \in activeTimers /\ id[1] \notin D
  BY <1>1 DEF TimerInv, IndexesAgree
<1>6. IndexesAgree'
  <2>1. ASSUME NEW entry \in timers'
        PROVE  /\ Live(entry[2])'
               /\ heap'[entry[2]].expiration = entry[1]
               /\ <<entry[2], heap'[entry[2]].sequence>> \in activeTimers'
    <3>1. /\ Live(entry[2]) /\ heap[entry[2]].expiration = entry[1]
          /\ <<entry[2], heap[entry[2]].sequence>> \in activeTimers
      BY <1>4 DEF TimerInv, IndexesAgree
    <3> QED BY <1>1, <1>4, <3>1 DEF Live
  <2>2. ASSUME NEW id \in activeTimers'
        PROVE  /\ heap'[id[1]].sequence = id[2]
               /\ <<heap'[id[1]].expiration, id[1]>> \in timers'
    <3>1. /\ heap[id[1]].sequence = id[2]
          /\ <<heap[id[1]].expiration, id[1]>> \in timers
          /\ id[1] \in Addrs /\ heap[id[1]].expiration \in Nat
      BY <1>5, Pairs DEF TimerInv, IndexesAgree, TypeOK, Timers
    <3>2. heap[id[1]].expiration \notin 0 .. wall
      BY <1>5, <3>1 DEF Due
    <3> QED BY <1>1, <1>2, <3>1, <3>2
  <2> QED BY <2>1, <2>2 DEF IndexesAgree
<1>7. Adding' = Adding
  BY <1>1 DEF Adding
<1>8. PointersOwned'
  <2>1. ASSUME NEW a \in expired'
        PROVE  Live(a)' /\ <<a, heap'[a].sequence>> \notin activeTimers'
    <3>1. a \in D /\ Live(a)
      BY <1>1, <1>3 DEF TimerInv, IndexesAgree
    <3> QED BY <1>1, <1>5, <3>1 DEF Live
  <2>2. ASSUME NEW id \in Adding'
        PROVE  /\ heap'[id[1]].sequence = id[2]
               /\ id \notin activeTimers'
               /\ id[1] \notin expired'
    <3>1. /\ heap[id[1]].sequence = id[2] /\ id \notin activeTimers
          /\ id = <<id[1], id[2]>>
      BY <1>7, Pairs DEF TimerInv, PointersOwned
    <3>2. id[1] \notin D
      BY <1>3, <3>1 DEF TimerInv, IndexesAgree
    <3> QED BY <1>1, <3>1, <3>2
  <2> QED BY <2>1, <2>2 DEF PointersOwned
<1> QED BY <1>6, <1>8

\* reset() gives each timer of the batch back to both indexes or deletes it.
LEMMA ResetInv ==
  ASSUME TimerInv, Reset
  PROVE  IndexesAgree' /\ PointersOwned'
<1>1. /\ expired' = {}
      /\ timers' = timers \cup {<<NextExpiration(a), a>> : a \in Restarted}
      /\ activeTimers' =
           activeTimers \cup {<<a, heap[a].sequence>> : a \in Restarted}
      /\ UNCHANGED pending
  BY DEF Reset
<1>2. Restarted \subseteq expired /\ expired \subseteq Addrs
  BY DEF Restarted, TimerInv, TypeOK
<1>3. ASSUME NEW a \in Restarted
      PROVE  /\ heap'[a].expiration = NextExpiration(a)
             /\ heap'[a].sequence = heap[a].sequence
             /\ Live(a)
  <2>1. a \in expired /\ a \in Addrs /\ heap[a] \in Timers
    BY <1>2 DEF TimerInv, TypeOK
  <2>2. heap'[a] = [heap[a] EXCEPT !.expiration = NextExpiration(a)]
    BY <2>1 DEF Reset
  <2> QED BY <2>1, <2>2 DEF Timers, TimerInv, PointersOwned
<1>4. \A a \in Addrs \ expired : heap'[a] = heap[a]
  BY <1>2 DEF Reset
<1>5. ASSUME NEW entry \in timers
      PROVE  entry[2] \in Addrs \ expired
  BY Pairs DEF TimerInv, IndexesAgree, PointersOwned
<1>6. ASSUME NEW id \in activeTimers
      PROVE  id[1] \in Addrs \ expired
  <2>1. id[1] \in Addrs /\ id = <<id[1], heap[id[1]].sequence>>
    BY Pairs DEF TimerInv, IndexesAgree
  <2> QED BY <2>1 DEF TimerInv, PointersOwned
<1>7. IndexesAgree'
  <2>1. ASSUME NEW entry \in timers'
        PROVE  /\ Live(entry[2])'
               /\ heap'[entry[2]].expiration = entry[1]
               /\ <<entry[2], heap'[entry[2]].sequence>> \in activeTimers'
    <3>1. CASE entry \in timers
      BY <1>1, <1>4, <1>5, <3>1 DEF TimerInv, IndexesAgree, Live
    <3>2. ASSUME NEW a \in Restarted, entry = <<NextExpiration(a), a>>
          PROVE  /\ Live(entry[2])'
                 /\ heap'[entry[2]].expiration = entry[1]
                 /\ <<entry[2], heap'[entry[2]].sequence>> \in activeTimers'
      BY <1>1, <1>3, <3>2 DEF Live
    <3> QED BY <1>1, <2>1, <3>1, <3>2
  <2>2. ASSUME NEW id \in activeTimers'
        PROVE  /\ heap'[id[1]].sequence = id[2]
               /\ <<heap'[id[1]].expiration, id[1]>> \in timers'
    <3>1. CASE id \in activeTimers
      BY <1>1, <1>4, <1>6, <3>1 DEF TimerInv, IndexesAgree
    <3>2. ASSUME NEW a \in Restarted, id = <<a, heap[a].sequence>>
          PROVE  /\ heap'[id[1]].sequence = id[2]
                 /\ <<heap'[id[1]].expiration, id[1]>> \in timers'
      BY <1>1, <1>3, <3>2
    <3> QED BY <1>1, <2>2, <3>1, <3>2
  <2> QED BY <2>1, <2>2 DEF IndexesAgree
<1>8. Adding' = Adding
  BY <1>1 DEF Adding
<1>9. PointersOwned'
  <2>1. ASSUME NEW id \in Adding'
        PROVE  /\ heap'[id[1]].sequence = id[2]
               /\ id \notin activeTimers'
               /\ id[1] \notin expired'
    <3>1. /\ id[1] \in Addrs \ expired
          /\ heap[id[1]].sequence = id[2] /\ id \notin activeTimers
      BY <1>8, Pairs DEF TimerInv, PointersOwned
    <3>2. \A a \in Restarted : id # <<a, heap[a].sequence>>
      BY <1>2, <3>1
    <3>3. id \notin activeTimers'
      BY <1>1, <3>1, <3>2
    <3> QED BY <1>1, <1>4, <3>1, <3>3
  <2> QED BY <1>1, <2>1 DEF PointersOwned
<1> QED BY <1>7, <1>9

\* A queued addTimerInLoop finds its timer alive and in no index; a queued
\* cancelInLoop does what an inline one does.
LEMMA RunFunctorInv ==
  ASSUME TimerInv, RunFunctor
  PROVE  IndexesAgree' /\ PointersOwned' /\ AddedOnce'
<1> DEFINE a == Head(pending).id[1]
           sequence == Head(pending).id[2]
<1>1. /\ pending # <<>> /\ pending \in Seq(Functors) /\ pending' = Tail(pending)
      /\ expired = {} /\ expired' = {}
      /\ a \in Addrs /\ sequence \in 1 .. MaxCreated
      /\ Head(pending).id = <<a, sequence>>
  BY PendingTypes DEF RunFunctor, TimerInv, TypeOK, TimerIds
<1>2. /\ AddedOnce'
      /\ Adding' \subseteq Adding
      /\ Head(pending).op = "add" =>
           <<a, sequence>> \in Adding /\ <<a, sequence>> \notin Adding'
  BY <1>1, AddingTail DEF TimerInv
<1>3. CASE Head(pending).op = "cancel" /\ CancelInLoop(a, sequence)
  <2>1. UNCHANGED expired
    BY <1>1
  <2> QED BY <1>1, <1>2, <1>3, <2>1, CancelInLoopInv
<1>4. CASE /\ Head(pending).op = "add"
           /\ AddTimerInLoop(a, heap[a].expiration, sequence)
           /\ UNCHANGED heap
  <2>1. /\ heap[a].sequence = sequence
        /\ <<a, sequence>> \notin activeTimers
        /\ sequence # 0
    BY <1>1, <1>2, <1>4 DEF TimerInv, PointersOwned
  <2>2. /\ timers' = timers \cup {<<heap[a].expiration, a>>}
        /\ activeTimers' = activeTimers \cup {<<a, sequence>>}
    BY <1>4 DEF AddTimerInLoop
  <2>3. IndexesAgree'
    BY <1>4, <2>1, <2>2 DEF TimerInv, IndexesAgree, Live
  <2>4. ASSUME NEW id \in Adding'
        PROVE  /\ heap'[id[1]].sequence = id[2]
               /\ id \notin activeTimers'
               /\ id[1] \notin expired'
    <3>1. id \in Adding /\ id # <<a, sequence>>
      BY <1>2, <1>4
    <3> QED BY <1>1, <1>4, <2>2, <3>1 DEF TimerInv, PointersOwned
  <2>5. PointersOwned'
    BY <1>1, <2>4 DEF PointersOwned
  <2> QED BY <1>2, <2>3, <2>5
<1> QED BY <1>3, <1>4 DEF RunFunctor

-----------------------------------------------------------------------------
(* The theorems.                                                           *)

\* The constructor establishes the invariant.
LEMMA InitTimerInv == Init => TimerInv
<1> SUFFICES ASSUME Init PROVE TimerInv
  OBVIOUS
<1>1. NoTimer \in Timers
  BY TimerAssumption DEF NoTimer, Timers
<1>2. <<>> \in Seq(Functors) /\ DOMAIN pending = {}
  BY DEF Init
<1>3. TypeOK
  <2>1. heap \in [Addrs -> Timers]
    BY <1>1 DEF Init
  <2>2. wall \in Nat /\ readTime \in Nat /\ created \in 0 .. MaxCreated
    BY TimerAssumption DEF Init
  <2>3. alarm \in Nat \cup {Disarmed}
    BY DEF Init
  <2>4. /\ reported \in BOOLEAN /\ callingExpiredTimers \in BOOLEAN
        /\ inCallback \in BOOLEAN
    BY DEF Init
  <2>5. /\ timers = {} /\ activeTimers = {} /\ cancelingTimers = {}
        /\ expired = {} /\ unrun = {} /\ ids = {} /\ periodic = {}
        /\ ran = {} /\ cancelled = {} /\ overtaken = {}
    BY DEF Init
  <2> QED BY <1>2, <2>1, <2>2, <2>3, <2>4, <2>5 DEF TypeOK
<1>4. Adding = {} /\ AddedOnce
  BY <1>2 DEF Adding, AddedOnce
<1>5. IndexesAgree /\ PointersOwned
  BY <1>4 DEF Init, IndexesAgree, PointersOwned
<1> QED BY <1>3, <1>4, <1>5 DEF Init, TimerInv

\* Steps that leave the indexes, the heap and the functors alone.
LEMMA OtherInv ==
  ASSUME TimerInv,
         UNCHANGED <<heap, timers, activeTimers, expired, pending>>
  PROVE  IndexesAgree' /\ PointersOwned' /\ AddedOnce'
<1>1. Adding' = Adding
  BY DEF Adding
<1> QED BY <1>1 DEF TimerInv, IndexesAgree, PointersOwned, AddedOnce, Live

\* Every step keeps the invariant.
LEMMA NextTimerInv ==
  ASSUME TimerInv, [Next]_vars
  PROVE  TimerInv'
<1>1. TypeOK'
  <2>1. CASE UNCHANGED vars
    BY <2>1 DEF TimerInv, TypeOK, vars, loopVars
  <2> QED BY <2>1, UserCallTypeOK, LoopStepTypeOK DEF Next
<1>2. ~callingExpiredTimers' => expired' = {}
  BY DEF TimerInv, Next, LoopStep, ReadStep, UserCall, PollTimerfd, HandleRead,
         RunTimer, EndCallback, Reset, RunFunctor, AddTimer, LoopAddTimer,
         Cancel, LoopCancel, Tick, StepBack, vars, loopVars
<1>3. IndexesAgree' /\ PointersOwned' /\ AddedOnce'
  <2>1. CASE HandleRead
    <3>1. AddedOnce'
      BY <2>1 DEF HandleRead, TimerInv, AddedOnce
    <3> QED BY <2>1, <3>1, HandleReadInv
  <2>2. CASE Reset
    <3>1. AddedOnce'
      BY <2>2 DEF Reset, TimerInv, AddedOnce
    <3> QED BY <2>2, <3>1, ResetInv
  <2>3. CASE RunFunctor
    BY <2>3, RunFunctorInv
  <2>4. ASSUME NEW b \in Addrs, NEW when \in Expirations,
               NEW interval \in Intervals,
               AddTimer(b, when, interval) \/ LoopAddTimer(b, when, interval)
        PROVE  IndexesAgree' /\ PointersOwned' /\ AddedOnce'
    BY <2>4, AddTimerInv, LoopAddTimerInv
  <2>5. ASSUME NEW id \in ids, LoopCancel(id[1], id[2])
        PROVE  IndexesAgree' /\ PointersOwned' /\ AddedOnce'
    <3>1. id[1] \in Addrs /\ id[2] \in 1 .. MaxCreated
      BY DEF TimerInv, TypeOK, TimerIds
    <3>2. CancelInLoop(id[1], id[2]) /\ UNCHANGED <<expired, pending>>
      BY <2>5 DEF LoopCancel
    <3>3. Adding' = Adding /\ AddedOnce'
      BY <3>2 DEF Adding, TimerInv, AddedOnce
    <3> QED BY <3>1, <3>2, <3>3, CancelInLoopInv
  <2>6. ASSUME NEW id \in ids, Cancel(id[1], id[2])
        PROVE  IndexesAgree' /\ PointersOwned' /\ AddedOnce'
    <3> DEFINE f == [op |-> "cancel", id |-> <<id[1], id[2]>>]
    <3>1. /\ pending' = Append(pending, f) /\ f \in Functors
          /\ pending \in Seq(Functors)
          /\ UNCHANGED <<heap, timers, activeTimers, expired>>
      BY <2>6 DEF Cancel, Functors, TimerInv, TypeOK, TimerIds, loopVars
    <3>2. Adding' = Adding
      BY <3>1, AddingAppend
    <3>3. /\ DOMAIN pending' = 1 .. (Len(pending) + 1)
          /\ DOMAIN pending = 1 .. Len(pending) /\ Len(pending) \in Nat
          /\ \A i \in 1 .. Len(pending) : pending'[i] = pending[i]
          /\ pending'[Len(pending) + 1].op = "cancel"
      BY <3>1
    <3>4. AddedOnce'
      BY <3>3 DEF TimerInv, AddedOnce
    <3> QED BY <3>1, <3>2, <3>4 DEF TimerInv, IndexesAgree, PointersOwned, Live
  <2>7. CASE \/ PollTimerfd \/ (\E b \in Addrs : RunTimer(b)) \/ EndCallback
             \/ Tick \/ StepBack \/ UNCHANGED vars
    <3>1. UNCHANGED <<heap, timers, activeTimers, expired, pending>>
      BY <2>7 DEF PollTimerfd, RunTimer, EndCallback, Tick, StepBack, vars, loopVars
    <3> QED BY <3>1, OtherInv
  <2> QED
    BY <2>1, <2>2, <2>3, <2>4, <2>5, <2>6, <2>7
       DEF Next, LoopStep, ReadStep, UserCall
<1> QED BY <1>1, <1>2, <1>3 DEF TimerInv

\* The state of the queue, of its timers and of its callers stays well typed:
\* a timer that is called is a live one with a sequence number of its own.
THEOREM TimersTyped == Spec => []TypeOK
<1>1. TimerInv => TypeOK
  BY DEF TimerInv
<1> QED BY <1>1, InitTimerInv, NextTimerInv, PTL DEF Spec

\* timers_ and activeTimers_ hold the same timers at their current expirations,
\* so that every erase() in cancelInLoop and getExpired finds its entry.
THEOREM IndexesAlwaysAgree == Spec => []IndexesAgree
<1>1. TimerInv => IndexesAgree
  BY DEF TimerInv
<1> QED BY <1>1, InitTimerInv, NextTimerInv, PTL DEF Spec

\* A timer that handleRead() is calling or a queued addTimerInLoop points to
\* is alive and owned by nothing else, so that no delete leaves a dangling
\* pointer and none comes twice.
THEOREM PointersAlwaysOwned == Spec => []PointersOwned
<1>1. TimerInv => PointersOwned
  BY DEF TimerInv
<1> QED BY <1>1, InitTimerInv, NextTimerInv, PTL DEF Spec

-----------------------------------------------------------------------------
(* The timerfd.                                                            *)

\* What makes TimerfdArmed inductive: a timer at the invalid Timestamp, which
\* reset() arms nothing for, was due at once when it was added.
AlarmInv ==
  /\ TimerfdArmed
  /\ \A entry \in timers : entry[1] = 0 => alarm \in 0 .. 1

\* An earlier expiration gives no longer a delay.
LEMMA TicksUntilMonotone ==
  ASSUME TypeOK, NEW u \in Nat, NEW v \in Nat, u <= v
  PROVE  TicksUntil(u) \in Nat /\ 1 <= TicksUntil(u)
         /\ TicksUntil(u) <= TicksUntil(v) /\ TicksUntil(0) = 1
BY DEF TypeOK, TicksUntil

\* addTimerInLoop arms the timerfd for a new earliest timer; any other one is
\* behind a timer that the timerfd is set for.
LEMMA AddAlarm ==
  ASSUME TimerInv, AlarmInv, NEW a \in Addrs, NEW when \in Nat, NEW sequence,
         AddTimerInLoop(a, when, sequence),
         UNCHANGED <<wall, callingExpiredTimers>>
  PROVE  AlarmInv'
<1>1. /\ timers' = timers \cup {<<when, a>>}
      /\ alarm' = IF IsEarliest(when, timers) THEN TicksUntil(when) ELSE alarm
  BY DEF AddTimerInLoop
<1>2. \A v : TicksUntil(v)' = TicksUntil(v)
  BY DEF TicksUntil
<1>3. TypeOK /\ \A entry \in timers : entry[1] \in Nat
  BY Pairs DEF TimerInv
<1>4. CASE IsEarliest(when, timers)
  <2>1. ASSUME NEW entry \in timers'
        PROVE  alarm' \in 0 .. TicksUntil(entry[1]) /\ when <= entry[1]
               /\ entry[1] \in Nat
    <3>1. entry[1] \in Nat /\ when <= entry[1]
      BY <1>1, <1>3, <1>4 DEF IsEarliest
    <3> QED BY <1>1, <1>3, <1>4, <3>1, TicksUntilMonotone
  <2>2. when = 0 => alarm' = 1
    BY <1>1, <1>3, <1>4, TicksUntilMonotone
  <2> QED BY <1>2, <2>1, <2>2 DEF AlarmInv, TimerfdArmed
<1>5. CASE ~IsEarliest(when, timers)
  <2>1. PICK first \in timers : first[1] \in Nat /\ first[1] <= when
    BY <1>3, <1>5 DEF IsEarliest
  <2>2. alarm' = alarm
    BY <1>1, <1>5
  <2>3. ASSUME ~callingExpiredTimers, NEW entry \in timers'
        PROVE  alarm \in 0 .. TicksUntil(entry[1])
    <3>1. CASE entry \in timers
      BY <2>3, <3>1 DEF AlarmInv, TimerfdArmed
    <3>2. CASE entry = <<when, a>>
      <4>1. alarm \in 0 .. TicksUntil(first[1])
        BY <2>1, <2>3 DEF AlarmInv, TimerfdArmed
      <4>2. TicksUntil(first[1]) \in Nat /\ TicksUntil(when) \in Nat
            /\ TicksUntil(first[1]) <= TicksUntil(when)
        BY <1>3, <2>1, TicksUntilMonotone
      <4> QED BY <3>2, <4>1, <4>2
    <3> QED BY <1>1, <2>3, <3>1, <3>2
  <2>4. ASSUME NEW entry \in timers', entry[1] = 0
        PROVE  alarm \in 0 .. 1
    BY <1>1, <2>1, <2>4 DEF AlarmInv
  <2> QED BY <1>2, <2>2, <2>3, <2>4 DEF AlarmInv, TimerfdArmed
<1> QED BY <1>4, <1>5

\* reset() arms the timerfd for the earliest timer; one at the invalid
\* Timestamp was added by a callback, which armed it.
LEMMA ResetAlarm ==
  ASSUME TimerInv, TypeOK', AlarmInv, Reset
  PROVE  AlarmInv'
<1>1. /\ timers' = timers \cup {<<NextExpiration(a), a>> : a \in Restarted}
      /\ Rearm(timers') /\ wall' = wall
  BY DEF Reset
<1>2. \A v : TicksUntil(v)' = TicksUntil(v)
  BY <1>1 DEF TicksUntil
<1>3. TypeOK /\ \A entry \in timers' : entry[1] \in Nat
  BY DEF TimerInv, TypeOK
<1>4. ASSUME NEW entry \in timers', entry[1] = 0
      PROVE  entry \in timers
  <2>1. ASSUME NEW a \in Restarted, entry = <<NextExpiration(a), a>>
        PROVE  FALSE
    <3>1. readTime \in Nat /\ heap[a].interval \in Nat /\ heap[a].interval > 0
      <4>1. a \in Addrs /\ heap[a] \in Timers /\ readTime \in Nat
        BY DEF Restarted, TimerInv, TypeOK
      <4>2. heap[a].interval \in Intervals \cup {0}
        BY <4>1 DEF Timers
      <4>3. heap[a].interval > 0
        BY <2>1 DEF Restarted
      <4>4. Intervals \cup {0} \subseteq Nat
        BY TimerAssumption
      <4>5. heap[a].interval \in Nat
        BY <4>2, <4>4, Zenon
      <4> QED BY <4>1, <4>3, <4>5
    <3> QED BY <1>4, <2>1, <3>1 DEF NextExpiration
  <2> QED BY <1>1, <1>4, <2>1
<1>5. CASE timers' = {}
  BY <1>5 DEF AlarmInv, TimerfdArmed
<1>6. CASE timers' # {}
  <2>1. PICK first \in timers' :
          /\ \A entry \in timers' : first[1] <= entry[1]
          /\ alarm' = IF first[1] > 0 THEN TicksUntil(first[1]) ELSE alarm
    BY <1>1, <1>6 DEF Rearm
  <2>2. CASE first[1] > 0
    <3>1. ASSUME NEW entry \in timers'
          PROVE  alarm' \in 0 .. TicksUntil(entry[1]) /\ entry[1] # 0
      <4>1. /\ TicksUntil(first[1]) \in Nat /\ TicksUntil(entry[1]) \in Nat
            /\ TicksUntil(first[1]) <= TicksUntil(entry[1])
        BY <1>3, <2>1, TicksUntilMonotone
      <4> QED BY <1>3, <2>1, <2>2, <4>1
    <3> QED BY <1>2, <3>1 DEF AlarmInv, TimerfdArmed
  <2>3. CASE ~(first[1] > 0)
    <3>1. first[1] = 0 /\ alarm' = alarm
      BY <1>3, <2>1, <2>3
    <3>2. alarm' \in 0 .. 1
      BY <1>4, <3>1 DEF AlarmInv
    <3>3. ASSUME NEW entry \in timers'
          PROVE  alarm' \in 0 .. TicksUntil(entry[1])
      <4>1. TicksUntil(entry[1]) \in Nat /\ 1 <= TicksUntil(entry[1])
        BY <1>3, TicksUntilMonotone
      <4> QED BY <3>2, <4>1
    <3> QED BY <1>2, <3>2, <3>3 DEF AlarmInv, TimerfdArmed
  <2> QED BY <2>2, <2>3
<1> QED BY <1>5, <1>6

\* Both clocks go on by one tick, or the wall clock is set back: the timerfd
\* still fires in time.
LEMMA ClockAlarm ==
  ASSUME TimerInv, AlarmInv, Tick \/ StepBack
  PROVE  AlarmInv'
<1>1. /\ UNCHANGED <<timers, callingExpiredTimers>> /\ wall \in Nat
      /\ alarm \in Nat \cup {Disarmed} /\ Disarmed = -1
      /\ \A entry \in timers : entry[1] \in Nat
  BY Pairs DEF Tick, StepBack, loopVars, TimerInv, TypeOK, Disarmed
<1>2. \/ wall' = wall + 1 /\ alarm' = (IF alarm > 0 THEN alarm - 1 ELSE alarm)
      \/ wall' = wall /\ alarm' = (IF alarm > 0 THEN alarm - 1 ELSE alarm)
      \/ wall > 1 /\ wall' = wall - 1 /\ alarm' = alarm
  BY DEF Tick, StepBack
<1>3. ASSUME NEW entry \in timers, alarm \in 0 .. TicksUntil(entry[1])
      PROVE  alarm' \in 0 .. TicksUntil(entry[1])'
  BY <1>1, <1>2, <1>3 DEF TicksUntil
<1>4. alarm \in 0 .. 1 => alarm' \in 0 .. 1
  BY <1>1, <1>2
<1> QED BY <1>1, <1>3, <1>4 DEF AlarmInv, TimerfdArmed

\* Every step keeps the timerfd set.
LEMMA NextAlarm ==
  ASSUME TimerInv, TimerInv', AlarmInv, [Next]_vars
  PROVE  AlarmInv'
<1>1. ASSUME UNCHANGED <<wall, alarm, callingExpiredTimers>>,
             timers' \subseteq timers
      PROVE  AlarmInv'
  BY <1>1 DEF AlarmInv, TimerfdArmed, TicksUntil
<1>2. CASE HandleRead
  <2>1. /\ callingExpiredTimers' /\ wall \in Nat
        /\ timers' = {entry \in timers : entry[1] > wall}
    BY <1>2 DEF HandleRead, TimerInv, TypeOK
  <2> QED BY <2>1 DEF AlarmInv, TimerfdArmed
<1>3. CASE Reset
  BY <1>3, ResetAlarm DEF TimerInv
<1>4. CASE RunFunctor
  <2>1. UNCHANGED <<wall, callingExpiredTimers>>
    BY <1>4 DEF RunFunctor
  <2>2. CASE CancelInLoop(Head(pending).id[1], Head(pending).id[2])
             /\ UNCHANGED alarm
    BY <1>1, <2>1, <2>2 DEF CancelInLoop
  <2>3. CASE AddTimerInLoop(Head(pending).id[1],
                            heap[Head(pending).id[1]].expiration,
                            Head(pending).id[2])
    <3>1. Head(pending).id[1] \in Addrs
      BY <1>4, PendingTypes DEF RunFunctor, TimerInv, TimerIds
    <3>2. heap[Head(pending).id[1]].expiration \in Nat
      BY <3>1 DEF TimerInv, TypeOK, Timers
    <3> QED BY <2>1, <2>3, <3>1, <3>2, AddAlarm
  <2> QED BY <1>4, <2>2, <2>3 DEF RunFunctor
<1>5. ASSUME NEW a \in Addrs, NEW when \in Expirations,
             NEW interval \in Intervals,
             AddTimer(a, when, interval) \/ LoopAddTimer(a, when, interval)
      PROVE  AlarmInv'
  <2>1. CASE AddTimer(a, when, interval)
    BY <1>1, <2>1 DEF AddTimer, loopVars
  <2>2. CASE LoopAddTimer(a, when, interval)
    BY <2>2, AddAlarm, TimerAssumption DEF LoopAddTimer
  <2> QED BY <1>5, <2>1, <2>2
<1>6. ASSUME NEW id \in ids, Cancel(id[1], id[2]) \/ LoopCancel(id[1], id[2])
      PROVE  AlarmInv'
  BY <1>1, <1>6 DEF Cancel, LoopCancel, CancelInLoop, loopVars
<1>7. CASE PollTimerfd \/ (\E a \in Addrs : RunTimer(a)) \/ EndCallback
           \/ UNCHANGED vars
  BY <1>1, <1>7 DEF PollTimerfd, RunTimer, EndCallback, vars, loopVars
<1> QED BY <1>2, <1>3, <1>4, <1>5, <1>6, <1>7, ClockAlarm
        DEF Next, LoopStep, ReadStep, UserCall

-----------------------------------------------------------------------------
(* No timer is lost, and a cancelled one stays out.                        *)

\* Sequence numbers are issued once, and what the queue holds was issued.
IssuedInv ==
  /\ \A id \in ids : id[2] <= created
  /\ \A i, j \in ids : i[2] = j[2] => i = j
  /\ \A k \in DOMAIN pending : pending[k].id \in ids
  /\ \A a \in Addrs :
       Live(a) => /\ <<a, heap[a].sequence>> \in ids
                  /\ heap[a].sequence \in periodic <=> heap[a].interval > 0
  /\ \A s \in cancelled \cup periodic : s <= created

\* What makes NoTimerLost and CancelledStaysOut inductive: what a cancel leaves
\* behind while its timer is queued, or is being called.
KeptInv ==
  /\ NoTimerLost
  /\ CancelledStaysOut
  /\ \A id \in Adding : id[2] \in cancelled => id[2] \in overtaken
  /\ \A a \in expired :
       heap[a].sequence \in cancelled =>
         \/ heap[a].sequence \in overtaken
         \/ <<a, heap[a].sequence>> \in cancelingTimers
  /\ \A id \in cancelingTimers : id[2] \in cancelled
  /\ \A a \in expired \ unrun : heap[a].sequence \in ran

\* The oldest functor leaves every other queued add where it is.
LEMMA AddingKept ==
  ASSUME pending \in Seq(Functors), pending # <<>>, pending' = Tail(pending),
         NEW id \in Adding, Head(pending).op = "add" => id # Head(pending).id
  PROVE  id \in Adding'
<1>1. /\ Len(pending) \in Nat \ {0}
      /\ DOMAIN pending = 1 .. Len(pending)
      /\ DOMAIN pending' = 1 .. (Len(pending) - 1)
      /\ \A i \in 1 .. (Len(pending) - 1) : pending'[i] = pending[i + 1]
      /\ Head(pending) = pending[1]
  OBVIOUS
<1>2. PICK j \in DOMAIN pending : pending[j].op = "add" /\ pending[j].id = id
  BY DEF Adding
<1>3. j # 1
  BY <1>1, <1>2
<1>4. j - 1 \in DOMAIN pending' /\ pending'[j - 1] = pending[j]
  BY <1>1, <1>3
<1> QED BY <1>2, <1>4 DEF Adding

\* new Timer issues a number that is not in use.
LEMMA IssuedNewTimer ==
  ASSUME TimerInv, IssuedInv, NEW a \in Addrs, NEW when \in Expirations,
         NEW interval \in Intervals, NewTimer(a, when, interval),
         UNCHANGED cancelled,
         \A k \in DOMAIN pending' : pending'[k].id \in ids'
  PROVE  IssuedInv'
<1>1. /\ created \in Nat /\ created' = created + 1
      /\ ids' = ids \cup {<<a, created + 1>>}
      /\ periodic' = IF interval > 0 THEN periodic \cup {created + 1}
                     ELSE periodic
      /\ heap \in [Addrs -> Timers]
      /\ ids \subseteq TimerIds
      /\ cancelled \cup periodic \subseteq 1 .. MaxCreated
  BY DEF TimerInv, TypeOK, NewTimer
<1>2. heap'[a] = [sequence |-> created + 1, expiration |-> when,
                  interval |-> interval]
  BY <1>1 DEF NewTimer
<1>3. \A id \in ids : id[2] \in Nat
  BY <1>1 DEF TimerIds
<1>4. \A id \in ids : id[2] <= created /\ id[2] # created + 1
  BY <1>1, <1>3 DEF IssuedInv
<1>5. /\ \A id \in ids' : id[2] <= created'
      /\ \A i, j \in ids' : i[2] = j[2] => i = j
  BY <1>1, <1>3, <1>4 DEF IssuedInv
<1>6. created + 1 \notin periodic
  BY <1>1 DEF IssuedInv
<1>7. ASSUME NEW b \in Addrs, Live(b)'
      PROVE  /\ <<b, heap'[b].sequence>> \in ids'
             /\ heap'[b].sequence \in periodic' <=> heap'[b].interval > 0
  <2>1. CASE b = a
    BY <1>1, <1>2, <1>6, <2>1
  <2>2. CASE b # a
    <3>1. heap'[b] = heap[b] /\ Live(b)
      BY <1>7, <2>2, NewTimerInv DEF Live
    <3>2. /\ <<b, heap[b].sequence>> \in ids
          /\ heap[b].sequence \in periodic <=> heap[b].interval > 0
      BY <3>1 DEF IssuedInv
    <3>3. heap[b].sequence # created + 1
      BY <1>4, <3>2
    <3> QED BY <1>1, <3>1, <3>2, <3>3
  <2> QED BY <2>1, <2>2
<1>8. \A s \in cancelled' \cup periodic' : s <= created'
  BY <1>1 DEF IssuedInv
<1> QED BY <1>5, <1>7, <1>8 DEF IssuedInv

\* A step that issues no number keeps what was issued.
LEMMA IssuedSame ==
  ASSUME IssuedInv, UNCHANGED <<created, ids, periodic>>,
         \A a \in Addrs :
           Live(a)' => /\ Live(a)
                       /\ heap'[a].sequence = heap[a].sequence
                       /\ heap'[a].interval = heap[a].interval,
         \A k \in DOMAIN pending' : pending'[k].id \in ids,
         \A s \in cancelled' : s <= created
  PROVE  IssuedInv'
BY DEF IssuedInv

\* Every step keeps the numbers issued once.
LEMMA NextIssued ==
  ASSUME TimerInv, IssuedInv, [Next]_vars
  PROVE  IssuedInv'
<1>1. ASSUME UNCHANGED <<created, ids, periodic, heap, cancelled, pending>>
      PROVE  IssuedInv'
  BY <1>1 DEF IssuedInv, Live
<1>2. ASSUME NEW a \in Addrs, NEW when \in Expirations,
             NEW interval \in Intervals, AddTimer(a, when, interval)
      PROVE  IssuedInv'
  <2>1. NewTimer(a, when, interval) /\ UNCHANGED cancelled
    BY <1>2 DEF AddTimer
  <2>2. /\ ids' = ids \cup {<<a, created + 1>>}
        /\ Len(pending) \in Nat
        /\ DOMAIN pending = 1 .. Len(pending)
        /\ DOMAIN pending' = 1 .. (Len(pending) + 1)
        /\ \A i \in 1 .. Len(pending) : pending'[i] = pending[i]
        /\ pending'[Len(pending) + 1].id = <<a, created + 1>>
    BY <1>2, <2>1 DEF AddTimer, NewTimer, TimerInv, TypeOK
  <2>3. ASSUME NEW k \in DOMAIN pending'
        PROVE  pending'[k].id \in ids'
    <3>1. CASE k \in DOMAIN pending
      <4>1. pending'[k] = pending[k]
        BY <2>2, <3>1
      <4> QED BY <2>2, <3>1, <4>1 DEF IssuedInv
    <3>2. CASE k = Len(pending) + 1
      BY <2>2, <3>2
    <3> QED BY <2>2, <2>3, <3>1, <3>2
  <2> QED BY <2>1, <2>3, IssuedNewTimer
<1>3. ASSUME NEW a \in Addrs, NEW when \in Expirations,
             NEW interval \in Intervals, LoopAddTimer(a, when, interval)
      PROVE  IssuedInv'
  <2>1. /\ NewTimer(a, when, interval) /\ UNCHANGED <<cancelled, pending>>
        /\ ids \subseteq ids'
    BY <1>3 DEF LoopAddTimer, NewTimer
  <2>2. \A k \in DOMAIN pending' : pending'[k].id \in ids'
    BY <2>1 DEF IssuedInv
  <2> QED BY <2>1, <2>2, IssuedNewTimer
<1>4. ASSUME NEW id \in ids, Cancel(id[1], id[2])
      PROVE  IssuedInv'
  <2>1. /\ UNCHANGED <<created, ids, periodic, heap, cancelled>>
        /\ Len(pending) \in Nat
        /\ DOMAIN pending = 1 .. Len(pending)
        /\ DOMAIN pending' = 1 .. (Len(pending) + 1)
        /\ \A i \in 1 .. Len(pending) : pending'[i] = pending[i]
        /\ pending'[Len(pending) + 1].id = <<id[1], id[2]>>
        /\ <<id[1], id[2]>> \in ids
    BY <1>4 DEF Cancel, TimerInv, TypeOK
  <2>2. \A k \in DOMAIN pending' : pending'[k].id \in ids
    BY <2>1 DEF IssuedInv
  <2> QED BY <2>1, <2>2, IssuedSame DEF IssuedInv, Live
<1>5. ASSUME NEW a \in Addrs, NEW sequence \in 1 .. MaxCreated,
             CancelInLoop(a, sequence), <<a, sequence>> \in ids,
             UNCHANGED <<created, ids, periodic>>,
             \A k \in DOMAIN pending' : pending'[k].id \in ids
      PROVE  IssuedInv'
  <2>1. \A b \in Addrs : heap'[b] \in {heap[b], NoTimer}
    BY <1>5 DEF CancelInLoop, TimerInv, TypeOK
  <2>2. \A s \in cancelled' : s <= created
    BY <1>5 DEF CancelInLoop, IssuedInv
  <2>3. \A b \in Addrs :
          Live(b)' => Live(b) /\ heap'[b] = heap[b]
    BY <2>1 DEF Live, NoTimer
  <2> QED BY <1>5, <2>2, <2>3, IssuedSame
<1>6. ASSUME NEW id \in ids, LoopCancel(id[1], id[2])
      PROVE  IssuedInv'
  <2>1. id[1] \in Addrs /\ id[2] \in 1 .. MaxCreated
    BY DEF TimerInv, TypeOK, TimerIds
  <2>2. /\ CancelInLoop(id[1], id[2]) /\ <<id[1], id[2]>> \in ids
        /\ UNCHANGED <<created, ids, periodic, pending>>
    BY <1>6 DEF LoopCancel
  <2> QED BY <1>5, <2>1, <2>2 DEF IssuedInv
<1>7. CASE RunFunctor
  <2> DEFINE a == Head(pending).id[1]
             sequence == Head(pending).id[2]
  <2>1. /\ UNCHANGED <<created, ids, periodic>>
        /\ pending # <<>> /\ pending' = Tail(pending)
        /\ a \in Addrs /\ sequence \in 1 .. MaxCreated
        /\ Head(pending).id = <<a, sequence>>
    BY <1>7, PendingTypes DEF RunFunctor, TimerInv, TimerIds
  <2>2. /\ Len(pending) \in Nat \ {0}
        /\ DOMAIN pending = 1 .. Len(pending)
        /\ DOMAIN pending' = 1 .. (Len(pending) - 1)
        /\ \A i \in 1 .. (Len(pending) - 1) : pending'[i] = pending[i + 1]
        /\ Head(pending) = pending[1]
    BY <2>1 DEF TimerInv, TypeOK
  <2>3. /\ <<a, sequence>> \in ids
        /\ \A k \in DOMAIN pending' : pending'[k].id \in ids
    BY <2>1, <2>2 DEF IssuedInv
  <2>4. CASE CancelInLoop(a, sequence)
    BY <1>5, <2>1, <2>3, <2>4
  <2>5. CASE UNCHANGED <<heap, cancelled>>
    BY <2>1, <2>3, <2>5, IssuedSame DEF IssuedInv, Live
  <2> QED BY <1>7, <2>4, <2>5 DEF RunFunctor
<1>8. CASE Reset
  <2>1. /\ UNCHANGED <<created, ids, periodic, cancelled, pending>>
        /\ heap \in [Addrs -> Timers]
        /\ expired \subseteq Addrs
    BY <1>8 DEF Reset, TimerInv, TypeOK
  <2>2. ASSUME NEW a \in Addrs, Live(a)'
        PROVE  /\ Live(a)
               /\ heap'[a].sequence = heap[a].sequence
               /\ heap'[a].interval = heap[a].interval
    <3>1. heap'[a] = IF a \in Restarted
                       THEN [heap[a] EXCEPT !.expiration = NextExpiration(a)]
                     ELSE IF a \in expired THEN NoTimer
                     ELSE heap[a]
      BY <1>8 DEF Reset
    <3>2. heap[a] \in Timers
      BY <2>1
    <3>3. CASE a \in Restarted
      BY <2>2, <3>1, <3>2, <3>3 DEF Timers, Live
    <3>4. CASE a \notin Restarted
      BY <2>2, <3>1, <3>4 DEF Live, NoTimer
    <3> QED BY <3>3, <3>4
  <2> QED BY <2>1, <2>2, IssuedSame DEF IssuedInv
<1>9. CASE \/ PollTimerfd \/ HandleRead \/ (\E a \in Addrs : RunTimer(a))
           \/ EndCallback \/ Tick \/ StepBack \/ UNCHANGED vars
  BY <1>1, <1>9 DEF PollTimerfd, HandleRead, RunTimer, EndCallback, Tick,
                    StepBack, vars
<1> QED BY <1>2, <1>3, <1>4, <1>6, <1>7, <1>8, <1>9
        DEF Next, LoopStep, ReadStep, UserCall

\* Steps that change neither what is kept nor the history.
LEMMA KeptSame ==
  ASSUME KeptInv,
         UNCHANGED <<heap, activeTimers, cancelingTimers, expired, unrun, ids,
                     periodic, ran, cancelled, overtaken>>,
         Adding' = Adding
  PROVE  KeptInv'
BY DEF KeptInv, NoTimerLost, CancelledStaysOut

\* A new timer is queued or indexed, and nobody has cancelled it yet.
LEMMA KeptNewTimer ==
  ASSUME TimerInv, IssuedInv, KeptInv, NEW a \in Addrs,
         NEW when \in Expirations, NEW interval \in Intervals,
         NewTimer(a, when, interval),
         UNCHANGED <<cancelingTimers, expired, unrun, ran, cancelled,
                     overtaken>>,
         activeTimers \subseteq activeTimers', Adding \subseteq Adding',
         activeTimers' \cup Adding' =
           (activeTimers \cup Adding) \cup {<<a, created + 1>>},
         activeTimers' \subseteq activeTimers \cup {<<a, created + 1>>},
         Adding' \subseteq Adding \cup {<<a, created + 1>>}
  PROVE  KeptInv'
<1>1. /\ created \in Nat
      /\ ids' = ids \cup {<<a, created + 1>>}
      /\ periodic' \subseteq periodic \cup {created + 1}
      /\ periodic \subseteq periodic'
      /\ expired \subseteq Addrs
      /\ ids \subseteq TimerIds
  BY DEF TimerInv, TypeOK, NewTimer
<1>2. created + 1 \notin cancelled
  BY <1>1 DEF IssuedInv
<1>3. \A b \in expired : heap'[b] = heap[b]
  BY <1>1, NewTimerInv
<1>4. NoTimerLost'
  <2>1. ASSUME NEW id \in ids'
        PROVE  \/ id[2] \in cancelled' \cup (ran' \ periodic')
               \/ id \in activeTimers' \cup Adding'
               \/ id[1] \in expired' /\ heap'[id[1]].sequence = id[2]
    <3>1. CASE id = <<a, created + 1>>
      BY <3>1
    <3>2. CASE id \in ids
      <4>1. id[2] # created + 1
        <5>1. id[2] <= created /\ id[2] \in Nat
          BY <1>1, <3>2 DEF IssuedInv, TimerIds
        <5> QED BY <1>1, <5>1
      <4>2. \/ id[2] \in cancelled \cup (ran \ periodic)
            \/ id \in activeTimers \cup Adding
            \/ id[1] \in expired /\ heap[id[1]].sequence = id[2]
        BY <3>2 DEF KeptInv, NoTimerLost
      <4>3. CASE id[2] \in cancelled \cup (ran \ periodic)
        BY <1>1, <4>1, <4>3
      <4>4. CASE id \in activeTimers \cup Adding
        BY <4>4
      <4>5. CASE id[1] \in expired /\ heap[id[1]].sequence = id[2]
        BY <1>3, <4>5
      <4> QED BY <4>2, <4>3, <4>4, <4>5
    <3> QED BY <1>1, <2>1, <3>1, <3>2
  <2> QED BY <2>1 DEF NoTimerLost
<1>5. CancelledStaysOut'
  BY <1>2 DEF KeptInv, CancelledStaysOut
<1>6. \A id \in Adding' : id[2] \in cancelled' => id[2] \in overtaken'
  BY <1>2 DEF KeptInv
<1>7. /\ \A b \in expired' :
           heap'[b].sequence \in cancelled' =>
             \/ heap'[b].sequence \in overtaken'
             \/ <<b, heap'[b].sequence>> \in cancelingTimers'
      /\ \A id \in cancelingTimers' : id[2] \in cancelled'
      /\ \A b \in expired' \ unrun' : heap'[b].sequence \in ran'
  BY <1>3 DEF KeptInv
<1> QED BY <1>4, <1>5, <1>6, <1>7 DEF KeptInv

\* cancelInLoop takes an indexed timer out, remembers one that is being called
\* and misses one that is still queued.
LEMMA KeptCancelInLoop ==
  ASSUME TimerInv, IssuedInv, KeptInv, NEW a \in Addrs,
         NEW sequence \in 1 .. MaxCreated, <<a, sequence>> \in ids,
         CancelInLoop(a, sequence),
         UNCHANGED <<expired, unrun, ids, periodic, ran>>, Adding' = Adding
  PROVE  KeptInv'
<1> DEFINE me == <<a, sequence>>
<1>1. /\ cancelled' = cancelled \cup {sequence}
      /\ overtaken' = IF me \in Adding THEN overtaken \cup {sequence}
                      ELSE overtaken \ {sequence}
      /\ activeTimers' = activeTimers \ {me}
      /\ heap \in [Addrs -> Timers] /\ expired \subseteq Addrs
  BY DEF CancelInLoop, TimerInv, TypeOK
<1>2. \A id \in ids : id[2] = sequence => id = me
  BY DEF IssuedInv
<1>3. /\ \A id \in activeTimers \cup Adding : id \in ids
      /\ \A b \in expired : <<b, heap[b].sequence>> \in ids
  <2>1. ASSUME NEW id \in activeTimers \cup Adding
        PROVE  id \in ids
    <3>1. id[1] \in Addrs /\ id[2] \in 1 .. MaxCreated /\ id = <<id[1], id[2]>>
      BY Pairs DEF TimerInv
    <3>2. heap[id[1]].sequence = id[2]
      BY DEF TimerInv, IndexesAgree, PointersOwned
    <3>3. Live(id[1])
      BY <3>1, <3>2 DEF Live
    <3> QED BY <3>1, <3>2, <3>3 DEF IssuedInv
  <2>2. \A b \in expired : <<b, heap[b].sequence>> \in ids
    BY <1>1 DEF TimerInv, PointersOwned, IssuedInv
  <2> QED BY <2>1, <2>2
<1>4. \A b \in expired : heap'[b] = heap[b]
  <2>1. CASE me \in activeTimers
    <3>1. a \notin expired
      BY <2>1 DEF TimerInv, IndexesAgree, PointersOwned
    <3>2. heap' = [heap EXCEPT ![a] = NoTimer]
      BY <2>1 DEF CancelInLoop
    <3> QED BY <1>1, <3>1, <3>2
  <2>2. CASE me \notin activeTimers
    BY <2>2 DEF CancelInLoop
  <2> QED BY <2>1, <2>2
<1>5. /\ cancelingTimers \subseteq cancelingTimers'
      /\ cancelingTimers' \subseteq cancelingTimers \cup {me}
      /\ a \in expired /\ heap[a].sequence = sequence =>
           me \in cancelingTimers'
  <2>1. a \in expired /\ heap[a].sequence = sequence =>
          callingExpiredTimers /\ me \notin activeTimers
    BY DEF TimerInv, PointersOwned
  <2> QED BY <2>1 DEF CancelInLoop
<1>6. NoTimerLost'
  <2>1. ASSUME NEW id \in ids
        PROVE  \/ id[2] \in cancelled' \cup (ran \ periodic)
               \/ id \in activeTimers' \cup Adding
               \/ id[1] \in expired /\ heap'[id[1]].sequence = id[2]
    <3>1. CASE id = me
      BY <1>1, <3>1
    <3>2. CASE id # me
      BY <1>1, <1>4, <3>2 DEF KeptInv, NoTimerLost
    <3> QED BY <3>1, <3>2
  <2> QED BY <2>1 DEF NoTimerLost
<1>7. CancelledStaysOut'
  <2>1. ASSUME NEW id \in activeTimers', id[2] \in cancelled'
        PROVE  id[2] \in overtaken'
    <3>1. id \in activeTimers /\ id[2] # sequence
      BY <1>1, <1>2, <1>3, <2>1
    <3>2. id[2] \in overtaken
      BY <1>1, <2>1, <3>1 DEF KeptInv, CancelledStaysOut
    <3> QED BY <1>1, <3>1, <3>2
  <2> QED BY <2>1 DEF CancelledStaysOut
<1>8. \A id \in Adding' : id[2] \in cancelled' => id[2] \in overtaken'
  <2>1. ASSUME NEW id \in Adding, id[2] \in cancelled'
        PROVE  id[2] \in overtaken'
    <3>1. CASE id = me
      BY <1>1, <3>1
    <3>2. CASE id # me
      <4>1. id[2] # sequence
        BY <1>2, <1>3, <3>2
      <4>2. id[2] \in overtaken
        BY <1>1, <2>1, <4>1 DEF KeptInv
      <4> QED BY <1>1, <4>1, <4>2
    <3> QED BY <3>1, <3>2
  <2> QED BY <2>1
<1>9. ASSUME NEW b \in expired', heap'[b].sequence \in cancelled'
      PROVE  \/ heap'[b].sequence \in overtaken'
             \/ <<b, heap'[b].sequence>> \in cancelingTimers'
  <2>1. b \in expired /\ heap'[b] = heap[b]
    BY <1>4, <1>9
  <2>2. CASE heap[b].sequence = sequence
    <3>1. b = a
      BY <1>2, <1>3, <2>1, <2>2
    <3> QED BY <1>5, <2>1, <2>2, <3>1
  <2>3. CASE heap[b].sequence # sequence
    <3>1. \/ heap[b].sequence \in overtaken
          \/ <<b, heap[b].sequence>> \in cancelingTimers
      BY <1>1, <1>9, <2>1, <2>3 DEF KeptInv
    <3> QED BY <1>1, <1>5, <2>1, <2>3, <3>1
  <2> QED BY <2>2, <2>3
<1>10. /\ \A id \in cancelingTimers' : id[2] \in cancelled'
       /\ \A b \in expired' \ unrun' : heap'[b].sequence \in ran'
  BY <1>1, <1>4, <1>5 DEF KeptInv
<1> QED BY <1>6, <1>7, <1>8, <1>9, <1>10 DEF KeptInv

\* getExpired() takes timers out of the indexes only into the batch.
LEMMA KeptHandleRead ==
  ASSUME TimerInv, KeptInv, HandleRead
  PROVE  KeptInv'
<1> DEFINE D == Due(wall)
<1>1. /\ expired = {} /\ expired' = D /\ unrun' = D
      /\ activeTimers' =
           {id \in activeTimers : ~(id[1] \in D /\ heap[id[1]].sequence = id[2])}
      /\ cancelingTimers' = {}
      /\ UNCHANGED <<heap, pending, ids, periodic, ran, cancelled, overtaken>>
  BY DEF HandleRead, TimerInv
<1>2. Adding' = Adding
  BY <1>1 DEF Adding
<1>3. ASSUME NEW a \in D
      PROVE  <<a, heap[a].sequence>> \in activeTimers
  BY DEF Due, TimerInv, IndexesAgree
<1>4. NoTimerLost'
  BY <1>1, <1>2 DEF KeptInv, NoTimerLost
<1>5. CancelledStaysOut'
  BY <1>1 DEF KeptInv, CancelledStaysOut
<1>6. \A a \in expired' :
        heap'[a].sequence \in cancelled' => heap'[a].sequence \in overtaken'
  BY <1>1, <1>3 DEF KeptInv, CancelledStaysOut
<1> QED BY <1>1, <1>2, <1>4, <1>5, <1>6 DEF KeptInv

\* A timer of the batch that has been called has run.
LEMMA KeptRunTimer ==
  ASSUME TimerInv, KeptInv, NEW a \in Addrs, RunTimer(a)
  PROVE  KeptInv'
<1>1. /\ unrun' = unrun \ {a} /\ ran' = ran \cup {heap[a].sequence}
      /\ UNCHANGED <<heap, activeTimers, cancelingTimers, expired, pending,
                     ids, periodic, cancelled, overtaken>>
      /\ a \in expired
  BY DEF RunTimer, TimerInv, TypeOK
<1>2. Adding' = Adding
  BY <1>1 DEF Adding
<1>3. NoTimerLost' /\ CancelledStaysOut'
  BY <1>1, <1>2 DEF KeptInv, NoTimerLost, CancelledStaysOut
<1>4. \A b \in expired' \ unrun' : heap'[b].sequence \in ran'
  BY <1>1 DEF KeptInv
<1> QED BY <1>1, <1>2, <1>3, <1>4 DEF KeptInv

\* reset() drops a timer only if it has run once or was cancelled, and restarts
\* none that was cancelled.
LEMMA KeptReset ==
  ASSUME TimerInv, IssuedInv, KeptInv, Reset
  PROVE  KeptInv'
<1>1. /\ expired' = {} /\ unrun = {} /\ expired \subseteq Addrs
      /\ activeTimers' =
           activeTimers \cup {<<a, heap[a].sequence>> : a \in Restarted}
      /\ UNCHANGED <<cancelingTimers, unrun, pending, ids, periodic, ran,
                     cancelled, overtaken>>
      /\ heap \in [Addrs -> Timers]
  BY DEF Reset, TimerInv, TypeOK
<1>2. Adding' = Adding
  BY <1>1 DEF Adding
<1>3. NoTimerLost'
  <2>1. ASSUME NEW id \in ids, id[1] \in expired, heap[id[1]].sequence = id[2]
        PROVE  \/ id[2] \in cancelled \cup (ran \ periodic)
               \/ id \in activeTimers'
    <3>1. id[1] \in Addrs /\ id = <<id[1], id[2]>>
      BY DEF TimerInv, TypeOK, TimerIds
    <3>2. CASE id[1] \in Restarted
      BY <1>1, <2>1, <3>1, <3>2
    <3>3. CASE id \in cancelingTimers
      BY <3>3 DEF KeptInv
    <3>4. CASE ~(heap[id[1]].interval > 0)
      <4>1. Live(id[1])
        BY <2>1 DEF TimerInv, PointersOwned
      <4>2. id[2] \notin periodic
        BY <2>1, <3>1, <3>4, <4>1 DEF IssuedInv
      <4>3. id[2] \in ran
        BY <1>1, <2>1 DEF KeptInv
      <4> QED BY <4>2, <4>3
    <3> QED BY <2>1, <3>1, <3>2, <3>3, <3>4 DEF Restarted
  <2>2. ASSUME NEW id \in ids
        PROVE  \/ id[2] \in cancelled \cup (ran \ periodic)
               \/ id \in activeTimers' \cup Adding
    <3>1. \/ id[2] \in cancelled \cup (ran \ periodic)
          \/ id \in activeTimers \cup Adding
          \/ id[1] \in expired /\ heap[id[1]].sequence = id[2]
      BY DEF KeptInv, NoTimerLost
    <3> QED BY <1>1, <2>1, <3>1
  <2> QED BY <1>1, <1>2, <2>2 DEF NoTimerLost
<1>4. CancelledStaysOut'
  <2>1. ASSUME NEW a \in Restarted, heap[a].sequence \in cancelled
        PROVE  heap[a].sequence \in overtaken
    BY <2>1 DEF Restarted, KeptInv
  <2> QED BY <1>1, <2>1 DEF KeptInv, CancelledStaysOut
<1> QED BY <1>1, <1>2, <1>3, <1>4 DEF KeptInv

\* A queued addTimerInLoop moves its timer into the indexes.
LEMMA KeptRunFunctor ==
  ASSUME TimerInv, IssuedInv, KeptInv, RunFunctor
  PROVE  KeptInv'
<1> DEFINE a == Head(pending).id[1]
           sequence == Head(pending).id[2]
<1>1. /\ pending # <<>> /\ pending \in Seq(Functors) /\ pending' = Tail(pending)
      /\ expired = {}
      /\ UNCHANGED <<expired, unrun, ids, periodic, ran>>
      /\ a \in Addrs /\ sequence \in 1 .. MaxCreated
      /\ Head(pending).id = <<a, sequence>>
  BY PendingTypes DEF RunFunctor, TimerInv, TypeOK, TimerIds
<1>2. Adding' \subseteq Adding
  BY <1>1, AddingTail DEF TimerInv
<1>3. CASE Head(pending).op = "cancel" /\ CancelInLoop(a, sequence)
  <2>1. Adding' = Adding
    BY <1>1, <1>2, <1>3, AddingKept
  <2>2. <<a, sequence>> \in ids
    <3>1. 1 \in DOMAIN pending /\ Head(pending) = pending[1]
      BY <1>1
    <3> QED BY <1>1, <3>1 DEF IssuedInv
  <2> QED BY <1>1, <1>3, <2>1, <2>2, KeptCancelInLoop
<1>4. CASE /\ Head(pending).op = "add"
           /\ AddTimerInLoop(a, heap[a].expiration, sequence)
           /\ UNCHANGED <<heap, cancelingTimers, cancelled, overtaken>>
  <2>1. /\ activeTimers' = activeTimers \cup {<<a, sequence>>}
        /\ <<a, sequence>> \in Adding
    BY <1>1, <1>4, AddingTail DEF AddTimerInLoop, TimerInv
  <2>2. \A id \in Adding : id \in activeTimers' \cup Adding'
    BY <1>1, <2>1, AddingKept
  <2>3. NoTimerLost' /\ CancelledStaysOut'
    BY <1>1, <1>4, <2>1, <2>2 DEF KeptInv, NoTimerLost, CancelledStaysOut
  <2> QED BY <1>1, <1>2, <1>4, <2>3 DEF KeptInv
<1> QED BY <1>3, <1>4 DEF RunFunctor

\* Every step keeps the timers.
LEMMA NextKept ==
  ASSUME TimerInv, IssuedInv, KeptInv, [Next]_vars
  PROVE  KeptInv'
<1>1. ASSUME NEW a \in Addrs, NEW when \in Expirations,
             NEW interval \in Intervals, AddTimer(a, when, interval)
      PROVE  KeptInv'
  <2> DEFINE f == [op |-> "add", id |-> <<a, created + 1>>]
  <2>1. /\ NewTimer(a, when, interval)
        /\ UNCHANGED <<activeTimers, cancelingTimers, expired, unrun, ran,
                       cancelled, overtaken>>
    BY <1>1 DEF AddTimer, loopVars
  <2>2. /\ pending \in Seq(Functors) /\ f \in Functors
        /\ pending' = Append(pending, f)
    BY <1>1, <2>1, NewTimerType DEF AddTimer, Functors, TimerInv, TypeOK
  <2>3. Adding' = Adding \cup {<<a, created + 1>>}
    BY <2>2, AddingAppend
  <2> QED BY <2>1, <2>3, KeptNewTimer
<1>2. ASSUME NEW a \in Addrs, NEW when \in Expirations,
             NEW interval \in Intervals, LoopAddTimer(a, when, interval)
      PROVE  KeptInv'
  <2>1. /\ NewTimer(a, when, interval)
        /\ UNCHANGED <<cancelingTimers, expired, unrun, ran, cancelled,
                       overtaken, pending>>
        /\ activeTimers' = activeTimers \cup {<<a, created + 1>>}
    BY <1>2 DEF LoopAddTimer, AddTimerInLoop
  <2>2. Adding' = Adding
    BY <2>1 DEF Adding
  <2> QED BY <2>1, <2>2, KeptNewTimer
<1>3. ASSUME NEW id \in ids, Cancel(id[1], id[2])
      PROVE  KeptInv'
  <2> DEFINE f == [op |-> "cancel", id |-> <<id[1], id[2]>>]
  <2>1. /\ pending \in Seq(Functors) /\ f \in Functors
        /\ pending' = Append(pending, f)
        /\ UNCHANGED <<heap, activeTimers, cancelingTimers, expired, unrun,
                       ids, periodic, ran, cancelled, overtaken>>
    BY <1>3 DEF Cancel, loopVars, Functors, TimerInv, TypeOK, TimerIds
  <2>2. Adding' = Adding
    BY <2>1, AddingAppend
  <2> QED BY <2>1, <2>2, KeptSame
<1>4. ASSUME NEW id \in ids, LoopCancel(id[1], id[2])
      PROVE  KeptInv'
  <2>1. id[1] \in Addrs /\ id[2] \in 1 .. MaxCreated
    BY DEF TimerInv, TypeOK, TimerIds
  <2>2. /\ CancelInLoop(id[1], id[2]) /\ <<id[1], id[2]>> \in ids
        /\ UNCHANGED <<expired, unrun, ids, periodic, ran, pending>>
    BY <1>4 DEF LoopCancel
  <2>3. Adding' = Adding
    BY <2>2 DEF Adding
  <2> QED BY <2>1, <2>2, <2>3, KeptCancelInLoop
<1>5. CASE \/ PollTimerfd \/ EndCallback \/ Tick \/ StepBack \/ UNCHANGED vars
  <2>1. UNCHANGED <<heap, activeTimers, cancelingTimers, expired, unrun, ids,
                    periodic, ran, cancelled, overtaken, pending>>
    BY <1>5 DEF PollTimerfd, EndCallback, Tick, StepBack, vars, loopVars
  <2>2. Adding' = Adding
    BY <2>1 DEF Adding
  <2> QED BY <2>1, <2>2, KeptSame
<1> QED BY <1>1, <1>2, <1>3, <1>4, <1>5, KeptHandleRead, KeptRunTimer,
           KeptReset, KeptRunFunctor
        DEF Next, LoopStep, ReadStep, UserCall

\* A freshly constructed queue has issued nothing and armed nothing.
LEMMA InitKept == Init => AlarmInv /\ IssuedInv /\ KeptInv
<1> SUFFICES ASSUME Init PROVE AlarmInv /\ IssuedInv /\ KeptInv
  OBVIOUS
<1>1. DOMAIN pending = {} /\ Adding = {}
  BY DEF Init, Adding
<1>2. AlarmInv
  BY DEF Init, AlarmInv, TimerfdArmed
<1>3. IssuedInv
  BY <1>1 DEF Init, IssuedInv, Live, NoTimer
<1>4. KeptInv
  BY <1>1 DEF Init, KeptInv, NoTimerLost, CancelledStaysOut
<1> QED BY <1>2, <1>3, <1>4

\* Whatever the addresses the allocator reuses, the times set, the clock steps
\* and the order of the calls: no timer is lost, a cancelled one never comes
\* back, and the timerfd fires no later than the earliest timer is due
\* (addTimerInLoop, cancelInLoop, getExpired, reset).
THEOREM TimersAlwaysKept == Spec => []TimersKept
<1> DEFINE KeepInv == AlarmInv /\ IssuedInv /\ KeptInv
<1>1. Init => TimerInv /\ KeepInv
  BY InitTimerInv, InitKept
<1>2. ASSUME TimerInv, KeepInv, [Next]_vars
      PROVE  TimerInv' /\ KeepInv'
  BY <1>2, NextTimerInv, NextAlarm, NextIssued, NextKept
<1>3. KeepInv => TimersKept
  BY DEF TimersKept, AlarmInv, KeptInv
<1> HIDE DEF KeepInv
<1> QED BY <1>1, <1>2, <1>3, PTL DEF Spec
=============================================================================
