----------------------------- MODULE BaseProofs -----------------------------
(***************************************************************************)
(* TLAPS proofs about muduo/base.  For any number of threads, items and    *)
(* tasks: the hand-over in Thread::start(), the blocking queues, the       *)
(* thread pool, and the lines and buffers of the asynchronous log.  For    *)
(* every day and every time: dates, and local times in zones as they are.  *)
(***************************************************************************)
EXTENDS MCBase, SequenceLemmas, FiniteSetTheorems, WellFoundedInduction

-----------------------------------------------------------------------------
(* Thread: start(), the latch, join(), detach.                             *)

\* How far an object's thread is: the object waits in start() until the
\* thread has stored tid_ and is through with latch_.
ThreadObjStages(t) ==
  /\ object[t] \in {"none", "constructed", "failed"} => childPc[t] = "none"
  /\ childPc[t] \in {"tid", "count", "notify", "unlock"} => object[t] = "waiting"
  /\ childPc[t] \notin {"none", "tid"} => tid[t]
  /\ latch[t].count = 1 <=> childPc[t] \in {"none", "tid", "count"}
  /\ latch[t].held <=> childPc[t] \in {"notify", "unlock"}
  /\ object[t] # "destroyed" => ~detached[t]
  /\ object[t] = "destroyed" /\ childPc[t] # "none" => (joined[t] <=> ~detached[t])

\* The inductive invariant behind StartHandsOver.
ThreadObjInv ==
  /\ ThreadObjTypeOK
  /\ StartHandsOver
  /\ \A t \in ThreadObjs : ThreadObjStages(t)

\* One step of one thread keeps the invariant for that object, and no step
\* touches another object.
LEMMA ThreadObjStepInv ==
  ASSUME ThreadObjInv, NEW t \in ThreadObjs,
         \/ Construct(t) \/ StartObj(t) \/ StartReturns(t) \/ JoinObj(t)
         \/ DestroyObj(t) \/ Fork(t) \/ ThreadObjStep(t)
  PROVE  ThreadObjInv'
<1> USE DEF ThreadObjInv, ThreadObjTypeOK, StartHandsOver, ThreadObjStages
<1>1. CASE Construct(t)
  BY <1>1 DEF Construct
<1>2. CASE StartObj(t)
  <2>1. childPc[t] = "none" /\ latch[t].count = 1 /\ ~latch[t].held
    BY <1>2 DEF StartObj
  <2>2. CASE /\ object' = [object EXCEPT ![t] = "waiting"]
             /\ childPc' = [childPc EXCEPT ![t] = "tid"]
    BY <1>2, <2>1, <2>2 DEF StartObj
  <2>3. CASE object' = [object EXCEPT ![t] = "failed"] /\ UNCHANGED childPc
    BY <1>2, <2>1, <2>3 DEF StartObj
  <2> QED BY <1>2, <2>2, <2>3 DEF StartObj
<1>3. CASE StartReturns(t)
  BY <1>3 DEF StartReturns
<1>4. CASE JoinObj(t)
  BY <1>4 DEF JoinObj
<1>5. CASE DestroyObj(t)
  BY <1>5 DEF DestroyObj
<1>6. CASE Fork(t)
  BY <1>6 DEF Fork, AfterFork
<1>7. CASE StoreTid(t)
  BY <1>7 DEF StoreTid, Touches
<1>8. CASE CountDown(t)
  BY <1>8 DEF CountDown, Touches
<1>9. CASE NotifyAll(t)
  BY <1>9 DEF NotifyAll, Touches
<1>10. CASE Unlock(t)
  <2>1. /\ latch' \in [ThreadObjs -> [count : {0, 1}, held : BOOLEAN]]
        /\ latch'[t].count = latch[t].count /\ latch'[t].held = FALSE
        /\ \A u \in ThreadObjs \ {t} : latch'[u] = latch[u]
    <3> DEFINE left == [latch[t] EXCEPT !.held = FALSE]
    <3>1. latch' = [latch EXCEPT ![t] = left]
      BY <1>10, Zenon DEF Unlock
    <3>2. /\ left \in [count : {0, 1}, held : BOOLEAN]
          /\ left.count = latch[t].count /\ left.held = FALSE
      <4>1. latch[t] \in [count : {0, 1}, held : BOOLEAN]
        OBVIOUS
      <4> HIDE DEF ThreadObjInv
      <4> QED BY <4>1
    <3> HIDE DEF left
    <3> QED BY <3>1, <3>2
  <2> QED BY <1>10, <2>1 DEF Unlock, Touches
<1>11. CASE FuncReturns(t)
  BY <1>11 DEF FuncReturns
<1> QED
  BY <1>1, <1>2, <1>3, <1>4, <1>5, <1>6, <1>7, <1>8, <1>9, <1>10, <1>11
     DEF ThreadObjStep

LEMMA ThreadObjInvariant == ThreadObjSpec => []ThreadObjInv
<1>1. ThreadObjInit => ThreadObjInv
  BY DEF ThreadObjInit, ThreadObjInv, ThreadObjTypeOK, StartHandsOver,
         ThreadObjStages
<1>2. ThreadObjInv /\ [ThreadObjNext]_threadObjVars => ThreadObjInv'
  <2> SUFFICES ASSUME ThreadObjInv, [ThreadObjNext]_threadObjVars
               PROVE  ThreadObjInv'
    OBVIOUS
  <2>1. CASE ThreadObjNext
    BY <2>1, ThreadObjStepInv DEF ThreadObjNext
  <2>2. CASE UNCHANGED threadObjVars
    BY <2>2 DEF threadObjVars, ThreadObjInv, ThreadObjTypeOK, StartHandsOver,
                ThreadObjStages
  <2> QED BY <2>1, <2>2
<1> QED BY <1>1, <1>2, PTL DEF ThreadObjSpec

\* tid_ is stored when start() returns, the thread never touches an object
\* that has ended, and a thread is joined or detached, never neither or both.
THEOREM StartAlwaysHandsOver == ThreadObjSpec => []StartHandsOver
<1>1. ThreadObjInv => StartHandsOver
  BY DEF ThreadObjInv
<1> QED BY <1>1, ThreadObjInvariant, PTL

-----------------------------------------------------------------------------
(* BlockingQueue and BoundedBlockingQueue: what one step leaves.           *)

HoldingPcs == {"assign", "body", "sleep", "wait", "leave", "unlock"}

\* The thread that has the mutex is the one between lock() and unlock(), and
\* holder_ names it except where it is about to be stored or was cleared.
LockRight ==
  \A t \in QueueThreads :
    /\ queuePc[t] \in HoldingPcs <=> owner = t
    /\ holder = t <=> queuePc[t] \in {"body", "sleep", "leave"}

\* A thread that has decided to wait still finds the queue as it saw it.
SleepRight ==
  \A t \in QueueThreads :
    queuePc[t] \in {"sleep", "wait"} =>
      IF call[t] = Take THEN items = <<>> ELSE IsFull

\* The inductive invariant behind QueueSound.
QueueInv ==
  /\ QueueTypeOK
  /\ pushed \in Seq(Items) /\ taken \in Seq(Items)
  /\ LockRight
  /\ SleepRight
  /\ EnoughAwake
  /\ QueueFifo

\* The awake threads can be counted.
LEMMA AwakeFinite ==
  /\ IsFiniteSet(AwakeTakers) /\ Cardinality(AwakeTakers) \in Nat
  /\ IsFiniteSet(AwakePutters) /\ Cardinality(AwakePutters) \in Nat
  /\ IsFiniteSet(AwakeTakers') /\ Cardinality(AwakeTakers') \in Nat
  /\ IsFiniteSet(AwakePutters') /\ Cardinality(AwakePutters') \in Nat
<1>1. /\ AwakeTakers \in SUBSET QueueThreads
      /\ AwakePutters \in SUBSET QueueThreads
      /\ AwakeTakers' \in SUBSET QueueThreads
      /\ AwakePutters' \in SUBSET QueueThreads
  BY DEF AwakeTakers, AwakePutters
<1> QED
  BY <1>1, QueueAssumption, FS_Subset, FS_CardinalityType DEF QueueAssumption

\* A step that moves nobody away from the queue and changes no item keeps the
\* balance of threads on their way.
LEMMA MoreAwake ==
  ASSUME QueueTypeOK, EnoughAwake, UNCHANGED items,
         AwakeTakers \subseteq AwakeTakers',
         AwakePutters \subseteq AwakePutters',
         WaitingTakers' \subseteq WaitingTakers,
         WaitingPutters' \subseteq WaitingPutters
  PROVE  EnoughAwake'
<1>1. /\ Cardinality(AwakeTakers) <= Cardinality(AwakeTakers')
      /\ Cardinality(AwakePutters) <= Cardinality(AwakePutters')
  BY AwakeFinite, FS_Subset
<1>2. Len(items) \in Nat /\ Capacity \in Nat
  BY QueueAssumption DEF QueueTypeOK
<1> QED BY <1>1, <1>2, AwakeFinite DEF EnoughAwake

\* notify() wakes one of those that wait, unless nobody does.
LEMMA NotifyEffect ==
  ASSUME QueueTypeOK, NEW t \in QueueThreads, queuePc[t] = "body",
         NEW W \in SUBSET QueueThreads,
         \A w \in W : queuePc[w] = "waiting",
         IF W = {} THEN Goto(t, "leave")
         ELSE \E w \in W :
                queuePc' = [queuePc EXCEPT ![t] = "leave", ![w] = "lock"]
  PROVE  \E woken \in SUBSET W :
           /\ queuePc' = [u \in QueueThreads |-> queuePc'[u]]
           /\ \A u \in QueueThreads :
                queuePc'[u] = IF u = t THEN "leave"
                              ELSE IF u \in woken THEN "lock" ELSE queuePc[u]
           /\ IF W = {} THEN woken = {} ELSE \E w \in W : woken = {w}
<1>1. CASE W = {}
  <2>1. queuePc' = [u \in QueueThreads |->
                     IF u = t THEN "leave"
                     ELSE IF u \in {} THEN "lock" ELSE queuePc[u]]
    BY <1>1 DEF Goto, QueueTypeOK
  <2> QED BY <1>1, <2>1
<1>2. CASE W # {}
  <2>1. PICK w \in W :
          queuePc' = [queuePc EXCEPT ![t] = "leave", ![w] = "lock"]
    BY <1>2
  <2>2. w # t /\ w \in QueueThreads
    OBVIOUS
  <2>3. queuePc' = [u \in QueueThreads |->
                     IF u = t THEN "leave"
                     ELSE IF u \in {w} THEN "lock" ELSE queuePc[u]]
    BY <2>1, <2>2 DEF QueueTypeOK
  <2> QED BY <1>2, <2>3
<1> QED BY <1>1, <1>2

-----------------------------------------------------------------------------
(* BlockingQueue: every step keeps the invariant.                          *)

\* Calling the queue, and waking without a notify.
LEMMA CallInv ==
  ASSUME QueueInv, NEW t \in QueueThreads,
         \/ \E what \in Items \cup {Take} : CallQueue(t, what)
         \/ SpuriousWakeup(t)
  PROVE  QueueInv'
<1> USE DEF QueueInv
<1>1. ASSUME NEW what \in Items \cup {Take}, CallQueue(t, what)
      PROVE  QueueInv'
  <2>1. QueueTypeOK' /\ LockRight' /\ SleepRight'
    BY <1>1 DEF CallQueue, At, Goto, QueueTypeOK, LockRight, SleepRight,
                HoldingPcs, IsFull
  <2>2. EnoughAwake'
    <3>1. /\ AwakeTakers \subseteq AwakeTakers'
          /\ AwakePutters \subseteq AwakePutters'
          /\ WaitingTakers' \subseteq WaitingTakers
          /\ WaitingPutters' \subseteq WaitingPutters
      BY <1>1 DEF CallQueue, At, Goto, QueueTypeOK, AwakeTakers, AwakePutters,
                  Awake, WaitingTakers, WaitingPutters
    <3> QED BY <1>1, <3>1, MoreAwake DEF CallQueue
  <2> QED BY <1>1, <2>1, <2>2 DEF CallQueue, QueueFifo
<1>2. CASE SpuriousWakeup(t)
  <2>1. QueueTypeOK' /\ LockRight' /\ SleepRight'
    BY <1>2 DEF SpuriousWakeup, At, Goto, QueueTypeOK, LockRight, SleepRight,
                HoldingPcs, IsFull
  <2>2. EnoughAwake'
    <3>1. /\ AwakeTakers \subseteq AwakeTakers'
          /\ AwakePutters \subseteq AwakePutters'
          /\ WaitingTakers' \subseteq WaitingTakers
          /\ WaitingPutters' \subseteq WaitingPutters
      BY <1>2 DEF SpuriousWakeup, At, Goto, QueueTypeOK, AwakeTakers,
                  AwakePutters, Awake, WaitingTakers, WaitingPutters
    <3> QED BY <1>2, <3>1, MoreAwake DEF SpuriousWakeup
  <2> QED BY <1>2, <2>1, <2>2 DEF SpuriousWakeup, QueueFifo
<1> QED BY <1>1, <1>2

\* Locking and unlocking: a thread that begins to wait leaves the balance, for
\* the queue is as empty, or as full, as it was when the thread decided to.
LEMMA MutexInv ==
  ASSUME QueueInv, NEW t \in QueueThreads,
         Lock(t) \/ AssignHolder(t) \/ UnassignHolder(t) \/ Release(t)
  PROVE  QueueInv'
<1> USE DEF QueueInv, At, Goto
<1>1. UNCHANGED <<call, items, pushed, taken>>
  BY DEF Lock, AssignHolder, UnassignHolder, Release
<1>2. QueueTypeOK'
  BY DEF QueueTypeOK, Lock, AssignHolder, UnassignHolder, Release
<1>3. LockRight'
  <2>1. CASE Lock(t)
    BY <2>1, QueueAssumption
       DEF QueueAssumption, QueueTypeOK, LockRight, HoldingPcs, Lock
  <2>2. CASE AssignHolder(t)
    BY <2>2 DEF QueueTypeOK, LockRight, HoldingPcs, AssignHolder
  <2>3. CASE UnassignHolder(t)
    BY <2>3, QueueAssumption
       DEF QueueAssumption, QueueTypeOK, LockRight, HoldingPcs, UnassignHolder
  <2>4. CASE Release(t)
    BY <2>4, QueueAssumption
       DEF QueueAssumption, QueueTypeOK, LockRight, HoldingPcs, Release
  <2> QED BY <2>1, <2>2, <2>3, <2>4
<1>4. SleepRight'
  BY <1>1 DEF QueueTypeOK, SleepRight, IsFull, Lock, AssignHolder,
              UnassignHolder, Release
<1>5. EnoughAwake'
  <2>1. AwakeTakers' = AwakeTakers /\ AwakePutters' = AwakePutters
    BY <1>1 DEF QueueTypeOK, AwakeTakers, AwakePutters, Awake, Lock,
                AssignHolder, UnassignHolder, Release
  <2>2. CASE queuePc[t] = "wait"
    <3>1. CASE call[t] = Take
      <4>1. WaitingPutters' \subseteq WaitingPutters
        BY <1>1, <2>2, <3>1 DEF QueueTypeOK, WaitingPutters, Lock, AssignHolder,
                                UnassignHolder, Release
      <4>2. Len(items') = 0
        BY <1>1, <2>2, <3>1 DEF SleepRight
      <4> QED BY <1>1, <2>1, <4>1, <4>2, AwakeFinite DEF EnoughAwake
    <3>2. CASE call[t] # Take
      <4>1. WaitingTakers' \subseteq WaitingTakers
        BY <1>1, <2>2, <3>2 DEF QueueTypeOK, WaitingTakers, Lock, AssignHolder,
                                UnassignHolder, Release
      <4>2. Capacity - Len(items') <= 0
        BY <1>1, <2>2, <3>2, QueueAssumption
           DEF SleepRight, IsFull, QueueAssumption, QueueTypeOK
      <4>3. Len(items') \in Nat /\ Capacity \in Nat
        BY <1>2, QueueAssumption DEF QueueAssumption, QueueTypeOK
      <4> QED BY <1>1, <2>1, <4>1, <4>2, <4>3, AwakeFinite DEF EnoughAwake
    <3> QED BY <3>1, <3>2
  <2>3. CASE queuePc[t] # "wait"
    <3>1. /\ WaitingTakers' \subseteq WaitingTakers
          /\ WaitingPutters' \subseteq WaitingPutters
      BY <1>1, <2>3 DEF QueueTypeOK, WaitingTakers, WaitingPutters, Lock,
                        AssignHolder, UnassignHolder, Release
    <3> QED BY <1>1, <2>1, <3>1, MoreAwake
  <2> QED BY <2>2, <2>3
<1> QED BY <1>1, <1>2, <1>3, <1>4, <1>5 DEF QueueFifo

\* The body of put() or take() that goes to sleep: the balance is not needed,
\* for there is no place, or no item, to balance.
LEMMA SleepInv ==
  ASSUME QueueInv, NEW t \in QueueThreads, At(t, "body"), Goto(t, "sleep"),
         IF call[t] = Take THEN items = <<>> ELSE IsFull,
         UNCHANGED <<owner, holder, call, items, pushed, taken>>
  PROVE  QueueInv'
<1> USE DEF QueueInv, At, Goto
<1>1. QueueTypeOK' /\ LockRight' /\ SleepRight'
  BY DEF QueueTypeOK, LockRight, SleepRight, HoldingPcs, IsFull
<1>2. WaitingTakers' = WaitingTakers /\ WaitingPutters' = WaitingPutters
  BY DEF QueueTypeOK, WaitingTakers, WaitingPutters
<1>3. Len(items) \in Nat /\ Capacity \in Nat
  BY QueueAssumption DEF QueueAssumption, QueueTypeOK
<1>4. EnoughAwake'
  <2>1. CASE call[t] = Take
    <3>1. AwakePutters' = AwakePutters
      BY <2>1 DEF QueueTypeOK, AwakePutters, Awake
    <3>2. Len(items') = 0
      BY <2>1
    <3> QED BY <1>2, <3>1, <3>2, AwakeFinite DEF EnoughAwake
  <2>2. CASE call[t] # Take
    <3>1. AwakeTakers' = AwakeTakers
      BY <2>2 DEF QueueTypeOK, AwakeTakers, Awake
    <3>2. Capacity - Len(items') <= 0
      BY <1>3, <2>2 DEF IsFull
    <3> QED BY <1>2, <1>3, <3>1, <3>2, AwakeFinite DEF EnoughAwake
  <2> QED BY <2>1, <2>2
<1> QED BY <1>1, <1>4 DEF QueueFifo

\* put() of an item: one more for the takers, one of whom is told.
LEMMA PutInv ==
  ASSUME QueueInv, NEW t \in QueueThreads, Put(t), ~IsFull
  PROVE  QueueInv'
<1> USE DEF QueueInv, At
<1>1. /\ queuePc[t] = "body" /\ call[t] \in Items /\ owner = t
      /\ UNCHANGED <<owner, holder, call, taken>>
      /\ items' = Append(items, call[t]) /\ pushed' = Append(pushed, call[t])
      /\ LeaveAndNotify(t, WaitingTakers)
  BY DEF Put, QueueTypeOK, LockRight, HoldingPcs
<1>2. PICK woken \in SUBSET WaitingTakers :
        /\ queuePc' = [u \in QueueThreads |-> queuePc'[u]]
        /\ \A u \in QueueThreads :
             queuePc'[u] = IF u = t THEN "leave"
                           ELSE IF u \in woken THEN "lock" ELSE queuePc[u]
        /\ IF WaitingTakers = {} THEN woken = {}
           ELSE \E w \in WaitingTakers : woken = {w}
  <2>1. /\ WaitingTakers \in SUBSET QueueThreads
        /\ \A w \in WaitingTakers : queuePc[w] = "waiting"
    BY DEF WaitingTakers
  <2>2. IF WaitingTakers = {} THEN Goto(t, "leave")
        ELSE \E w \in WaitingTakers :
               queuePc' = [queuePc EXCEPT ![t] = "leave", ![w] = "lock"]
    BY <1>1, Zenon DEF LeaveAndNotify
  <2> QED BY <1>1, <2>1, <2>2, NotifyEffect DEF Goto
<1>3. /\ woken \subseteq QueueThreads /\ t \notin woken
      /\ \A u \in woken : queuePc[u] = "waiting" /\ call[u] = Take
  BY <1>1 DEF WaitingTakers
<1>4. /\ items' \in Seq(Items) /\ pushed' \in Seq(Items)
      /\ Len(items) \in Nat /\ Len(items') = Len(items) + 1
      /\ Capacity \in Nat
  BY <1>1, AppendProperties, QueueAssumption DEF QueueTypeOK, QueueAssumption
<1>5. QueueTypeOK'
  BY <1>1, <1>2, <1>3, <1>4 DEF QueueTypeOK, IsFull
<1>6. LockRight'
  BY <1>1, <1>2, <1>3 DEF LockRight, HoldingPcs, QueueTypeOK
<1>7. SleepRight'
  BY <1>1, <1>2, <1>3 DEF SleepRight, LockRight, HoldingPcs, QueueTypeOK
<1>8. EnoughAwake'
  <2>1. WaitingTakers' = WaitingTakers \ woken /\ WaitingPutters' = WaitingPutters
    BY <1>1, <1>2, <1>3 DEF WaitingTakers, WaitingPutters, QueueTypeOK
  <2>2. ASSUME WaitingTakers' # {}
        PROVE  Cardinality(AwakeTakers') >= Len(items')
    <3>1. PICK w \in WaitingTakers : woken = {w}
      BY <1>2, <2>1, <2>2
    <3>2. w \notin AwakeTakers /\ AwakeTakers' = AwakeTakers \cup {w}
      BY <1>1, <1>2, <1>3, <3>1, QueueAssumption
         DEF AwakeTakers, Awake, QueueTypeOK, QueueAssumption
    <3>3. Cardinality(AwakeTakers') = Cardinality(AwakeTakers) + 1
      BY <3>2, AwakeFinite, FS_AddElement
    <3> QED BY <1>4, <3>3, AwakeFinite DEF EnoughAwake
  <2>3. ASSUME WaitingPutters' # {}
        PROVE  Cardinality(AwakePutters') >= Capacity - Len(items')
    <3>1. t \in AwakePutters /\ AwakePutters' = AwakePutters \ {t}
      BY <1>1, <1>2, <1>3, QueueAssumption
         DEF AwakePutters, Awake, QueueTypeOK, QueueAssumption
    <3>2. Cardinality(AwakePutters') = Cardinality(AwakePutters) - 1
      BY <3>1, AwakeFinite, FS_RemoveElement
    <3> QED BY <1>4, <2>1, <2>3, <3>2, AwakeFinite DEF EnoughAwake
  <2> QED BY <2>2, <2>3 DEF EnoughAwake
<1>9. QueueFifo'
  <2>1. taken \o Append(items, call[t]) = Append(taken \o items, call[t])
    BY <1>1, ConcatAppend DEF QueueTypeOK
  <2> QED BY <1>1, <2>1 DEF QueueFifo
<1> QED BY <1>1, <1>4, <1>5, <1>6, <1>7, <1>8, <1>9

\* take() of an item: one more place for the putters, one of whom is told.
LEMMA TakeInv ==
  ASSUME QueueInv, NEW t \in QueueThreads, TakeItem(t), items # <<>>
  PROVE  QueueInv'
<1> USE DEF QueueInv, At
<1>1. /\ queuePc[t] = "body" /\ call[t] = Take /\ owner = t
      /\ UNCHANGED <<owner, holder, call, pushed>>
      /\ items' = Tail(items) /\ taken' = Append(taken, Head(items))
      /\ LeaveAndNotify(t, WaitingPutters)
  BY DEF TakeItem, QueueTypeOK, LockRight, HoldingPcs
<1>2. PICK woken \in SUBSET WaitingPutters :
        /\ queuePc' = [u \in QueueThreads |-> queuePc'[u]]
        /\ \A u \in QueueThreads :
             queuePc'[u] = IF u = t THEN "leave"
                           ELSE IF u \in woken THEN "lock" ELSE queuePc[u]
        /\ IF WaitingPutters = {} THEN woken = {}
           ELSE \E w \in WaitingPutters : woken = {w}
  <2>1. /\ WaitingPutters \in SUBSET QueueThreads
        /\ \A w \in WaitingPutters : queuePc[w] = "waiting"
    BY DEF WaitingPutters
  <2>2. IF WaitingPutters = {} THEN Goto(t, "leave")
        ELSE \E w \in WaitingPutters :
               queuePc' = [queuePc EXCEPT ![t] = "leave", ![w] = "lock"]
    BY <1>1, Zenon DEF LeaveAndNotify
  <2> QED BY <1>1, <2>1, <2>2, NotifyEffect DEF Goto
<1>3. /\ woken \subseteq QueueThreads /\ t \notin woken
      /\ \A u \in woken : queuePc[u] = "waiting" /\ call[u] # Take
  BY <1>1 DEF WaitingPutters
<1>4. /\ items' \in Seq(Items) /\ taken' \in Seq(Items)
      /\ Len(items) \in Nat /\ Len(items') = Len(items) - 1
      /\ Capacity \in Nat
  <2>1. Head(items) \in Items /\ Tail(items) \in Seq(Items)
    BY HeadTailProperties DEF QueueTypeOK
  <2> QED BY <1>1, <2>1, HeadTailProperties, AppendProperties, QueueAssumption
          DEF QueueTypeOK, QueueAssumption
<1>5. QueueTypeOK'
  BY <1>1, <1>2, <1>3, <1>4 DEF QueueTypeOK
<1>6. LockRight'
  BY <1>1, <1>2, <1>3 DEF LockRight, HoldingPcs, QueueTypeOK
<1>7. SleepRight'
  BY <1>1, <1>2, <1>3 DEF SleepRight, LockRight, HoldingPcs, QueueTypeOK
<1>8. EnoughAwake'
  <2>1. WaitingPutters' = WaitingPutters \ woken /\ WaitingTakers' = WaitingTakers
    BY <1>1, <1>2, <1>3 DEF WaitingTakers, WaitingPutters, QueueTypeOK
  <2>2. ASSUME WaitingPutters' # {}
        PROVE  Cardinality(AwakePutters') >= Capacity - Len(items')
    <3>1. PICK w \in WaitingPutters : woken = {w}
      BY <1>2, <2>1, <2>2
    <3>2. w \notin AwakePutters /\ AwakePutters' = AwakePutters \cup {w}
      BY <1>1, <1>2, <1>3, <3>1 DEF AwakePutters, Awake, QueueTypeOK
    <3>3. Cardinality(AwakePutters') = Cardinality(AwakePutters) + 1
      BY <3>2, AwakeFinite, FS_AddElement
    <3> QED BY <1>4, <3>3, AwakeFinite DEF EnoughAwake
  <2>3. ASSUME WaitingTakers' # {}
        PROVE  Cardinality(AwakeTakers') >= Len(items')
    <3>1. t \in AwakeTakers /\ AwakeTakers' = AwakeTakers \ {t}
      BY <1>1, <1>2, <1>3 DEF AwakeTakers, Awake, QueueTypeOK
    <3>2. Cardinality(AwakeTakers') = Cardinality(AwakeTakers) - 1
      BY <3>1, AwakeFinite, FS_RemoveElement
    <3> QED BY <1>4, <2>1, <2>3, <3>2, AwakeFinite DEF EnoughAwake
  <2> QED BY <2>2, <2>3 DEF EnoughAwake
<1>9. QueueFifo'
  BY <1>1, ConcatMoveHead DEF QueueFifo, QueueTypeOK
<1> QED BY <1>1, <1>4, <1>5, <1>6, <1>7, <1>8, <1>9

\* The invariant of the blocking queues, for any threads, items and capacity.
THEOREM QueueInvariant == QueueSpec => []QueueInv
<1>1. QueueInit => QueueInv
  <2> SUFFICES ASSUME QueueInit PROVE QueueInv
    OBVIOUS
  <2>1. items \in Seq(Items) /\ pushed \in Seq(Items) /\ taken \in Seq(Items)
    BY DEF QueueInit
  <2>2. QueueTypeOK /\ LockRight /\ SleepRight
    BY <2>1, QueueAssumption
       DEF QueueInit, QueueTypeOK, LockRight, SleepRight, HoldingPcs,
           QueueAssumption
  <2>3. WaitingTakers = {} /\ WaitingPutters = {}
    BY DEF QueueInit, WaitingTakers, WaitingPutters, At
  <2>4. QueueFifo
    BY ConcatEmptySeq DEF QueueInit, QueueFifo
  <2> QED BY <2>1, <2>2, <2>3, <2>4 DEF QueueInv, EnoughAwake
<1>2. QueueInv /\ [QueueNext]_queueVars => QueueInv'
  <2> SUFFICES ASSUME QueueInv, [QueueNext]_queueVars
               PROVE  QueueInv'
    OBVIOUS
  <2>1. ASSUME NEW t \in QueueThreads, Put(t) \/ TakeItem(t)
        PROVE  QueueInv'
    <3>1. CASE Put(t) /\ IsFull
      BY <3>1, SleepInv DEF Put
    <3>2. CASE TakeItem(t) /\ items = <<>>
      BY <3>2, SleepInv DEF TakeItem
    <3> QED BY <2>1, <3>1, <3>2, PutInv, TakeInv
  <2>2. CASE UNCHANGED queueVars
    BY <2>2 DEF queueVars, QueueInv, QueueTypeOK, LockRight, SleepRight,
                IsFull, EnoughAwake, AwakeTakers, AwakePutters, Awake,
                WaitingTakers, WaitingPutters, At, QueueFifo
  <2> QED BY <2>1, <2>2, CallInv, MutexInv DEF QueueNext, QueueStep
<1> QED BY <1>1, <1>2, PTL DEF QueueSpec

\* isLockedByThisThread() is true exactly for the thread in the section, no
\* wakeup of a taker or putter is missing, and items come out as they went in.
THEOREM QueueAlwaysSound == QueueSpec => []QueueSound
<1>1. QueueInv => QueueSound
  BY DEF QueueInv, QueueSound, HolderRight, LockRight, HoldingPcs
<1> QED BY <1>1, QueueInvariant, PTL

-----------------------------------------------------------------------------
(* ThreadPool.                                                             *)

\* Until start() nobody has a task or a thread; a caller of run() that is not
\* through holds a task.
PoolStages ==
  /\ ~running /\ stopPc = "no" =>
       /\ tasks = <<>>
       /\ \A s \in Submitters : submitPc[s] = "idle"
  /\ \A s \in Submitters : submitPc[s] # "idle" => submits[s] \in Tasks

\* The two halves of PoolWakes: notEmpty_ and notFull_.
WorkersAwake ==
  running /\ WaitingWorkers # {} => Cardinality(TakingWorkers) >= Len(tasks)
SubmittersAwake ==
  WaitingSubmitters # {} =>
    Cardinality(RunningSubmitters) >= maxQueueSize - Len(tasks)

\* Workers are created after start() has stored running_, and one that has begun
\* a task after stop() takes no other.
WorkerStages ==
  /\ ~running /\ stopPc = "no" => \A w \in Workers : workerPc[w] = "none"
  /\ toStart # {} => running
  /\ \A w \in toStart : workerPc[w] = "none"
  /\ \A w \in Workers : late[w] # 0 =>
       /\ late[w] = 1 /\ ~running /\ stopPc # "no"
       /\ workerPc[w] \in {"task", "loop", "ended"}

\* The inductive invariant behind PoolSound.
PoolInv ==
  /\ PoolTypeOK
  /\ accepted \in Seq(Tasks) /\ begun \in Seq(Tasks)
  /\ PoolStages
  /\ WorkersAwake /\ SubmittersAwake
  /\ accepted = begun \o tasks
  /\ WorkerStages

\* The threads on their way can be counted.
LEMMA PoolFinite ==
  /\ IsFiniteSet(TakingWorkers) /\ Cardinality(TakingWorkers) \in Nat
  /\ IsFiniteSet(RunningSubmitters) /\ Cardinality(RunningSubmitters) \in Nat
  /\ IsFiniteSet(TakingWorkers') /\ Cardinality(TakingWorkers') \in Nat
  /\ IsFiniteSet(RunningSubmitters') /\ Cardinality(RunningSubmitters') \in Nat
<1>1. /\ TakingWorkers \in SUBSET Workers /\ TakingWorkers' \in SUBSET Workers
      /\ RunningSubmitters \in SUBSET Submitters
      /\ RunningSubmitters' \in SUBSET Submitters
  BY DEF TakingWorkers, RunningSubmitters
<1> QED
  BY <1>1, PoolAssumption, FS_Subset, FS_CardinalityType DEF PoolAssumption

\* The bounds of the queue are numbers.
LEMMA PoolNumbers ==
  PoolTypeOK => Len(tasks) \in Nat /\ maxQueueSize \in Nat
BY PoolAssumption DEF PoolAssumption, PoolTypeOK

\* A step that stops no worker on its way and adds none that waits.
LEMMA MoreWorkersAwake ==
  ASSUME PoolTypeOK, WorkersAwake, UNCHANGED tasks, running' => running,
         TakingWorkers \subseteq TakingWorkers',
         WaitingWorkers' \subseteq WaitingWorkers
  PROVE  WorkersAwake'
<1>1. Cardinality(TakingWorkers) <= Cardinality(TakingWorkers')
  BY PoolFinite, FS_Subset
<1> QED BY <1>1, PoolFinite, PoolNumbers DEF WorkersAwake

\* The same for the callers of run().
LEMMA MoreSubmittersAwake ==
  ASSUME PoolTypeOK, SubmittersAwake, UNCHANGED <<tasks, maxQueueSize>>,
         RunningSubmitters \subseteq RunningSubmitters',
         WaitingSubmitters' \subseteq WaitingSubmitters
  PROVE  SubmittersAwake'
<1>1. Cardinality(RunningSubmitters) <= Cardinality(RunningSubmitters')
  BY PoolFinite, FS_Subset
<1> QED BY <1>1, PoolFinite, PoolNumbers DEF SubmittersAwake

\* notify() of notEmpty_ sends at most one waiting worker to take().
LEMMA NotifyWorkerEffect ==
  ASSUME PoolTypeOK, NotifyWorker
  PROVE  /\ workerPc' = [w \in Workers |-> workerPc'[w]]
         /\ \E woken \in SUBSET WaitingWorkers :
              /\ \A w \in Workers :
                   workerPc'[w] = IF w \in woken THEN "take" ELSE workerPc[w]
              /\ IF WaitingWorkers = {} THEN woken = {}
                 ELSE \E w \in WaitingWorkers : woken = {w}
<1>1. CASE WaitingWorkers = {}
  BY <1>1 DEF NotifyWorker, PoolTypeOK
<1>2. CASE WaitingWorkers # {}
  <2>1. PICK w \in WaitingWorkers : workerPc' = [workerPc EXCEPT ![w] = "take"]
    BY <1>2 DEF NotifyWorker
  <2>2. /\ w \in Workers /\ {w} \in SUBSET WaitingWorkers
        /\ workerPc' = [v \in Workers |-> workerPc'[v]]
        /\ \A v \in Workers :
             workerPc'[v] = IF v \in {w} THEN "take" ELSE workerPc[v]
    BY <2>1 DEF WaitingWorkers, PoolTypeOK
  <2> QED BY <1>2, <2>2
<1> QED BY <1>1, <1>2

\* notify() of notFull_ sends at most one waiting caller back to its test.
LEMMA NotifySubmitterEffect ==
  ASSUME PoolTypeOK, NotifySubmitter
  PROVE  /\ submitPc' = [s \in Submitters |-> submitPc'[s]]
         /\ \E woken \in SUBSET WaitingSubmitters :
              /\ \A s \in Submitters :
                   submitPc'[s] = IF s \in woken THEN "run" ELSE submitPc[s]
              /\ IF WaitingSubmitters = {} THEN woken = {}
                 ELSE \E s \in WaitingSubmitters : woken = {s}
<1>1. CASE WaitingSubmitters = {}
  BY <1>1 DEF NotifySubmitter, PoolTypeOK
<1>2. CASE WaitingSubmitters # {}
  <2>1. PICK s \in WaitingSubmitters :
          submitPc' = [submitPc EXCEPT ![s] = "run"]
    BY <1>2 DEF NotifySubmitter
  <2>2. /\ s \in Submitters /\ {s} \in SUBSET WaitingSubmitters
        /\ submitPc' = [r \in Submitters |-> submitPc'[r]]
        /\ \A r \in Submitters :
             submitPc'[r] = IF r \in {s} THEN "run" ELSE submitPc[r]
    BY <2>1 DEF WaitingSubmitters, PoolTypeOK
  <2> QED BY <1>2, <2>2
<1> QED BY <1>1, <1>2

\* Setting the bound, start() and stop().
LEMMA PoolControlInv ==
  ASSUME PoolInv,
         \/ \E n \in QueueSizes : SetMaxQueueSize(n)
         \/ \E n \in {0} \cup Workers : StartPool(n)
         \/ \E w \in Workers : CreateWorker(w)
         \/ StopPool \/ JoinWorkers
  PROVE  PoolInv'
<1> USE DEF PoolInv
<1>1. UNCHANGED <<submitPc, submits, tasks, accepted, begun, late>>
  BY DEF SetMaxQueueSize, StartPool, CreateWorker, StopPool, JoinWorkers
<1>2. CASE \E n \in QueueSizes : SetMaxQueueSize(n)
  <2>1. WaitingSubmitters' = {}
    BY <1>1, <1>2 DEF SetMaxQueueSize, PoolStages, WaitingSubmitters
  <2>2. Len(tasks') = 0
    BY <1>1, <1>2 DEF SetMaxQueueSize, PoolStages
  <2>3. PoolTypeOK' /\ PoolStages'
    BY <1>1, <1>2, <2>2, PoolAssumption
       DEF SetMaxQueueSize, PoolTypeOK, PoolStages, PoolAssumption
  <2>4. WorkersAwake'
    BY <1>2 DEF SetMaxQueueSize, WorkersAwake
  <2>5. WorkerStages'
    BY <1>1, <1>2 DEF SetMaxQueueSize, WorkerStages
  <2> QED BY <1>1, <2>1, <2>3, <2>4, <2>5 DEF SubmittersAwake
<1>3. CASE \/ \E n \in {0} \cup Workers : StartPool(n)
           \/ \E w \in Workers : CreateWorker(w)
  <2>1. PoolTypeOK'
    BY <1>1, <1>3 DEF StartPool, CreateWorker, PoolTypeOK
  <2>2. PoolStages'
    BY <1>1, <1>3 DEF StartPool, CreateWorker, PoolStages
  <2>3. SubmittersAwake'
    BY <1>1, <1>3, MoreSubmittersAwake
       DEF StartPool, CreateWorker, RunningSubmitters, WaitingSubmitters
  <2>4. CASE \E n \in {0} \cup Workers : StartPool(n)
    <3>1. tasks' = <<>> /\ Len(tasks') = 0
      BY <1>1, <2>4 DEF StartPool, PoolStages
    <3>2. WorkersAwake'
      BY <3>1, PoolFinite DEF WorkersAwake
    <3>3. WorkerStages'
      BY <1>1, <2>4 DEF StartPool, WorkerStages
    <3> QED BY <1>1, <2>1, <2>2, <2>3, <3>2, <3>3
  <2>5. ASSUME NEW w \in Workers, CreateWorker(w)
        PROVE  PoolInv'
    <3>1. UNCHANGED <<running, stopPc>>
      BY <2>5 DEF CreateWorker
    <3>2. /\ workerPc' = [workerPc EXCEPT ![w] = "loop"]
          /\ workerPc[w] = "none"
      BY <2>5 DEF CreateWorker, WorkerStages
    <3>3. /\ TakingWorkers' = TakingWorkers
          /\ WaitingWorkers' = WaitingWorkers
      BY <3>2 DEF TakingWorkers, WaitingWorkers, PoolTypeOK
    <3>4. WorkersAwake'
      BY <1>1, <3>1, <3>3 DEF WorkersAwake
    <3>5. WorkerStages'
      <4>1. /\ w \in toStart /\ toStart' = toStart \ {w} /\ running
            /\ \A v \in Workers : late[v] = 0
        BY <2>5 DEF CreateWorker, WorkerStages
      <4>2. \A v \in toStart' : workerPc'[v] = "none"
        BY <3>2, <4>1 DEF WorkerStages, PoolTypeOK
      <4> QED BY <1>1, <3>1, <4>1, <4>2 DEF WorkerStages
    <3> QED BY <1>1, <2>1, <2>2, <2>3, <3>4, <3>5
  <2> QED BY <1>3, <2>4, <2>5
<1>4. CASE StopPool \/ JoinWorkers
  <2>1. PoolTypeOK' /\ PoolStages'
    BY <1>1, <1>4 DEF StopPool, JoinWorkers, PoolTypeOK, PoolStages
  <2>2. WorkersAwake'
    BY <1>1, <1>4 DEF StopPool, JoinWorkers, WorkersAwake, WaitingWorkers,
                      TakingWorkers
  <2>3. SubmittersAwake'
    BY <1>1, <1>4, MoreSubmittersAwake
       DEF StopPool, JoinWorkers, RunningSubmitters, WaitingSubmitters
  <2>4. WorkerStages'
    BY <1>1, <1>4 DEF StopPool, JoinWorkers, WorkerStages, PoolTypeOK
  <2> QED BY <1>1, <2>1, <2>2, <2>3, <2>4
<1> QED BY <1>2, <1>3, <1>4

\* The steps of a worker that take no task.
LEMMA WorkerInv ==
  ASSUME PoolInv, NEW w \in Workers,
         \/ WorkerLoop(w) \/ TakeWaits(w) \/ TakeNothing(w) \/ TaskEnds(w)
         \/ /\ workerPc[w] = "waiting"
            /\ workerPc' = [workerPc EXCEPT ![w] = "take"]
            /\ UNCHANGED <<maxQueueSize, running, submitPc, submits, tasks,
                           toStart, stopPc, accepted, begun, late>>
  PROVE  PoolInv'
<1> USE DEF PoolInv
<1>1. UNCHANGED <<maxQueueSize, running, submitPc, submits, tasks, toStart,
                  stopPc, accepted, begun, late>>
  BY DEF WorkerLoop, TakeWaits, TakeNothing, TaskEnds
<1>2. PoolTypeOK' /\ PoolStages'
  BY <1>1 DEF PoolTypeOK, PoolStages, WorkerLoop, TakeWaits, TakeNothing,
              TaskEnds
<1>3. SubmittersAwake'
  BY <1>1, MoreSubmittersAwake DEF RunningSubmitters, WaitingSubmitters
<1>4. WorkersAwake'
  <2>1. CASE TakeWaits(w)
    <3>1. Len(tasks') = 0
      BY <1>1, <2>1 DEF TakeWaits
    <3> QED BY <3>1, PoolFinite DEF WorkersAwake
  <2>2. CASE TakeNothing(w)
    BY <1>1, <2>2 DEF TakeNothing, WorkersAwake
  <2>3. CASE ~TakeWaits(w) /\ ~TakeNothing(w)
    <3>1. /\ TakingWorkers \subseteq TakingWorkers'
          /\ WaitingWorkers' \subseteq WaitingWorkers
      BY <2>3 DEF PoolTypeOK, TakingWorkers, WaitingWorkers, WorkerLoop,
                  TaskEnds
    <3> QED BY <1>1, <3>1, MoreWorkersAwake
  <2> QED BY <2>1, <2>2, <2>3
<1>5. WorkerStages'
  BY <1>1 DEF WorkerLoop, TakeWaits, TakeNothing, TaskEnds, WorkerStages,
              PoolTypeOK
<1> QED BY <1>1, <1>2, <1>3, <1>4, <1>5

\* The steps of a caller of run() that push no task.
LEMMA SubmitterInv ==
  ASSUME PoolInv, NEW s \in Submitters,
         \/ \E task \in Tasks : Submit(s, task)
         \/ RunWaits(s)
         \/ /\ submitPc[s] = "waiting"
            /\ submitPc' = [submitPc EXCEPT ![s] = "run"]
            /\ UNCHANGED <<maxQueueSize, running, workerPc, submits, tasks,
                           toStart, stopPc, accepted, begun, late>>
  PROVE  PoolInv'
<1> USE DEF PoolInv
<1>1. UNCHANGED <<maxQueueSize, running, workerPc, tasks, toStart, stopPc,
                  accepted, begun, late>>
  BY DEF Submit, RunWaits
<1>2. PoolTypeOK' /\ PoolStages'
  <2>1. CASE \E task \in Tasks : Submit(s, task)
    BY <1>1, <2>1 DEF PoolTypeOK, PoolStages, Submit
  <2>2. CASE ~\E task \in Tasks : Submit(s, task)
    BY <1>1, <2>2 DEF PoolTypeOK, PoolStages, RunWaits
  <2> QED BY <2>1, <2>2
<1>3. WorkersAwake'
  BY <1>1, MoreWorkersAwake DEF TakingWorkers, WaitingWorkers
<1>4. SubmittersAwake'
  <2>1. CASE RunWaits(s)
    <3>1. maxQueueSize' - Len(tasks') <= 0
      BY <1>1, <2>1, PoolNumbers DEF RunWaits, IsPoolFull
    <3> QED BY <1>1, <3>1, PoolFinite, PoolNumbers DEF SubmittersAwake
  <2>2. CASE ~RunWaits(s)
    <3>1. /\ RunningSubmitters \subseteq RunningSubmitters'
          /\ WaitingSubmitters' \subseteq WaitingSubmitters
      BY <2>2 DEF PoolTypeOK, RunningSubmitters, WaitingSubmitters, Submit
    <3> QED BY <1>1, <3>1, MoreSubmittersAwake
  <2> QED BY <2>1, <2>2
<1>5. WorkerStages'
  BY <1>1 DEF WorkerStages
<1> QED BY <1>1, <1>2, <1>3, <1>4, <1>5

\* run() pushes its task: one more for the workers, one of whom is told.
LEMMA RunPushesInv ==
  ASSUME PoolInv, NEW s \in Submitters, RunPushes(s)
  PROVE  PoolInv'
<1> USE DEF PoolInv
<1>1. /\ submitPc[s] = "run" /\ submits[s] \in Tasks /\ ~IsPoolFull
      /\ tasks' = Append(tasks, submits[s])
      /\ accepted' = Append(accepted, submits[s])
      /\ submits' = [submits EXCEPT ![s] = NoTask]
      /\ submitPc' = [submitPc EXCEPT ![s] = "idle"]
      /\ UNCHANGED <<maxQueueSize, running, toStart, stopPc, begun, late>>
  BY DEF RunPushes, PoolStages
<1>2. PICK woken \in SUBSET WaitingWorkers :
        /\ \A w \in Workers :
             workerPc'[w] = IF w \in woken THEN "take" ELSE workerPc[w]
        /\ IF WaitingWorkers = {} THEN woken = {}
           ELSE \E w \in WaitingWorkers : woken = {w}
  BY NotifyWorkerEffect DEF RunPushes
<1>3. /\ woken \subseteq Workers /\ \A w \in woken : workerPc[w] = "waiting"
      /\ workerPc' = [w \in Workers |-> workerPc'[w]]
  BY NotifyWorkerEffect DEF RunPushes, WaitingWorkers
<1>4. /\ tasks' \in Seq(Tasks) /\ accepted' \in Seq(Tasks)
      /\ Len(tasks) \in Nat /\ Len(tasks') = Len(tasks) + 1
      /\ maxQueueSize \in Nat
  BY <1>1, AppendProperties, PoolNumbers DEF PoolTypeOK
<1>5. PoolTypeOK'
  BY <1>1, <1>2, <1>3, <1>4 DEF PoolTypeOK, IsPoolFull
<1>6. PoolStages'
  BY <1>1 DEF PoolStages, PoolTypeOK
<1>7. WorkersAwake'
  <2> SUFFICES ASSUME running', WaitingWorkers' # {}
               PROVE  Cardinality(TakingWorkers') >= Len(tasks')
    BY DEF WorkersAwake
  <2>1. WaitingWorkers' = WaitingWorkers \ woken
    BY <1>2, <1>3 DEF WaitingWorkers
  <2>2. PICK w \in WaitingWorkers : woken = {w}
    BY <1>2, <2>1
  <2>3. w \notin TakingWorkers /\ TakingWorkers' = TakingWorkers \cup {w}
    BY <1>2, <1>3, <2>2 DEF TakingWorkers
  <2>4. Cardinality(TakingWorkers') = Cardinality(TakingWorkers) + 1
    BY <2>3, PoolFinite, FS_AddElement
  <2> QED BY <1>1, <1>4, <2>4, PoolFinite DEF WorkersAwake
<1>8. SubmittersAwake'
  <2> SUFFICES ASSUME WaitingSubmitters' # {}
               PROVE  Cardinality(RunningSubmitters')
                        >= maxQueueSize' - Len(tasks')
    BY DEF SubmittersAwake
  <2>1. /\ WaitingSubmitters' = WaitingSubmitters
        /\ s \in RunningSubmitters
        /\ RunningSubmitters' = RunningSubmitters \ {s}
    BY <1>1 DEF WaitingSubmitters, RunningSubmitters, PoolTypeOK
  <2>2. Cardinality(RunningSubmitters') = Cardinality(RunningSubmitters) - 1
    BY <2>1, PoolFinite, FS_RemoveElement
  <2> QED BY <1>1, <1>4, <2>1, <2>2, PoolFinite DEF SubmittersAwake
<1>9. accepted' = begun' \o tasks'
  <2>1. begun \o Append(tasks, submits[s]) = Append(begun \o tasks, submits[s])
    BY <1>1, ConcatAppend DEF PoolTypeOK
  <2> QED BY <1>1, <2>1
<1>10. WorkerStages'
  <2>1. \A w \in Workers : workerPc'[w] # workerPc[w] =>
          workerPc[w] = "waiting" /\ workerPc'[w] = "take"
    BY <1>2, <1>3
  <2> QED BY <1>1, <2>1 DEF WorkerStages, PoolTypeOK
<1> QED BY <1>1, <1>4, <1>5, <1>6, <1>7, <1>8, <1>9, <1>10

\* take() of a task: one more place for the callers of run(), one of whom is
\* told; without a bound none waits for a place.
LEMMA TakeTaskInv ==
  ASSUME PoolInv, NEW w \in Workers, TakeTask(w)
  PROVE  PoolInv'
<1> USE DEF PoolInv
<1>1. /\ workerPc[w] = "take" /\ tasks # <<>>
      /\ tasks' = Tail(tasks) /\ begun' = Append(begun, Head(tasks))
      /\ workerPc' = [workerPc EXCEPT ![w] = "task"]
      /\ UNCHANGED <<maxQueueSize, running, submits, toStart, stopPc,
                     accepted>>
      /\ late' = IF running THEN late ELSE [late EXCEPT ![w] = @ + 1]
      /\ running \/ stopPc # "no"
  BY DEF TakeTask, PoolStages
<1>2. PICK woken \in SUBSET WaitingSubmitters :
        /\ submitPc' = [s \in Submitters |-> submitPc'[s]]
        /\ \A s \in Submitters :
             submitPc'[s] = IF s \in woken THEN "run" ELSE submitPc[s]
        /\ IF WaitingSubmitters = {} THEN woken = {}
           ELSE maxQueueSize > 0 => \E s \in WaitingSubmitters : woken = {s}
  <2>1. CASE maxQueueSize > 0
    BY <2>1, NotifySubmitterEffect DEF TakeTask
  <2>2. CASE ~(maxQueueSize > 0)
    <3>1. submitPc' = submitPc
      BY <2>2 DEF TakeTask
    <3>2. /\ {} \in SUBSET WaitingSubmitters
          /\ submitPc' = [s \in Submitters |-> submitPc'[s]]
          /\ \A s \in Submitters :
               submitPc'[s] = IF s \in {} THEN "run" ELSE submitPc[s]
      BY <3>1 DEF PoolTypeOK
    <3> QED BY <2>2, <3>2
  <2> QED BY <2>1, <2>2
<1>3. woken \subseteq Submitters /\ \A s \in woken : submitPc[s] = "waiting"
  BY DEF WaitingSubmitters
<1>4. /\ tasks' \in Seq(Tasks) /\ begun' \in Seq(Tasks)
      /\ Len(tasks) \in Nat /\ Len(tasks') = Len(tasks) - 1
      /\ maxQueueSize \in Nat
  <2>1. Head(tasks) \in Tasks /\ Tail(tasks) \in Seq(Tasks)
    BY <1>1, HeadTailProperties DEF PoolTypeOK
  <2> QED BY <1>1, <2>1, HeadTailProperties, AppendProperties, PoolNumbers
          DEF PoolTypeOK
<1>5. PoolTypeOK'
  BY <1>1, <1>2, <1>3, <1>4 DEF PoolTypeOK
<1>6. PoolStages'
  BY <1>1, <1>2, <1>3 DEF PoolStages
<1>7. WorkersAwake'
  <2> SUFFICES ASSUME running', WaitingWorkers' # {}
               PROVE  Cardinality(TakingWorkers') >= Len(tasks')
    BY DEF WorkersAwake
  <2>1. /\ WaitingWorkers' = WaitingWorkers
        /\ w \in TakingWorkers /\ TakingWorkers' = TakingWorkers \ {w}
    BY <1>1 DEF WaitingWorkers, TakingWorkers, PoolTypeOK
  <2>2. Cardinality(TakingWorkers') = Cardinality(TakingWorkers) - 1
    BY <2>1, PoolFinite, FS_RemoveElement
  <2> QED BY <1>1, <1>4, <2>1, <2>2, PoolFinite DEF WorkersAwake
<1>8. SubmittersAwake'
  <2> SUFFICES ASSUME WaitingSubmitters' # {}
               PROVE  Cardinality(RunningSubmitters')
                        >= maxQueueSize' - Len(tasks')
    BY DEF SubmittersAwake
  <2>1. CASE maxQueueSize > 0
    <3>1. WaitingSubmitters' = WaitingSubmitters \ woken
      BY <1>2, <1>3 DEF WaitingSubmitters
    <3>2. PICK s \in WaitingSubmitters : woken = {s}
      BY <1>2, <2>1, <3>1
    <3>3. /\ s \notin RunningSubmitters
          /\ RunningSubmitters' = RunningSubmitters \cup {s}
      BY <1>2, <1>3, <3>2 DEF RunningSubmitters
    <3>4. Cardinality(RunningSubmitters') = Cardinality(RunningSubmitters) + 1
      BY <3>3, PoolFinite, FS_AddElement
    <3> QED BY <1>1, <1>4, <3>4, PoolFinite DEF SubmittersAwake
  <2>2. CASE ~(maxQueueSize > 0)
    <3>1. Len(tasks') \in Nat
      BY <1>4
    <3> QED BY <1>1, <1>4, <2>2, <3>1, PoolFinite
  <2> QED BY <2>1, <2>2
<1>9. accepted' = begun' \o tasks'
  <2>1. Append(begun, Head(tasks)) \o Tail(tasks) = begun \o tasks
    BY <1>1, ConcatMoveHead DEF PoolTypeOK
  <2> QED BY <1>1, <2>1
<1>10. WorkerStages'
  <2>1. late[w] = 0
    BY <1>1 DEF WorkerStages
  <2> QED BY <1>1, <2>1 DEF WorkerStages, PoolTypeOK
<1> QED BY <1>1, <1>4, <1>5, <1>6, <1>7, <1>8, <1>9, <1>10

\* The invariant of the pool, for any workers, callers and tasks.
THEOREM PoolInvariant == PoolSpec => []PoolInv
<1>1. PoolInit => PoolInv
  <2> SUFFICES ASSUME PoolInit PROVE PoolInv
    OBVIOUS
  <2>1. tasks \in Seq(Tasks) /\ accepted \in Seq(Tasks) /\ begun \in Seq(Tasks)
    BY DEF PoolInit
  <2>2. PoolTypeOK
    <3>1. /\ workerPc \in [Workers -> {"none", "loop", "take", "waiting", "task",
                                     "ended"}]
          /\ submitPc \in [Submitters -> {"idle", "run", "waiting"}]
          /\ submits \in [Submitters -> Tasks \cup {NoTask}]
      BY DEF PoolInit
    <3>2. maxQueueSize \in QueueSizes /\ ~(maxQueueSize > 0)
      BY PoolAssumption DEF PoolInit, PoolAssumption
    <3> QED BY <2>1, <3>1, <3>2 DEF PoolInit, PoolTypeOK
  <2>3. PoolStages
    BY DEF PoolInit, PoolStages
  <2>4. WorkersAwake /\ SubmittersAwake
    BY DEF PoolInit, WorkersAwake, SubmittersAwake, WaitingSubmitters
  <2>5. accepted = begun \o tasks /\ WorkerStages
    BY ConcatEmptySeq DEF PoolInit, WorkerStages
  <2> QED BY <2>1, <2>2, <2>3, <2>4, <2>5 DEF PoolInv
<1>2. PoolInv /\ [PoolNext]_poolStateVars => PoolInv'
  <2> SUFFICES ASSUME PoolInv, [PoolNext]_poolStateVars
               PROVE  PoolInv'
    OBVIOUS
  <2>1. CASE WakeSpuriously
    <3>1. ASSUME NEW w \in WaitingWorkers,
                 workerPc' = [workerPc EXCEPT ![w] = "take"],
                 UNCHANGED <<maxQueueSize, running, submitPc, submits, tasks,
                             toStart, stopPc, accepted, begun, late>>
          PROVE  PoolInv'
      <4>1. w \in Workers /\ workerPc[w] = "waiting"
        BY <3>1 DEF WaitingWorkers
      <4> QED BY <3>1, <4>1, WorkerInv
    <3>2. ASSUME NEW s \in WaitingSubmitters,
                 submitPc' = [submitPc EXCEPT ![s] = "run"],
                 UNCHANGED <<maxQueueSize, running, workerPc, submits, tasks,
                             toStart, stopPc, accepted, begun, late>>
          PROVE  PoolInv'
      <4>1. s \in Submitters /\ submitPc[s] = "waiting"
        BY <3>2 DEF WaitingSubmitters
      <4> QED BY <3>2, <4>1, SubmitterInv
    <3> QED BY <2>1, <3>1, <3>2 DEF WakeSpuriously
  <2>2. CASE UNCHANGED poolStateVars
    BY <2>2 DEF poolStateVars, PoolInv, PoolTypeOK, PoolStages, WorkersAwake,
                SubmittersAwake, WorkerStages, WaitingWorkers, WaitingSubmitters,
                TakingWorkers, RunningSubmitters
  <2>3. ASSUME NEW s \in Submitters, SubmitStep(s)
        PROVE  PoolInv'
    BY <2>3, SubmitterInv, RunPushesInv DEF SubmitStep
  <2>4. ASSUME NEW w \in Workers, WorkerStep(w)
        PROVE  PoolInv'
    BY <2>4, WorkerInv, TakeTaskInv DEF WorkerStep
  <2>5. ASSUME NEW s \in Submitters, NEW task \in Tasks, Submit(s, task)
        PROVE  PoolInv'
    BY <2>5, SubmitterInv
  <2> QED BY <2>1, <2>2, <2>3, <2>4, <2>5, PoolControlInv DEF PoolNext
<1> QED BY <1>1, <1>2, PTL DEF PoolSpec

\* One notify() per push and per take is enough, and workers begin the tasks
\* in the order run() accepted them, each once, and at most one each after
\* stop().
THEOREM PoolAlwaysSound == PoolSpec => []PoolSound
<1>1. PoolInv => PoolSound
  BY DEF PoolInv, PoolSound, PoolWakes, WorkersAwake, SubmittersAwake,
         WorkerStages, PoolTypeOK
<1> QED BY <1>1, PoolInvariant, PTL

-----------------------------------------------------------------------------
(* AsyncLogging: the writer's spare buffers.                               *)

\* append() has used nextBuffer_ up only if a full buffer waits to be taken,
\* so that one round takes at least as many buffers as it gives away.
SpareBuffersInv ==
  /\ lines \in Nat /\ current \in Seq(Nat) /\ full \in Seq(Seq(Nat))
  /\ {nextBuffer, newBuffer1, newBuffer2} \subseteq BOOLEAN
  /\ nextBuffer = FALSE => full # <<>>
  /\ writerPc \in {"none", "loop", "lock", "waiting", "swap"} =>
       newBuffer1 = TRUE /\ newBuffer2 = TRUE
  /\ writerPc = "write" =>
       /\ Len(toWrite) \in Nat /\ Len(toWrite) >= 1
       /\ newBuffer2 = FALSE => Len(toWrite) >= 2

\* append() swaps its own buffers.
LEMMA AppendLineInv ==
  ASSUME SpareBuffersInv, AppendLine
  PROVE  SpareBuffersInv'
<1>1. /\ lines' \in Nat /\ <<lines'>> \in Seq(Nat)
      /\ Append(current, lines') \in Seq(Nat)
  BY DEF SpareBuffersInv, AppendLine
<1>2. Append(full, current) \in Seq(Seq(Nat)) /\ Append(full, current) # <<>>
  BY AppendProperties DEF SpareBuffersInv
<1>3. CASE Len(current) < BufferLines
  BY <1>1, <1>3 DEF SpareBuffersInv, AppendLine, writerVars
<1>4. CASE ~(Len(current) < BufferLines)
  BY <1>1, <1>2, <1>4 DEF SpareBuffersInv, AppendLine, NotifyWriter, writerVars
<1> QED BY <1>3, <1>4

\* The writer takes every full buffer and the current one, and gives its two.
LEMMA SwapInv ==
  ASSUME SpareBuffersInv, Swap
  PROVE  SpareBuffersInv'
<1> DEFINE all == Append(full, current)
           cut == <<<<0>>>> \o SubSeq(all, 1, 2)
<1>1. /\ all \in Seq(Seq(Nat)) /\ Len(all) = Len(full) + 1
      /\ Len(full) \in Nat /\ (full # <<>> => Len(full) >= 1)
  BY AppendProperties DEF SpareBuffersInv
<1>2. toWrite' = IF Len(all) > DropOver THEN cut ELSE all
  BY DEF Swap
<1>3. Len(toWrite') \in Nat /\ Len(toWrite') >= 1
      /\ (full # <<>> => Len(toWrite') >= 2)
  <2>1. CASE Len(all) > DropOver
    <3>1. \A i \in 1 .. 2 : all[i] \in Seq(Nat)
      BY <1>1, <2>1, ElementOfSeq, LoggingAssumption DEF LoggingAssumption
    <3> HIDE DEF all
    <3>2. SubSeq(all, 1, 2) \in Seq(Seq(Nat)) /\ Len(SubSeq(all, 1, 2)) = 2
      BY <1>1, <2>1, <3>1, LoggingAssumption DEF LoggingAssumption
    <3>3. <<<<0>>>> \in Seq(Seq(Nat)) /\ Len(<<<<0>>>>) = 1
      OBVIOUS
    <3>4. Len(toWrite') = 3
      BY <1>2, <2>1, <3>2, <3>3, ConcatProperties
    <3> QED BY <3>4
  <2>2. CASE ~(Len(all) > DropOver)
    <3> HIDE DEF all, cut
    <3> QED BY <1>1, <1>2, <2>2
  <2> QED BY <2>1, <2>2
<1>4. /\ newBuffer1' = FALSE /\ nextBuffer' = TRUE /\ newBuffer2' = nextBuffer
      /\ writerPc' = "write" /\ full' = <<>> /\ current' = <<>>
      /\ lines' = lines
  BY DEF SpareBuffersInv, Swap
<1>5. <<>> \in Seq(Nat) /\ <<>> \in Seq(Seq(Nat))
  OBVIOUS
<1> HIDE DEF all, cut
<1> QED BY <1>3, <1>4, <1>5 DEF SpareBuffersInv

\* The assertion of threadFunc() holds each round: whatever is appended, at
\* whatever moment, resize(2) leaves enough to make both spare buffers of.
THEOREM SpareBuffersAlwaysReady == LoggingSpec => []SpareBuffersReady
<1>1. LoggingInit => SpareBuffersInv
  <2>1. <<>> \in Seq(Nat) /\ <<>> \in Seq(Seq(Nat))
    OBVIOUS
  <2> QED BY <2>1 DEF LoggingInit, SpareBuffersInv
<1>2. SpareBuffersInv /\ [LoggingNext]_loggingVars => SpareBuffersInv'
  <2> SUFFICES ASSUME SpareBuffersInv, [LoggingNext]_loggingVars
               PROVE  SpareBuffersInv'
    OBVIOUS
  <2> USE DEF SpareBuffersInv, bufferVars, writerVars
  <2>1. CASE StartLogging
    BY <2>1 DEF StartLogging
  <2>2. CASE StopLogging
    BY <2>2 DEF StopLogging, NotifyWriter
  <2>3. CASE WriterLoop
    BY <2>3 DEF WriterLoop
  <2>4. CASE WriterWaits \/ WaitEnds
    BY <2>4 DEF WriterWaits, WaitEnds
  <2>5. CASE WriteBuffer
    BY <2>5 DEF WriteBuffer
  <2>6. CASE Refill
    <3>1. KeptBuffers > 0 /\ (newBuffer2 = FALSE => KeptBuffers > 1)
      BY <2>6 DEF Refill, KeptBuffers
    <3>2. newBuffer1' = TRUE /\ newBuffer2' = TRUE
      BY <2>6, <3>1 DEF Refill
    <3> QED BY <2>6, <3>2 DEF Refill
  <2>7. ASSUME NEW now \in Seconds, SetClock(now)
        PROVE  SpareBuffersInv'
    BY <2>7 DEF SetClock
  <2>8. CASE UNCHANGED loggingVars
    BY <2>8 DEF loggingVars
  <2> QED BY <2>1, <2>2, <2>3, <2>4, <2>5, <2>6, <2>7, <2>8, AppendLineInv,
             SwapInv DEF LoggingNext, WriterStep
<1>3. SpareBuffersInv => SpareBuffersReady
  BY DEF SpareBuffersInv, SpareBuffersReady
<1> QED BY <1>1, <1>2, <1>3, PTL DEF LoggingSpec

-----------------------------------------------------------------------------
(* AsyncLogging: the order of the lines.                                   *)

\* All of X before all of Y.
Below(X, Y) == \A k \in X, l \in Y : k < l

\* What is written behind something else comes after it.
LEMMA LinesConcat ==
  ASSUME NEW s \in Seq(Nat), NEW t \in Seq(Nat)
  PROVE  /\ s \o t \in Seq(Nat)
         /\ LinesOf(s \o t) = LinesOf(s) \cup LinesOf(t)
         /\ LinesOf(s) \subseteq Nat
         /\ Ascends(s \o t) <=>
              Ascends(s) /\ Ascends(t) /\ Below(LinesOf(s), LinesOf(t))
<1> DEFINE u == s \o t
<1>1. /\ u \in Seq(Nat) /\ Len(s) \in Nat /\ Len(t) \in Nat
      /\ Len(u) = Len(s) + Len(t)
      /\ DOMAIN s = 1 .. Len(s) /\ DOMAIN t = 1 .. Len(t)
      /\ DOMAIN u = 1 .. Len(s) + Len(t)
      /\ \A k \in 1 .. Len(s) : s[k] \in Nat
      /\ \A k \in 1 .. Len(t) : t[k] \in Nat
      /\ \A k \in 1 .. Len(s) : u[k] = s[k] /\ k \in 1 .. Len(s) + Len(t)
      /\ \A k \in 1 .. Len(t) : /\ u[Len(s) + k] = t[k]
                                /\ Len(s) + k \in 1 .. Len(s) + Len(t)
  BY ConcatProperties
<1>2. \A k \in 1 .. Len(s) + Len(t) :
        k \in 1 .. Len(s) \/ (k - Len(s) \in 1 .. Len(t)
                                /\ k = Len(s) + (k - Len(s)))
  BY <1>1
<1> HIDE DEF u
<1>3. LinesOf(u) = LinesOf(s) \cup LinesOf(t)
  <2>1. ASSUME NEW k \in DOMAIN u
        PROVE  u[k] \in ToSet(s) \cup ToSet(t)
    <3>1. CASE k \in 1 .. Len(s)
      BY <1>1, <3>1 DEF ToSet
    <3>2. CASE k - Len(s) \in 1 .. Len(t)
      BY <1>1, <1>2, <3>2 DEF ToSet
    <3> QED BY <1>1, <1>2, <3>1, <3>2
  <2>2. ToSet(s) \subseteq ToSet(u) /\ ToSet(t) \subseteq ToSet(u)
    BY <1>1 DEF ToSet
  <2>3. ToSet(u) = ToSet(s) \cup ToSet(t)
    BY <2>1, <2>2 DEF ToSet
  <2> QED BY <2>3 DEF LinesOf
<1>4. LinesOf(s) \subseteq Nat
  BY <1>1 DEF LinesOf, ToSet
<1>5. ASSUME Ascends(u)
      PROVE  Ascends(s) /\ Ascends(t) /\ Below(LinesOf(s), LinesOf(t))
  <2>1. Ascends(s)
    BY <1>1, <1>5 DEF Ascends
  <2>2. Ascends(t)
    <3> SUFFICES ASSUME NEW p \in 1 .. Len(t), NEW q \in 1 .. Len(t), p < q,
                        t[p] # 0, t[q] # 0
                 PROVE  t[p] < t[q]
      BY <1>1 DEF Ascends
    <3>1. /\ Len(s) + p \in DOMAIN u /\ Len(s) + q \in DOMAIN u
          /\ Len(s) + p < Len(s) + q
          /\ u[Len(s) + p] = t[p] /\ u[Len(s) + q] = t[q]
      BY <1>1
    <3> QED BY <1>5, <3>1 DEF Ascends
  <2>3. Below(LinesOf(s), LinesOf(t))
    <3> SUFFICES ASSUME NEW p \in 1 .. Len(s), NEW q \in 1 .. Len(t),
                        s[p] # 0, t[q] # 0
                 PROVE  s[p] < t[q]
      BY <1>1 DEF Below, LinesOf, ToSet
    <3>1. /\ p \in DOMAIN u /\ Len(s) + q \in DOMAIN u /\ p < Len(s) + q
          /\ u[p] = s[p] /\ u[Len(s) + q] = t[q]
      BY <1>1
    <3> QED BY <1>5, <3>1 DEF Ascends
  <2> QED BY <2>1, <2>2, <2>3
<1>6. ASSUME Ascends(s), Ascends(t), Below(LinesOf(s), LinesOf(t))
      PROVE  Ascends(u)
  <2> SUFFICES ASSUME NEW p \in DOMAIN u, NEW q \in DOMAIN u, p < q,
                      u[p] # 0, u[q] # 0
               PROVE  u[p] < u[q]
    BY DEF Ascends
  <2>1. CASE q \in 1 .. Len(s)
    <3>1. p \in 1 .. Len(s)
      BY <1>1, <2>1
    <3> QED BY <1>1, <1>6, <2>1, <3>1 DEF Ascends
  <2>2. CASE p \in 1 .. Len(s) /\ q - Len(s) \in 1 .. Len(t)
    <3>1. u[p] \in LinesOf(s) /\ u[q] \in LinesOf(t)
      BY <1>1, <1>2, <2>2 DEF LinesOf, ToSet
    <3> QED BY <1>6, <3>1 DEF Below
  <2>3. CASE p - Len(s) \in 1 .. Len(t) /\ q - Len(s) \in 1 .. Len(t)
    <3>1. /\ u[p] = t[p - Len(s)] /\ u[q] = t[q - Len(s)]
          /\ p - Len(s) < q - Len(s)
      BY <1>1, <1>2, <2>3
    <3> QED BY <1>1, <1>6, <2>3, <3>1 DEF Ascends
  <2> QED BY <1>1, <1>2, <2>1, <2>2, <2>3
<1> QED BY <1>1, <1>3, <1>4, <1>5, <1>6 DEF u

\* A line that comes last.
LEMMA LinesAppend ==
  ASSUME NEW s \in Seq(Nat), NEW l \in Nat \ {0}
  PROVE  /\ Append(s, l) \in Seq(Nat)
         /\ LinesOf(Append(s, l)) = LinesOf(s) \cup {l}
         /\ Ascends(Append(s, l)) <=> Ascends(s) /\ Below(LinesOf(s), {l})
         /\ <<l>> \in Seq(Nat) /\ LinesOf(<<l>>) = {l} /\ Ascends(<<l>>)
<1>1. <<l>> \in Seq(Nat) /\ Len(<<l>>) = 1 /\ <<l>>[1] = l
  OBVIOUS
<1>2. LinesOf(<<l>>) = {l} /\ Ascends(<<l>>)
  BY DEF LinesOf, ToSet, Ascends
<1>3. Append(s, l) = s \o <<l>>
  BY AppendIsConcat
<1> DEFINE t == <<l>>
<1>4. t \in Seq(Nat) /\ LinesOf(t) = {l} /\ Ascends(t) /\ Append(s, l) = s \o t
  BY <1>1, <1>2, <1>3
<1>5. /\ t \in Seq(Nat) /\ LinesOf(t) = {l} /\ Ascends(t)
  BY <1>4
<1> HIDE DEF t
<1>6. /\ s \o t \in Seq(Nat) /\ LinesOf(s \o t) = LinesOf(s) \cup {l}
      /\ Ascends(s \o t) <=> Ascends(s) /\ Below(LinesOf(s), {l})
  BY <1>5, LinesConcat
<1>7. /\ Append(s, l) \in Seq(Nat)
      /\ LinesOf(Append(s, l)) = LinesOf(s) \cup {l}
      /\ Ascends(Append(s, l)) <=> Ascends(s) /\ Below(LinesOf(s), {l})
  BY <1>4, <1>6
<1> QED BY <1>1, <1>2, <1>7

LEMMA NoLines == LinesOf(<<>>) = {} /\ Ascends(<<>>) /\ Held(<<>>) = {}
                 /\ Ordered(<<>>)
BY DEF LinesOf, ToSet, Ascends, Held, Ordered

\* The buffers of two sequences as those of one.
LEMMA HeldConcat ==
  ASSUME NEW a \in Seq(Seq(Nat)), NEW b \in Seq(Seq(Nat))
  PROVE  /\ a \o b \in Seq(Seq(Nat))
         /\ Held(a \o b) = Held(a) \cup Held(b)
         /\ Ordered(a \o b) <=>
              Ordered(a) /\ Ordered(b) /\ Below(Held(a), Held(b))
<1> DEFINE c == a \o b
<1>1. /\ c \in Seq(Seq(Nat)) /\ Len(a) \in Nat /\ Len(b) \in Nat
      /\ DOMAIN a = 1 .. Len(a) /\ DOMAIN b = 1 .. Len(b)
      /\ DOMAIN c = 1 .. Len(a) + Len(b)
      /\ \A k \in 1 .. Len(a) : c[k] = a[k] /\ k \in 1 .. Len(a) + Len(b)
      /\ \A k \in 1 .. Len(b) : /\ c[Len(a) + k] = b[k]
                                /\ Len(a) + k \in 1 .. Len(a) + Len(b)
  BY ConcatProperties
<1>2. \A k \in 1 .. Len(a) + Len(b) :
        k \in 1 .. Len(a) \/ (k - Len(a) \in 1 .. Len(b)
                                /\ k = Len(a) + (k - Len(a)))
  BY <1>1
<1> HIDE DEF c
<1>3. Held(c) = Held(a) \cup Held(b)
  <2>1. ASSUME NEW k \in DOMAIN c, NEW l \in LinesOf(c[k])
        PROVE  l \in Held(a) \cup Held(b)
    <3>1. CASE k \in 1 .. Len(a)
      BY <1>1, <2>1, <3>1 DEF Held
    <3>2. CASE k - Len(a) \in 1 .. Len(b)
      BY <1>1, <1>2, <2>1, <3>2 DEF Held
    <3> QED BY <1>1, <1>2, <3>1, <3>2
  <2>2. ASSUME NEW k \in DOMAIN a
        PROVE  LinesOf(a[k]) \subseteq Held(c)
    BY <1>1, <2>2 DEF Held
  <2>3. ASSUME NEW k \in DOMAIN b
        PROVE  LinesOf(b[k]) \subseteq Held(c)
    <3>1. Len(a) + k \in DOMAIN c /\ c[Len(a) + k] = b[k]
      BY <1>1
    <3> QED BY <3>1 DEF Held
  <2> QED BY <2>1, <2>2, <2>3 DEF Held
<1>4. ASSUME Ordered(c)
      PROVE  Ordered(a) /\ Ordered(b) /\ Below(Held(a), Held(b))
  <2>1. Ordered(a)
    BY <1>1, <1>4 DEF Ordered
  <2>2. Ordered(b)
    <3>1. \A k \in DOMAIN b : Ascends(b[k])
      BY <1>1, <1>4 DEF Ordered
    <3>2. ASSUME NEW p \in DOMAIN b, NEW q \in DOMAIN b, p < q,
                 NEW k \in LinesOf(b[p]), NEW l \in LinesOf(b[q])
          PROVE  k < l
      <4>1. /\ Len(a) + p \in DOMAIN c /\ Len(a) + q \in DOMAIN c
            /\ Len(a) + p < Len(a) + q
            /\ c[Len(a) + p] = b[p] /\ c[Len(a) + q] = b[q]
        <5>1. Len(a) + p \in DOMAIN c /\ c[Len(a) + p] = b[p]
          BY <1>1
        <5>2. Len(a) + q \in DOMAIN c /\ c[Len(a) + q] = b[q]
          BY <1>1
        <5>3. p \in Nat /\ q \in Nat /\ Len(a) \in Nat
          BY <1>1
        <5> QED BY <3>2, <5>1, <5>2, <5>3
      <4> QED BY <1>4, <3>2, <4>1 DEF Ordered
    <3> QED BY <3>1, <3>2 DEF Ordered
  <2>3. ASSUME NEW p \in DOMAIN a, NEW q \in DOMAIN b,
               NEW k \in LinesOf(a[p]), NEW l \in LinesOf(b[q])
        PROVE  k < l
    <3>1. /\ p \in DOMAIN c /\ Len(a) + q \in DOMAIN c /\ p < Len(a) + q
          /\ c[p] = a[p] /\ c[Len(a) + q] = b[q]
      <4>1. p \in DOMAIN c /\ c[p] = a[p]
        BY <1>1
      <4>2. Len(a) + q \in DOMAIN c /\ c[Len(a) + q] = b[q]
        BY <1>1
      <4>3. p \in 1 .. Len(a) /\ q \in 1 .. Len(b) /\ Len(a) \in Nat
        BY <1>1
      <4> QED BY <4>1, <4>2, <4>3
    <3> QED BY <1>4, <2>3, <3>1 DEF Ordered
  <2> QED BY <2>1, <2>2, <2>3 DEF Below, Held
<1>5. ASSUME Ordered(a), Ordered(b), Below(Held(a), Held(b))
      PROVE  Ordered(c)
  <2>1. ASSUME NEW k \in DOMAIN c
        PROVE  Ascends(c[k])
    <3>1. CASE k \in 1 .. Len(a)
      BY <1>1, <1>5, <3>1 DEF Ordered
    <3>2. CASE k - Len(a) \in 1 .. Len(b)
      <4>1. c[k] = b[k - Len(a)] /\ k - Len(a) \in DOMAIN b
        BY <1>1, <1>2, <3>2
      <4> QED BY <1>5, <4>1 DEF Ordered
    <3> QED BY <1>1, <1>2, <3>1, <3>2
  <2>2. ASSUME NEW p \in DOMAIN c, NEW q \in DOMAIN c, p < q,
               NEW k \in LinesOf(c[p]), NEW l \in LinesOf(c[q])
        PROVE  k < l
    <3>1. CASE q \in 1 .. Len(a)
      <4>1. p \in 1 .. Len(a)
        BY <1>1, <2>2, <3>1
      <4> QED BY <1>1, <1>5, <2>2, <3>1, <4>1 DEF Ordered
    <3>2. CASE p \in 1 .. Len(a) /\ q - Len(a) \in 1 .. Len(b)
      <4>1. k \in Held(a) /\ l \in Held(b)
        <5>1. p \in DOMAIN a /\ c[p] = a[p]
          BY <1>1, <3>2
        <5>2. q - Len(a) \in DOMAIN b /\ c[q] = b[q - Len(a)]
          BY <1>1, <1>2, <2>2, <3>2
        <5> QED BY <2>2, <5>1, <5>2 DEF Held
      <4> QED BY <1>5, <4>1 DEF Below
    <3>3. CASE p - Len(a) \in 1 .. Len(b) /\ q - Len(a) \in 1 .. Len(b)
      <4>1. /\ c[p] = b[p - Len(a)] /\ c[q] = b[q - Len(a)]
            /\ p - Len(a) < q - Len(a)
        BY <1>1, <1>2, <2>2, <3>3
      <4> QED BY <1>1, <1>5, <2>2, <3>3, <4>1 DEF Ordered
    <3> QED BY <1>1, <1>2, <2>2, <3>1, <3>2, <3>3
  <2> QED BY <2>1, <2>2 DEF Ordered
<1> QED BY <1>1, <1>3, <1>4, <1>5 DEF c

\* One buffer.
LEMMA HeldOne ==
  ASSUME NEW s \in Seq(Nat)
  PROVE  /\ <<s>> \in Seq(Seq(Nat)) /\ Held(<<s>>) = LinesOf(s)
         /\ Ordered(<<s>>) <=> Ascends(s)
BY DEF Held, Ordered

-----------------------------------------------------------------------------
(* AsyncLogging: the invariant.                                            *)

\* What of the appended lines is still to be accounted for.
LoggedLines == (1 .. lines) \ (dropped \cup lost)

LogTypes ==
  /\ lines \in Nat /\ clock \in Seconds /\ lastRoll \in Seconds
  /\ onDisk \in [Seconds -> Seq(Nat)] /\ stdio \in Seq(Nat)
  /\ toWrite \in Seq(Seq(Nat)) /\ wrote \in 0 .. Len(toWrite)
  /\ full \in Seq(Seq(Nat)) /\ current \in Seq(Nat)
  /\ dropped \cup lost \subseteq 0 .. lines
  /\ writerPc # "write" => toWrite = <<>>
  /\ \A t \in Seconds : t > lastRoll => onDisk[t] = <<>>

\* Files, stdio, what is being written, what waits: each in order, and one
\* after the other.
InTurn ==
  /\ Ordered(onDisk) /\ Ascends(stdio) /\ Ordered(Waiting) /\ Ordered(full)
  /\ Ascends(current)
  /\ Below(Held(onDisk), LinesOf(stdio))
  /\ Below(Held(onDisk) \cup LinesOf(stdio), Held(Waiting))
  /\ Below(Held(onDisk) \cup LinesOf(stdio) \cup Held(Waiting), Held(full))
  /\ Below(Held(onDisk) \cup LinesOf(stdio) \cup Held(Waiting) \cup Held(full),
           LinesOf(current))

AllHeld ==
  Held(onDisk) \cup LinesOf(stdio) \cup Held(Waiting) \cup Held(full)
    \cup LinesOf(current) = LoggedLines

LinesInv == LogTypes /\ InTurn /\ AllHeld

\* The files are a sequence of sequences too.
LEMMA FilesAreSeq ==
  ASSUME NEW f \in [Seconds -> Seq(Nat)]
  PROVE  f \in Seq(Seq(Nat))
BY ClockAssumption DEF ClockAssumption, Seconds

LEMMA WaitingIsSeq ==
  ASSUME LogTypes
  PROVE  Waiting \in Seq(Seq(Nat))
BY SplitAt DEF LogTypes, Waiting

\* The invariant is what LinesInOrder says.
LEMMA InTurnInOrder == LinesInv => LinesInOrder
<1> SUFFICES ASSUME LinesInv PROVE LinesInOrder
  OBVIOUS
<1>1. /\ onDisk \in Seq(Seq(Nat)) /\ stdio \in Seq(Nat)
      /\ Waiting \in Seq(Seq(Nat)) /\ full \in Seq(Seq(Nat))
      /\ current \in Seq(Nat)
  BY FilesAreSeq, WaitingIsSeq DEF LinesInv, LogTypes
<1>2. /\ <<stdio>> \in Seq(Seq(Nat)) /\ Held(<<stdio>>) = LinesOf(stdio)
      /\ Ordered(<<stdio>>)
      /\ <<current>> \in Seq(Seq(Nat)) /\ Held(<<current>>) = LinesOf(current)
      /\ Ordered(<<current>>)
  BY <1>1, HeldOne DEF LinesInv, InTurn
<1> DEFINE o == <<stdio>>
           c == <<current>>
           p1 == onDisk \o o
           p2 == p1 \o Waiting
           p3 == p2 \o full
           p4 == p3 \o c
<1>3. Places = p4
  BY DEF Places
<1>4. /\ o \in Seq(Seq(Nat)) /\ Held(o) = LinesOf(stdio) /\ Ordered(o)
      /\ c \in Seq(Seq(Nat)) /\ Held(c) = LinesOf(current) /\ Ordered(c)
  BY <1>2
<1> HIDE DEF o, c
<1>5. p1 \in Seq(Seq(Nat)) /\ Ordered(p1)
      /\ Held(p1) = Held(onDisk) \cup LinesOf(stdio)
  BY <1>1, <1>4, HeldConcat DEF LinesInv, InTurn
<1> HIDE DEF p1
<1>6. p2 \in Seq(Seq(Nat)) /\ Ordered(p2)
      /\ Held(p2) = Held(onDisk) \cup LinesOf(stdio) \cup Held(Waiting)
  <2>1. Ordered(Waiting) /\ Below(Held(p1), Held(Waiting))
    BY <1>5 DEF LinesInv, InTurn
  <2>2. /\ p2 \in Seq(Seq(Nat)) /\ Held(p2) = Held(p1) \cup Held(Waiting)
        /\ Ordered(p2) <=>
             Ordered(p1) /\ Ordered(Waiting) /\ Below(Held(p1), Held(Waiting))
    BY <1>1, <1>5, HeldConcat
  <2> QED BY <1>5, <2>1, <2>2
<1> HIDE DEF p2
<1>7. /\ p3 \in Seq(Seq(Nat)) /\ Ordered(p3)
      /\ Held(p3) = Held(onDisk) \cup LinesOf(stdio) \cup Held(Waiting)
                      \cup Held(full)
  <2>1. Ordered(full) /\ Below(Held(p2), Held(full))
    BY <1>6 DEF LinesInv, InTurn
  <2>2. /\ p3 \in Seq(Seq(Nat)) /\ Held(p3) = Held(p2) \cup Held(full)
        /\ Ordered(p3) <=>
             Ordered(p2) /\ Ordered(full) /\ Below(Held(p2), Held(full))
    BY <1>1, <1>6, HeldConcat
  <2> QED BY <1>6, <2>1, <2>2
<1> HIDE DEF p3
<1>8. /\ Held(p4) = Held(p3) \cup Held(c)
      /\ Ordered(p4) <=> Ordered(p3) /\ Ordered(c) /\ Below(Held(p3), Held(c))
  BY <1>4, <1>7, HeldConcat
<1>9. Ordered(p4) /\ Held(p4) = LoggedLines
  BY <1>4, <1>7, <1>8 DEF LinesInv, InTurn, AllHeld
<1> QED BY <1>3, <1>9 DEF LinesInOrder, LoggedLines

\* A new line comes after all others.
LEMMA AppendLineInOrder ==
  ASSUME LinesInv, AppendLine
  PROVE  LinesInv'
<1> DEFINE l == lines + 1
<1>1. /\ l \in Nat \ {0} /\ lines' = l
      /\ UNCHANGED <<toWrite, wrote, dropped, clock, onDisk, stdio, lastRoll,
                     lost>>
      /\ writerPc' = "write" <=> writerPc = "write"
  BY DEF LinesInv, LogTypes, AppendLine, NotifyWriter, writerVars, logFileVars
<1>2. Waiting' = Waiting
  BY <1>1 DEF Waiting
<1>3. /\ onDisk \in Seq(Seq(Nat)) /\ stdio \in Seq(Nat)
      /\ Waiting \in Seq(Seq(Nat)) /\ full \in Seq(Seq(Nat))
      /\ current \in Seq(Nat)
  BY FilesAreSeq, WaitingIsSeq DEF LinesInv, LogTypes
<1>4. LoggedLines' = LoggedLines \cup {l} /\ Below(LoggedLines, {l})
  <2>1. l \notin dropped \cup lost
    BY DEF LinesInv, LogTypes
  <2>2. 1 .. l = (1 .. lines) \cup {l} /\ \A k \in 1 .. lines : k < l
    BY DEF LinesInv, LogTypes
  <2>3. LoggedLines' = (1 .. l) \ (dropped \cup lost)
    BY <1>1 DEF LoggedLines
  <2> HIDE DEF l
  <2> QED BY <2>1, <2>2, <2>3 DEF Below, LoggedLines
<1>5. CASE current' = Append(current, l) /\ full' = full
  <2>1. /\ current' \in Seq(Nat)
        /\ LinesOf(current') = LinesOf(current) \cup {l}
        /\ Ascends(current') <=> Ascends(current) /\ Below(LinesOf(current), {l})
    BY <1>1, <1>3, <1>5, LinesAppend
  <2>2. InTurn'
    BY <1>1, <1>2, <1>4, <1>5, <2>1 DEF LinesInv, InTurn, AllHeld, Below
  <2>3. AllHeld'
    BY <1>1, <1>2, <1>4, <1>5, <2>1 DEF LinesInv, AllHeld
  <2> QED BY <1>1, <1>5, <2>1, <2>2, <2>3 DEF LinesInv, LogTypes
<1>6. CASE current' = <<l>> /\ full' = Append(full, current)
  <2>1. /\ current' \in Seq(Nat) /\ LinesOf(current') = {l}
        /\ Ascends(current')
    BY <1>1, <1>3, <1>6, LinesAppend
  <2>2. /\ full' \in Seq(Seq(Nat)) /\ full' = full \o <<current>>
    BY <1>3, <1>6, AppendIsConcat
  <2>3. /\ Held(full') = Held(full) \cup LinesOf(current)
        /\ Ordered(full') <=>
             Ordered(full) /\ Ascends(current)
               /\ Below(Held(full), LinesOf(current))
    <3> DEFINE c == <<current>>
    <3>1. /\ c \in Seq(Seq(Nat)) /\ Held(c) = LinesOf(current)
          /\ Ordered(c) <=> Ascends(current)
      BY <1>3, HeldOne
    <3>2. full' = full \o c
      BY <2>2
    <3> HIDE DEF c
    <3> QED BY <1>3, <3>1, <3>2, HeldConcat
  <2>4. InTurn'
    BY <1>1, <1>2, <1>4, <2>1, <2>3 DEF LinesInv, InTurn, AllHeld, Below
  <2>5. AllHeld'
    BY <1>1, <1>2, <1>4, <2>1, <2>3 DEF LinesInv, AllHeld
  <2> QED BY <1>1, <2>1, <2>2, <2>4, <2>5 DEF LinesInv, LogTypes
<1> QED BY <1>1, <1>5, <1>6 DEF AppendLine

\* A full part of the way: what comes out of stdio goes behind everything that
\* has been written, to the file that is open.
LEMMA FlushOutInOrder ==
  ASSUME LogTypes, Ordered(onDisk), NEW out \in Seq(Nat), Ascends(out),
         Below(Held(onDisk), LinesOf(out)), FlushOut(out)
  PROVE  /\ onDisk' \in [Seconds -> Seq(Nat)] /\ stdio' = <<>>
         /\ \A t \in Seconds : t > lastRoll => onDisk'[t] = <<>>
         /\ Ordered(onDisk') /\ Held(onDisk') = Held(onDisk) \cup LinesOf(out)
<1> DEFINE new == onDisk'
           r == lastRoll
<1>1. /\ r \in Seconds /\ onDisk \in [Seconds -> Seq(Nat)]
      /\ new = [onDisk EXCEPT ![r] = @ \o out] /\ stdio' = <<>>
      /\ \A t \in Seconds : t > r => onDisk[t] = <<>>
      /\ DOMAIN onDisk = Seconds
  BY DEF LogTypes, FlushOut
<1>2. Seconds \subseteq Nat
  BY DEF Seconds
<1> HIDE DEF new
<1>3. /\ onDisk[r] \o out \in Seq(Nat)
      /\ LinesOf(onDisk[r] \o out) = LinesOf(onDisk[r]) \cup LinesOf(out)
      /\ Ascends(onDisk[r] \o out) <=> Ascends(onDisk[r]) /\ Ascends(out)
                               /\ Below(LinesOf(onDisk[r]), LinesOf(out))
  BY <1>1, LinesConcat
<1>4. LinesOf(onDisk[r]) \subseteq Held(onDisk)
  BY <1>1 DEF Held
<1>5. Ascends(onDisk[r] \o out)
  BY <1>1, <1>3, <1>4 DEF Below, Ordered
<1>6. /\ new \in [Seconds -> Seq(Nat)] /\ DOMAIN new = Seconds
      /\ new[r] = onDisk[r] \o out
      /\ \A t \in Seconds \ {r} : new[t] = onDisk[t]
  BY <1>1, <1>3
<1>7. Held(new) = Held(onDisk) \cup LinesOf(out)
  <2>1. \A t \in Seconds : LinesOf(new[t]) \subseteq Held(onDisk) \cup LinesOf(out)
    BY <1>1, <1>3, <1>6 DEF Held
  <2>2. \A t \in Seconds : LinesOf(onDisk[t]) \subseteq Held(new)
    BY <1>1, <1>3, <1>6 DEF Held
  <2>3. LinesOf(out) \subseteq Held(new)
    BY <1>1, <1>3, <1>6 DEF Held
  <2>4. Held(new) \subseteq Held(onDisk) \cup LinesOf(out)
    BY <1>6, <2>1 DEF Held
  <2>5. Held(onDisk) \subseteq Held(new)
    BY <1>1, <2>2 DEF Held
  <2> QED BY <2>3, <2>4, <2>5
<1>8. Ordered(new)
  <2>1. \A t \in Seconds : Ascends(new[t])
    BY <1>1, <1>5, <1>6 DEF Ordered
  <2>2. ASSUME NEW t \in Seconds, NEW u \in Seconds, t < u,
               NEW k \in LinesOf(new[t]), NEW l \in LinesOf(new[u])
        PROVE  k < l
    <3>1. CASE u > r
      BY <1>1, <1>2, <1>6, <2>2, <3>1, NoLines
    <3>2. CASE u < r
      BY <1>1, <1>2, <1>6, <2>2, <3>2 DEF Ordered
    <3>3. CASE u = r
      <4>1. k \in LinesOf(onDisk[t]) /\ LinesOf(onDisk[t]) \subseteq Held(onDisk)
        BY <1>1, <1>2, <1>6, <2>2, <3>3 DEF Held
      <4>2. CASE l \in LinesOf(onDisk[r])
        BY <1>1, <2>2, <3>3, <4>1, <4>2 DEF Ordered
      <4>3. CASE l \in LinesOf(out)
        BY <4>1, <4>3 DEF Below
      <4> QED BY <1>3, <1>6, <2>2, <3>3, <4>2, <4>3
    <3> QED BY <1>1, <1>2, <3>1, <3>2, <3>3
  <2> QED BY <1>6, <2>1, <2>2 DEF Ordered
<1>9. \A t \in Seconds : t > r => new[t] = <<>>
  BY <1>1, <1>2, <1>6
<1> QED BY <1>1, <1>6, <1>7, <1>8, <1>9 DEF new

\* Whatever append_unlocked() does with out, no line changes its turn.
LEMMA FileInOrder ==
  ASSUME LogTypes, Ordered(onDisk), NEW out \in Seq(Nat), Ascends(out),
         Below(Held(onDisk), LinesOf(out)), NEW size,
         \/ RollFile(out, size)
         \/ KeepFile(out, size)
         \/ FlushOut(out) /\ lastRoll' = lastRoll
  PROVE  /\ onDisk' \in [Seconds -> Seq(Nat)] /\ stdio' \in Seq(Nat)
         /\ lastRoll' \in Seconds
         /\ \A t \in Seconds : t > lastRoll' => onDisk'[t] = <<>>
         /\ Ordered(onDisk') /\ Ascends(stdio')
         /\ Below(Held(onDisk'), LinesOf(stdio'))
         /\ Held(onDisk') \cup LinesOf(stdio') = Held(onDisk) \cup LinesOf(out)
<1>1. CASE KeepFile(out, size)
  BY <1>1 DEF KeepFile, LogTypes
<1>2. CASE FlushOut(out) /\ lastRoll' \in Seconds /\ lastRoll' >= lastRoll
  <2>1. /\ onDisk' \in [Seconds -> Seq(Nat)] /\ stdio' = <<>>
        /\ \A t \in Seconds : t > lastRoll => onDisk'[t] = <<>>
        /\ Ordered(onDisk') /\ Held(onDisk') = Held(onDisk) \cup LinesOf(out)
    BY <1>2, FlushOutInOrder
  <2>2. \A t \in Seconds : t > lastRoll' => onDisk'[t] = <<>>
    <3> DEFINE new == lastRoll'
    <3>1. new \in Nat /\ lastRoll \in Nat /\ new >= lastRoll
          /\ Seconds \subseteq Nat
      BY <1>2 DEF LogTypes, Seconds
    <3> HIDE DEF new
    <3>2. \A t \in Seconds : t > new => t > lastRoll
      BY <3>1
    <3> QED BY <2>1, <3>2 DEF new
  <2> QED BY <1>2, <2>1, <2>2, NoLines DEF Below
<1>3. CASE RollFile(out, size) /\ clock > lastRoll
  BY <1>2, <1>3 DEF RollFile, LogTypes, Seconds
<1>4. CASE RollFile(out, size) /\ ~(clock > lastRoll)
  BY <1>1, <1>4 DEF RollFile
<1>5. CASE FlushOut(out) /\ lastRoll' = lastRoll
  BY <1>2, <1>5 DEF LogTypes, Seconds
<1> QED BY <1>1, <1>3, <1>4, <1>5

\* The next buffer to write and those after it.
LEMMA NextWaiting ==
  ASSUME NEW S, NEW s \in Seq(S), NEW k \in 1 .. Len(s)
  PROVE  /\ s[k] \in S /\ SubSeq(s, k + 1, Len(s)) \in Seq(S)
         /\ SubSeq(s, k, Len(s)) = <<s[k]>> \o SubSeq(s, k + 1, Len(s))
<1> DEFINE t == SubSeq(s, k + 1, Len(s))
           u == SubSeq(s, k, Len(s))
           e == <<s[k]>>
<1>1. /\ s[k] \in S /\ t \in Seq(S) /\ Len(t) = Len(s) - k
      /\ \A i \in 1 .. Len(s) - k : t[i] = s[k + i]
      /\ u \in Seq(S) /\ Len(u) = Len(s) - k + 1
      /\ \A i \in 1 .. Len(s) - k + 1 : u[i] = s[k - 1 + i]
      /\ Len(s) \in Nat
  OBVIOUS
<1>2. e \in Seq(S) /\ Len(e) = 1 /\ e[1] = s[k]
  BY <1>1
<1> HIDE DEF t, u, e
<1>3. /\ e \o t \in Seq(S) /\ Len(e \o t) = Len(e) + Len(t)
      /\ \A i \in 1 .. Len(e) + Len(t) :
           (e \o t)[i] = IF i <= Len(e) THEN e[i] ELSE t[i - Len(e)]
  BY <1>1, <1>2, ConcatProperties
<1>4. \A i \in 1 .. Len(s) - k + 1 : (e \o t)[i] = u[i]
  <2> SUFFICES ASSUME NEW i \in 1 .. Len(s) - k + 1
               PROVE  (e \o t)[i] = u[i]
    OBVIOUS
  <2>1. CASE i = 1
    BY <1>1, <1>2, <1>3, <2>1
  <2>2. CASE i # 1
    <3>1. /\ i - 1 \in 1 .. Len(s) - k /\ k + (i - 1) = k - 1 + i
          /\ ~(i <= 1) /\ i \in 1 .. 1 + Len(t)
      BY <1>1, <2>2
    <3>2. (e \o t)[i] = t[i - 1] /\ t[i - 1] = s[k + (i - 1)]
      BY <1>1, <1>2, <1>3, <3>1
    <3> QED BY <1>1, <3>1, <3>2
  <2> QED BY <2>1, <2>2
<1>5. u = e \o t
  <2>1. Len(u) = Len(e \o t) /\ 1 .. Len(u) = 1 .. Len(s) - k + 1
    BY <1>1, <1>2, <1>3
  <2> QED BY <1>1, <1>3, <1>4, <2>1, SeqEqual
<1> QED BY <1>1, <1>5 DEF t, u, e

\* A buffer is written: its lines go to stdio, but for those fwrite leaves out.
LEMMA WriteBufferInOrder ==
  ASSUME LinesInv, WriteBuffer
  PROVE  LinesInv'
<1> DEFINE b == toWrite[wrote + 1]
<1>1. /\ writerPc = "write" /\ wrote < Len(toWrite) /\ AppendToFile(b)
      /\ wrote' = wrote + 1
      /\ UNCHANGED <<lines, current, full, toWrite, dropped, writerPc, clock>>
  BY DEF WriteBuffer, bufferVars
<1>2. /\ wrote \in 0 .. Len(toWrite) /\ toWrite \in Seq(Seq(Nat))
      /\ wrote + 1 \in 1 .. Len(toWrite) /\ wrote + 1 \in 0 .. Len(toWrite)
      /\ wrote + 1 + 1 = (wrote + 1) + 1
  BY <1>1 DEF LinesInv, LogTypes
<1>3. /\ b \in Seq(Nat) /\ Waiting' \in Seq(Seq(Nat))
      /\ Waiting = <<b>> \o Waiting'
  BY <1>1, <1>2, NextWaiting DEF Waiting
<1> HIDE DEF b
<1>4. /\ Held(Waiting) = LinesOf(b) \cup Held(Waiting')
      /\ Ascends(b) /\ Ordered(Waiting')
      /\ Below(LinesOf(b), Held(Waiting'))
  <2> DEFINE c == <<b>>
  <2>1. /\ c \in Seq(Seq(Nat)) /\ Held(c) = LinesOf(b)
        /\ Ordered(c) <=> Ascends(b)
    BY <1>3, HeldOne
  <2>2. Waiting = c \o Waiting' /\ Ordered(Waiting)
    BY <1>3 DEF LinesInv, InTurn
  <2> HIDE DEF c
  <2>3. /\ Held(Waiting) = Held(c) \cup Held(Waiting')
        /\ Ordered(Waiting) <=> Ordered(c) /\ Ordered(Waiting')
                                 /\ Below(Held(c), Held(Waiting'))
    <3> DEFINE w == Waiting'
    <3>1. w \in Seq(Seq(Nat)) /\ Waiting = c \o w
      BY <1>3, <2>2
    <3> HIDE DEF w
    <3>2. /\ Held(Waiting) = Held(c) \cup Held(w)
          /\ Ordered(Waiting) <=> Ordered(c) /\ Ordered(w)
                                   /\ Below(Held(c), Held(w))
      BY <2>1, <3>1, HeldConcat
    <3> QED BY <3>2 DEF w
  <2> QED BY <2>1, <2>2, <2>3
<1>5. PICK n \in 0 .. Len(b) :
        /\ lost' = lost \cup ToSet(SubSeq(b, n + 1, Len(b)))
        /\ \E size :
             \/ RollFile(stdio \o SubSeq(b, 1, n), size)
             \/ KeepFile(stdio \o SubSeq(b, 1, n), size)
             \/ FlushOut(stdio \o SubSeq(b, 1, n)) /\ lastRoll' = lastRoll
  BY <1>1 DEF AppendToFile
<1> DEFINE b1 == SubSeq(b, 1, n)
           b2 == SubSeq(b, n + 1, Len(b))
           out == stdio \o b1
<1>6. b1 \in Seq(Nat) /\ b2 \in Seq(Nat) /\ b1 \o b2 = b
  BY <1>3, SplitAt
<1>7. /\ lost' = lost \cup ToSet(b2)
      /\ \E size : \/ RollFile(out, size)
                   \/ KeepFile(out, size)
                   \/ FlushOut(out) /\ lastRoll' = lastRoll
  BY <1>5
<1> HIDE DEF b1, b2
<1>8. /\ LinesOf(b) = LinesOf(b1) \cup LinesOf(b2)
      /\ Ascends(b1) /\ Below(LinesOf(b1), LinesOf(b2))
  BY <1>4, <1>6, LinesConcat
<1>9. /\ out \in Seq(Nat) /\ LinesOf(out) = LinesOf(stdio) \cup LinesOf(b1)
      /\ Ascends(out) /\ Below(Held(onDisk), LinesOf(out))
  <2>1. /\ out \in Seq(Nat) /\ LinesOf(out) = LinesOf(stdio) \cup LinesOf(b1)
        /\ Ascends(out) <=> Ascends(stdio) /\ Ascends(b1)
                              /\ Below(LinesOf(stdio), LinesOf(b1))
    BY <1>6, LinesConcat DEF LinesInv, LogTypes
  <2> HIDE DEF out
  <2> QED BY <1>4, <1>8, <2>1 DEF LinesInv, InTurn, Below
<1> HIDE DEF out
<1>10. /\ onDisk' \in [Seconds -> Seq(Nat)] /\ stdio' \in Seq(Nat)
       /\ lastRoll' \in Seconds
       /\ \A t \in Seconds : t > lastRoll' => onDisk'[t] = <<>>
       /\ Ordered(onDisk') /\ Ascends(stdio')
       /\ Below(Held(onDisk'), LinesOf(stdio'))
       /\ Held(onDisk') \cup LinesOf(stdio')
            = Held(onDisk) \cup LinesOf(stdio) \cup LinesOf(b1)
  <2>1. LogTypes /\ Ordered(onDisk)
    BY DEF LinesInv, InTurn
  <2> QED BY <1>7, <1>9, <2>1, FileInOrder
<1>11. /\ LinesOf(b2) \subseteq LoggedLines /\ LoggedLines \subseteq Nat
       /\ LoggedLines \subseteq 0 .. lines
  BY <1>4, <1>8 DEF LinesInv, LogTypes, AllHeld, LoggedLines
<1>12. lost' \cup dropped' \subseteq 0 .. lines
  <2>1. ToSet(b2) \subseteq LinesOf(b2) \cup {0} /\ 0 \in 0 .. lines
    BY DEF LinesOf, LinesInv, LogTypes
  <2> QED BY <1>1, <1>7, <1>11, <2>1 DEF LinesInv, LogTypes
<1>13. LogTypes'
  BY <1>1, <1>2, <1>10, <1>12 DEF LinesInv, LogTypes
<1>14. InTurn'
  BY <1>1, <1>4, <1>8, <1>10 DEF LinesInv, InTurn, Below
<1>15. LoggedLines' = LoggedLines \ LinesOf(b2)
  <2>1. 0 \notin 1 .. lines
    BY DEF LinesInv, LogTypes
  <2> QED BY <1>1, <1>7, <2>1 DEF LoggedLines, LinesOf
<1>16. AllHeld'
  <2> DEFINE D == Held(onDisk) \cup LinesOf(stdio) \cup LinesOf(b1)
             E == Held(Waiting') \cup Held(full) \cup LinesOf(current)
  <2>1. /\ D \cup LinesOf(b2) \cup E = LoggedLines
    BY <1>4, <1>8 DEF LinesInv, AllHeld
  <2>2. Below(D, LinesOf(b2)) /\ Below(LinesOf(b2), E)
    BY <1>4, <1>8 DEF LinesInv, InTurn, Below
  <2>3. Held(onDisk') \cup LinesOf(stdio') \cup Held(Waiting') \cup Held(full')
          \cup LinesOf(current') = D \cup E
    BY <1>1, <1>10
  <2> HIDE DEF D, E
  <2>4. \A k \in LinesOf(b2) : k \in Nat
    BY <1>11
  <2>5. \A k \in Nat : ~(k < k)
    OBVIOUS
  <2>6. D \cup E = LoggedLines \ LinesOf(b2)
    BY <2>1, <2>2, <2>4, <2>5, Zenon DEF Below
  <2> QED BY <1>15, <2>3, <2>6 DEF AllHeld
<1> QED BY <1>13, <1>14, <1>16 DEF LinesInv

\* The writer takes all buffers; of too many it drops all but two.
LEMMA SwapInOrder ==
  ASSUME LinesInv, Swap
  PROVE  LinesInv'
<1> DEFINE all == Append(full, current)
           over == Len(all) > DropOver
           first == SubSeq(all, 1, 2)
           rest == SubSeq(all, 2 + 1, Len(all))
           notice == <<<<0>>>>
<1>1. /\ toWrite' = IF over THEN notice \o first ELSE all
      /\ dropped' = dropped \cup
             IF over THEN UNION {ToSet(all[i]) : i \in 3..Len(all)} ELSE {}
      /\ full' = <<>> /\ current' = <<>> /\ writerPc' = "write" /\ wrote' = 0
      /\ writerPc # "write"
      /\ UNCHANGED <<lines, clock, onDisk, stdio, lastRoll, lost>>
  BY DEF Swap, logFileVars
<1>2. /\ full \in Seq(Seq(Nat)) /\ current \in Seq(Nat)
      /\ toWrite = <<>> /\ wrote = 0
  BY <1>1 DEF LinesInv, LogTypes
<1>3. Waiting = <<>>
  BY <1>2 DEF Waiting
<1>4. /\ all \in Seq(Seq(Nat)) /\ Len(all) \in Nat
      /\ Held(all) = Held(full) \cup LinesOf(current) /\ Ordered(all)
  <2> DEFINE c == <<current>>
  <2>1. /\ c \in Seq(Seq(Nat)) /\ Held(c) = LinesOf(current)
        /\ Ordered(c) <=> Ascends(current)
    BY <1>2, HeldOne
  <2>2. all = full \o c
    BY <1>2, AppendIsConcat
  <2> HIDE DEF c, all
  <2>3. /\ all \in Seq(Seq(Nat)) /\ Held(all) = Held(full) \cup Held(c)
        /\ Ordered(all) <=> Ordered(full) /\ Ordered(c)
                                /\ Below(Held(full), Held(c))
    BY <1>2, <2>1, <2>2, HeldConcat
  <2>4. Ordered(full) /\ Ordered(c) /\ Below(Held(full), Held(c))
    BY <2>1 DEF LinesInv, InTurn, Below
  <2> QED BY <2>1, <2>3, <2>4
<1> HIDE DEF all
<1>5. Held(onDisk) \cup LinesOf(stdio) \cup Held(all) = LoggedLines
  BY <1>3, <1>4, NoLines DEF LinesInv, AllHeld
<1>6. Below(Held(onDisk) \cup LinesOf(stdio), Held(all))
  BY <1>4 DEF LinesInv, InTurn, Below
<1>7. ASSUME NEW w \in Seq(Seq(Nat)), toWrite' = w, Ordered(w),
             Held(w) \subseteq Held(all),
             Held(onDisk) \cup LinesOf(stdio) \cup Held(w) = LoggedLines',
             dropped' \subseteq 0 .. lines
      PROVE  LinesInv'
  <2>1. /\ Len(w) \in Nat /\ SubSeq(w, 0 + 1, Len(w)) = w
    <3>1. Len(w) \in Nat /\ SubSeq(w, 1, Len(w)) = w
      OBVIOUS
    <3> QED BY <3>1
  <2>2. Waiting' = w
    BY <1>1, <1>7, <2>1 DEF Waiting
  <2>3. LogTypes'
    <3>1. <<>> \in Seq(Nat) /\ <<>> \in Seq(Seq(Nat)) /\ 0 \in 0 .. Len(w)
      BY <2>1
    <3> QED BY <1>1, <1>7, <3>1 DEF LinesInv, LogTypes
  <2>4. InTurn'
    BY <1>1, <1>6, <1>7, <2>2, NoLines DEF LinesInv, InTurn, Below
  <2>5. AllHeld'
    BY <1>1, <1>7, <2>2, NoLines DEF AllHeld
  <2> QED BY <2>3, <2>4, <2>5 DEF LinesInv
<1>8. CASE ~over
  <2>1. dropped' = dropped /\ toWrite' = all
    BY <1>1, <1>8
  <2>2. LoggedLines' = LoggedLines
    BY <1>1, <2>1 DEF LoggedLines
  <2> HIDE DEF over
  <2> QED BY <1>4, <1>5, <1>7, <2>1, <2>2 DEF LinesInv, LogTypes
<1>9. CASE over
  <2>1. /\ 2 \in 0 .. Len(all) /\ Len(all) >= 3 /\ 2 + 1 = 3
    BY <1>4, <1>9, LoggingAssumption DEF LoggingAssumption
  <2>2. /\ first \in Seq(Seq(Nat)) /\ rest \in Seq(Seq(Nat))
        /\ first \o rest = all
    BY <1>4, <2>1, SplitAt
  <2>3. /\ DOMAIN rest = 1 .. Len(all) - 2
        /\ \A i \in 1 .. Len(all) - 2 : rest[i] = all[i + 2]
    BY <1>4, <2>1
  <2>4. UNION {ToSet(all[i]) : i \in 3 .. Len(all)}
          = UNION {ToSet(rest[i]) : i \in DOMAIN rest}
    <3>1. ASSUME NEW i \in 3 .. Len(all)
          PROVE  i - 2 \in DOMAIN rest /\ rest[i - 2] = all[i]
      BY <1>4, <2>3
    <3>2. ASSUME NEW i \in DOMAIN rest
          PROVE  i + 2 \in 3 .. Len(all) /\ rest[i] = all[i + 2]
      BY <1>4, <2>3
    <3> HIDE DEF rest
    <3> QED BY <3>1, <3>2
  <2> HIDE DEF first, rest
  <2>5. /\ Held(all) = Held(first) \cup Held(rest)
        /\ Ordered(first) /\ Below(Held(first), Held(rest))
    BY <1>4, <2>2, HeldConcat
  <2>6. notice \in Seq(Seq(Nat)) /\ Held(notice) = {} /\ Ordered(notice)
    <3>1. <<0>> \in Seq(Nat) /\ LinesOf(<<0>>) = {} /\ Ascends(<<0>>)
      BY DEF LinesOf, ToSet, Ascends
    <3> QED BY <3>1, HeldOne
  <2> HIDE DEF notice
  <2>7. /\ notice \o first \in Seq(Seq(Nat))
        /\ Held(notice \o first) = Held(first) /\ Ordered(notice \o first)
    <3>1. /\ notice \o first \in Seq(Seq(Nat))
          /\ Held(notice \o first) = Held(notice) \cup Held(first)
          /\ Ordered(notice \o first) <=>
               Ordered(notice) /\ Ordered(first)
                 /\ Below(Held(notice), Held(first))
      BY <2>2, <2>6, HeldConcat
    <3>2. Below(Held(notice), Held(first))
      BY <2>6 DEF Below
    <3> QED BY <2>5, <2>6, <3>1, <3>2
  <2> DEFINE out == UNION {ToSet(rest[i]) : i \in DOMAIN rest}
  <2>8. dropped' = dropped \cup out /\ toWrite' = notice \o first
    BY <1>1, <1>9, <2>4
  <2>9. Held(rest) = out \ {0}
    BY DEF Held, LinesOf
  <2> HIDE DEF out
  <2>10. dropped' \subseteq 0 .. lines
    <3>1. LoggedLines \subseteq 0 .. lines /\ 0 \in 0 .. lines
          /\ dropped \subseteq 0 .. lines
      BY DEF LoggedLines, LinesInv, LogTypes
    <3> QED BY <1>5, <2>5, <2>8, <2>9, <3>1
  <2>11. LoggedLines' = LoggedLines \ Held(rest)
    <3>1. 0 \notin 1 .. lines
      BY DEF LinesInv, LogTypes
    <3>2. LoggedLines' = (1 .. lines) \ (dropped' \cup lost)
      BY <1>1 DEF LoggedLines
    <3> QED BY <2>8, <2>9, <3>1, <3>2 DEF LoggedLines
  <2>12. Held(onDisk) \cup LinesOf(stdio) \cup Held(first) = LoggedLines'
    <3>1. \A k \in LoggedLines : k \in Nat
      BY DEF LoggedLines, LinesInv, LogTypes
    <3>2. \A k \in Nat : ~(k < k)
      OBVIOUS
    <3>3. /\ Below(Held(onDisk) \cup LinesOf(stdio) \cup Held(first), Held(rest))
      BY <1>6, <2>5 DEF Below
    <3> QED BY <1>5, <2>5, <2>11, <3>1, <3>2, <3>3, Zenon DEF Below
  <2> QED BY <1>7, <2>5, <2>7, <2>8, <2>10, <2>12
<1> QED BY <1>8, <1>9

\* The writer flushes, at the end of a round and at its own.
LEMMA FlushInOrder ==
  ASSUME LinesInv, Flush, toWrite' = <<>>, wrote' = 0, Waiting = <<>>,
         UNCHANGED <<lines, clock, full, current, dropped>>
  PROVE  LinesInv'
<1>1. /\ FlushOut(stdio) /\ UNCHANGED <<lastRoll, lost>>
  BY DEF Flush
<1>2. /\ onDisk' \in [Seconds -> Seq(Nat)] /\ stdio' \in Seq(Nat)
      /\ lastRoll' \in Seconds
      /\ \A t \in Seconds : t > lastRoll' => onDisk'[t] = <<>>
      /\ Ordered(onDisk') /\ Ascends(stdio')
      /\ Below(Held(onDisk'), LinesOf(stdio'))
      /\ Held(onDisk') \cup LinesOf(stdio') = Held(onDisk) \cup LinesOf(stdio)
  <2>1. /\ LogTypes /\ Ordered(onDisk) /\ Ascends(stdio) /\ stdio \in Seq(Nat)
        /\ Below(Held(onDisk), LinesOf(stdio))
    BY DEF LinesInv, InTurn, LogTypes
  <2> QED BY <1>1, <2>1, FileInOrder
<1>3. Waiting' = <<>>
  BY DEF Waiting
<1>4. LogTypes'
  <2>1. <<>> \in Seq(Seq(Nat)) /\ 0 \in 0 .. Len(<<>>)
    OBVIOUS
  <2> QED BY <1>1, <1>2, <2>1 DEF LinesInv, LogTypes
<1>5. LoggedLines' = LoggedLines
  BY <1>1 DEF LoggedLines
<1>6. InTurn'
  BY <1>2, <1>3, NoLines DEF LinesInv, InTurn, Below
<1>7. AllHeld'
  BY <1>2, <1>3, <1>5 DEF LinesInv, AllHeld
<1> QED BY <1>4, <1>6, <1>7 DEF LinesInv

\* Every line that was appended and is not dropped or lost is in one place, and
\* the places are in the order of the lines: however the writer and append()
\* interleave, fwrite fails and the clock is set (AsyncLogging.cc:29, :53,
\* LogFile.cc:61).
THEOREM LinesAlwaysKept == LoggingSpec => []LinesKept
<1>1. LoggingInit => LinesInv
  <2> SUFFICES ASSUME LoggingInit PROVE LinesInv
    OBVIOUS
  <2>1. <<>> \in Seq(Nat) /\ <<>> \in Seq(Seq(Nat)) /\ 0 \in 0 .. Len(<<>>)
        /\ Waiting = <<>>
    BY DEF LoggingInit, Waiting
  <2>2. Held(onDisk) = {} /\ Ordered(onDisk)
    BY NoLines DEF LoggingInit, LogFileInit, Held, Ordered
  <2>3. LogTypes
    BY <2>1 DEF LoggingInit, LogFileInit, LogTypes
  <2>4. InTurn /\ AllHeld
    BY <2>1, <2>2, NoLines
       DEF LoggingInit, LogFileInit, InTurn, AllHeld, LoggedLines, Below
  <2> QED BY <2>3, <2>4 DEF LinesInv
<1>2. LinesInv /\ [LoggingNext]_loggingVars => LinesInv'
  <2> SUFFICES ASSUME LinesInv, [LoggingNext]_loggingVars PROVE LinesInv'
    OBVIOUS
  <2>1. ASSUME UNCHANGED <<lines, full, current, toWrite, wrote, dropped, onDisk,
                           stdio, lastRoll, lost>>,
               clock' \in Seconds, writerPc' # "write" => writerPc # "write"
        PROVE  LinesInv'
    <3>1. Waiting' = Waiting
      BY <2>1 DEF Waiting
    <3>2. LogTypes'
      BY <2>1 DEF LinesInv, LogTypes
    <3> QED BY <2>1, <3>1, <3>2 DEF LinesInv, InTurn, AllHeld, LoggedLines
  <2> USE DEF bufferVars, writerVars, logFileVars
  <2>2. CASE StartLogging \/ StopLogging \/ WriterWaits \/ WaitEnds
             \/ UNCHANGED loggingVars
    BY <2>1, <2>2 DEF StartLogging, StopLogging, WriterWaits, WaitEnds,
       NotifyWriter, loggingVars, LinesInv, LogTypes
  <2>3. ASSUME NEW now \in Seconds, SetClock(now)
        PROVE  LinesInv'
    BY <2>1, <2>3 DEF SetClock
  <2>4. CASE WriterLoop
    <3>1. CASE loggingRunning
      BY <2>1, <2>4, <3>1 DEF WriterLoop, LinesInv, LogTypes
    <3>2. CASE ~loggingRunning
      <4>1. toWrite = <<>> /\ wrote = 0 /\ Waiting = <<>>
        BY <2>4, <3>2 DEF WriterLoop, LinesInv, LogTypes, Waiting
      <4> QED BY <2>4, <3>2, <4>1, FlushInOrder DEF WriterLoop
    <3> QED BY <3>1, <3>2
  <2>5. CASE Refill
    <3>1. Waiting = <<>>
      BY <2>5 DEF Refill, Waiting, LinesInv, LogTypes
    <3> QED BY <2>5, <3>1, FlushInOrder DEF Refill
  <2> QED BY <2>2, <2>3, <2>4, <2>5, AppendLineInOrder, SwapInOrder,
             WriteBufferInOrder DEF LoggingNext, WriterStep
<1>3. LinesInv => LinesInOrder
  BY InTurnInOrder
<1>4. LoggingSpec => []LinesInOrder
  BY <1>1, <1>2, <1>3, PTL DEF LoggingSpec
<1> QED BY <1>4, SpareBuffersAlwaysReady, PTL DEF LinesKept

-----------------------------------------------------------------------------
(* Date: every day and every time of day.                                  *)

LEMMA DivIs ==
  ASSUME NEW n \in Int, n > 0, NEW q \in Int, NEW r \in Int, 0 <= r, r < n
  PROVE  (q * n + r) \div n = q /\ (q * n + r) % n = r
<1>1. (q * n + r) % n = r
  BY SMT
<1>2. (q * n + r) \div n = q
  BY SMT
<1> QED BY <1>1, <1>2

LEMMA Carries ==
  ASSUME NEW z \in Int
  PROVE  /\ z \div 4 = ((z - 1) \div 4) + (IF z % 4 = 0 THEN 1 ELSE 0)
         /\ z \div 100 = ((z - 1) \div 100) + (IF z % 100 = 0 THEN 1 ELSE 0)
         /\ z \div 400 = ((z - 1) \div 400) + (IF z % 400 = 0 THEN 1 ELSE 0)
         /\ z % 100 = 0 => z % 4 = 0
         /\ z % 400 = 0 => z % 100 = 0
<1>1. z \div 4 = ((z - 1) \div 4) + (IF z % 4 = 0 THEN 1 ELSE 0)
  OBVIOUS
<1>2. z \div 100 = ((z - 1) \div 100) + (IF z % 100 = 0 THEN 1 ELSE 0)
  OBVIOUS
<1>3. z \div 400 = ((z - 1) \div 400) + (IF z % 400 = 0 THEN 1 ELSE 0)
  OBVIOUS
<1>4. z % 100 = 0 => z % 4 = 0
  OBVIOUS
<1>5. z % 400 = 0 => z % 100 = 0
  OBVIOUS
<1> QED BY <1>1, <1>2, <1>3, <1>4, <1>5

\* A month's first day is the day after the last one of the month before.
LEMMA MonthTurns ==
  ASSUME NEW y \in Nat, NEW m \in 1..12
  PROVE  JulianDayNumber(y + (m \div 12), (m % 12) + 1, 1) = JulianDayNumber(y, m, 1) + DaysOf(y, m)
<1>2. CASE m = 2
  <2> DEFINE z == y + 4800
  <2>1. JulianDayNumber(y, 2, 1) = 1 + 337 + (z - 1) * 365 + ((z - 1) \div 4) - ((z - 1) \div 100) + ((z - 1) \div 400) - 32045
    BY DEF JulianDayNumber, MonthShift
  <2>2. JulianDayNumber(y, 3, 1) = 1 + z * 365 + (z \div 4) - (z \div 100) + (z \div 400) - 32045
    BY DEF JulianDayNumber, MonthShift
  <2>3. z % 4 = y % 4 /\ z % 100 = y % 100 /\ z % 400 = y % 400
    OBVIOUS
  <2>4. /\ z \div 4 = ((z - 1) \div 4) + (IF z % 4 = 0 THEN 1 ELSE 0)
        /\ z \div 100 = ((z - 1) \div 100) + (IF z % 100 = 0 THEN 1 ELSE 0)
        /\ z \div 400 = ((z - 1) \div 400) + (IF z % 400 = 0 THEN 1 ELSE 0)
        /\ z % 100 = 0 => z % 4 = 0
        /\ z % 400 = 0 => z % 100 = 0
    BY Carries
  <2>5. DaysOf(y, 2) = IF y % 4 = 0 /\ (y % 100 = 0 => y % 400 = 0) THEN 29 ELSE 28
    BY DEF DaysOf, Leap
  <2>6. /\ z \div 4 \in Int /\ z \div 100 \in Int /\ z \div 400 \in Int /\ z \in Int
        /\ (z - 1) \div 4 \in Int /\ (z - 1) \div 100 \in Int /\ (z - 1) \div 400 \in Int
    OBVIOUS
  <2>7. y + (2 \div 12) = y /\ (2 % 12) + 1 = 3
    OBVIOUS
  <2> HIDE DEF z
  <2>8. JulianDayNumber(y, 3, 1) = JulianDayNumber(y, 2, 1) + DaysOf(y, 2)
    BY <2>1, <2>2, <2>3, <2>4, <2>5, <2>6
  <2> QED BY <1>2, <2>7, <2>8
<1>3. CASE m # 2
  <2>1. CASE m = 1
    BY <2>1 DEF JulianDayNumber, MonthShift, DaysOf, Leap
  <2>3. CASE m = 3
    BY <2>3 DEF JulianDayNumber, MonthShift, DaysOf, Leap
  <2>4. CASE m = 4
    BY <2>4 DEF JulianDayNumber, MonthShift, DaysOf, Leap
  <2>5. CASE m = 5
    BY <2>5 DEF JulianDayNumber, MonthShift, DaysOf, Leap
  <2>6. CASE m = 6
    BY <2>6 DEF JulianDayNumber, MonthShift, DaysOf, Leap
  <2>7. CASE m = 7
    BY <2>7 DEF JulianDayNumber, MonthShift, DaysOf, Leap
  <2>8. CASE m = 8
    BY <2>8 DEF JulianDayNumber, MonthShift, DaysOf, Leap
  <2>9. CASE m = 9
    BY <2>9 DEF JulianDayNumber, MonthShift, DaysOf, Leap
  <2>10. CASE m = 10
    BY <2>10 DEF JulianDayNumber, MonthShift, DaysOf, Leap
  <2>11. CASE m = 11
    BY <2>11 DEF JulianDayNumber, MonthShift, DaysOf, Leap
  <2>12. CASE m = 12
    BY <2>12 DEF JulianDayNumber, MonthShift, DaysOf, Leap
  <2> QED BY <1>3, <2>1, <2>3, <2>4, <2>5, <2>6, <2>7, <2>8, <2>9, <2>10, <2>11, <2>12
<1> QED BY <1>2, <1>3

\* Day i of month k of a year that begins in March; months 0 is March.
Shifted(k, i) == i + ((153 * k + 2) \div 5)


\* What remains of a century's and of four years' days.
LEMMA Remains ==
  ASSUME NEW r \in Int, 0 <= r, r <= 3, NEW s \in Int, 0 <= s, s <= 99,
         NEW e \in Int, 0 <= e, e <= 365,
         e = 365 => s % 4 = 3 /\ (s = 99 => r = 3)
  PROVE  LET x == 4 * e + 3 + 1460 * s + 4 * (s \div 4) - r
             v == 4 * e + 3 - (s % 4)
         IN /\ x \in Int /\ 0 <= x /\ x < 146097
            /\ v \in Int /\ 0 <= v /\ v < 1461
<1> DEFINE u == s \div 4
           v == s % 4
<1>1. /\ u \in Int /\ 0 <= u /\ u <= 24 /\ v \in Int /\ 0 <= v /\ v <= 3
      /\ (e = 365 => v = 3 /\ (s = 99 => r = 3))
  BY SMT
<1> HIDE DEF u, v
<1> DEFINE x == 4 * e + 3 + 1460 * s + 4 * u - r
<1>2. x \in Int /\ 0 <= x /\ x < 146097
  BY <1>1, SMT
<1>3. 4 * e + 3 - v \in Int /\ 0 <= 4 * e + 3 - v /\ 4 * e + 3 - v < 1461
  BY <1>1, SMT
<1> QED BY <1>2, <1>3, SMT DEF u, v

\* The divisions of YearMonthDay() give back the centuries, the years and the
\* day a day number is made of.
LEMMA Divisions ==
  ASSUME NEW q \in Int, NEW r \in Int, 0 <= r, r <= 3,
         NEW s \in Int, 0 <= s, s <= 99, NEW e \in Int, 0 <= e, e <= 365,
         e = 365 => s % 4 = 3 /\ (s = 99 => r = 3)
  PROVE  LET a == e + 365 * s + (s \div 4) + 36524 * r + 146097 * q
             b == (4 * a + 3) \div 146097
             c == a - ((b * 146097) \div 4)
             d == (4 * c + 3) \div 1461
         IN b = 4 * q + r /\ d = s /\ c - ((1461 * d) \div 4) = e
<1> DEFINE a == e + 365 * s + (s \div 4) + 36524 * r + 146097 * q
           b == (4 * a + 3) \div 146097
           c == a - ((b * 146097) \div 4)
           d == (4 * c + 3) \div 1461
           x == 4 * e + 3 + 1460 * s + 4 * (s \div 4) - r
           v == 4 * e + 3 - (s % 4)
           h == 4 * q + r
           n == 146097
           f == 1461
<1>1. /\ h \in Int /\ n \in Int /\ n > 0 /\ x \in Int /\ 0 <= x /\ x < n
      /\ f \in Int /\ f > 0 /\ v \in Int /\ 0 <= v /\ v < f
  BY Remains, SMT
<1>2. 4 * a + 3 = h * n + x
  BY SMT
<1>3. b = h
  <2>1. b = (4 * a + 3) \div n
    BY SMT
  <2> HIDE DEF a, b, h, n, x
  <2> QED BY <1>1, <1>2, <2>1, DivIs, SMT
<1>4. (h * 146097) \div 4 = 146097 * q + 36524 * r
  <2>1. h * 146097 = (146097 * q + 36524 * r) * 4 + r
    BY SMT
  <2> DEFINE w == 146097 * q + 36524 * r
  <2>2. w \in Int
    BY SMT
  <2> HIDE DEF w, h
  <2>3. (w * 4 + r) \div 4 = w
    BY <2>2, SMT
  <2>4. h * 146097 = w * 4 + r
    BY <2>1, SMT DEF w
  <2> QED BY <2>3, <2>4, SMT DEF w
<1>5. c = e + 365 * s + (s \div 4)
  <2> HIDE DEF b, h
  <2>1. c = a - (146097 * q + 36524 * r)
    BY <1>3, <1>4, SMT
  <2> HIDE DEF c
  <2>2. s \div 4 \in Int
    BY SMT
  <2> QED BY <2>1, <2>2, SMT
<1>6. d = s
  <2>1. d = (4 * c + 3) \div f
    BY SMT
  <2>2. 4 * c + 3 = s * f + v
    <3>1. s = 4 * (s \div 4) + (s % 4) /\ s \div 4 \in Int /\ s % 4 \in Int
      BY SMT
    <3> HIDE DEF c
    <3> QED BY <1>5, <3>1, SMT
  <2> HIDE DEF d, c, f, v
  <2> QED BY <1>1, <2>1, <2>2, DivIs, SMT
<1>7. (1461 * s) \div 4 = 365 * s + (s \div 4)
  BY SMT
<1>8. c - ((1461 * d) \div 4) = e
  <2> HIDE DEF c, d
  <2>1. c - ((1461 * d) \div 4) = c - ((1461 * s) \div 4)
    BY <1>6, SMT
  <2>2. s \div 4 \in Int
    BY SMT
  <2> QED BY <1>5, <1>7, <2>1, <2>2, SMT
<1> QED BY <1>3, <1>6, <1>8, SMT

\* A date's day number gives the date back.
LEMMA DateOfDay ==
  ASSUME NEW y \in Nat, NEW m \in 1..12, NEW day \in 1..DaysOf(y, m)
  PROVE  YearMonthDay(JulianDayNumber(y, m, day)) = [year |-> y, month |-> m, day |-> day]
<1> DEFINE z == y + 4800 - MonthShift(m)
           k == m + 12 * MonthShift(m) - 3
           q == z \div 400
           r == (z % 400) \div 100
           s == z % 100
           i == day - 1
           e == Shifted(k, i)
           j == JulianDayNumber(y, m, day)
           a == j + 32044
           b == (4 * a + 3) \div 146097
           c == a - ((b * 146097) \div 4)
           d == (4 * c + 3) \div 1461
<1>1. /\ MonthShift(m) = IF m <= 2 THEN 1 ELSE 0
      /\ k \in 0..11 /\ k \div 10 = MonthShift(m)
      /\ m <= 2 <=> k \in {10, 11}
      /\ m = 2 <=> k = 11
      /\ m \in {4, 6, 9, 11} <=> k \in {1, 3, 6, 8}
  BY DEF MonthShift
<1>2. DaysOf(y, m) \in 28..31 /\ (m \in {4, 6, 9, 11} => DaysOf(y, m) = 30)
      /\ (m = 2 => DaysOf(y, m) <= 29 /\ (DaysOf(y, m) = 29 => Leap(y)))
  BY DEF DaysOf
<1>3. /\ i \in 0..30 /\ (k \in {1, 3, 6, 8} => i <= 29) /\ (k = 11 => i <= 28)
      /\ (k = 11 /\ i = 28 => Leap(y))
  BY <1>1, <1>2
<1>4. /\ e \in Int /\ 0 <= e /\ e <= 365 /\ (e = 365 => k = 11 /\ i = 28)
      /\ (5 * e + 2) \div 153 = k
      /\ e - ((153 * k + 2) \div 5) + 1 = i + 1
  <2> HIDE DEF k, i
  <2>1. /\ k \in {0, 1, 2, 3, 4, 5, 6, 7, 8, 9, 10, 11}
        /\ i \in Int /\ 0 <= i /\ i <= 30
        /\ (k \in {1, 3, 6, 8} => i <= 29) /\ (k = 11 => i <= 28)
    BY <1>1, <1>3, SMT
  <2>2. CASE k \in {0, 1, 2, 3}
    BY <2>1, <2>2, SMT DEF Shifted
  <2>3. CASE k \in {4, 5, 6, 7}
    BY <2>1, <2>3, SMT DEF Shifted
  <2>4. CASE k \in {8, 9, 10, 11}
    BY <2>1, <2>4, SMT DEF Shifted
  <2> QED BY <2>1, <2>2, <2>3, <2>4
<1>5. z \in Nat
  BY <1>1
<1>6. /\ q \in Int /\ r \in Int /\ 0 <= r /\ r <= 3 /\ s \in Int /\ 0 <= s /\ s <= 99
      /\ z = 400 * q + 100 * r + s
      /\ z \div 4 = 100 * q + 25 * r + (s \div 4)
      /\ z \div 100 = 4 * q + r
  <2> HIDE DEF z
  <2> QED BY <1>5, SMT
<1>7. Leap(y) /\ m <= 2 => s % 4 = 3 /\ (s = 99 => r = 3)
  <2> SUFFICES ASSUME Leap(y), m <= 2 PROVE s % 4 = 3 /\ (s = 99 => r = 3)
    OBVIOUS
  <2>1. z = y + 4799
    BY <1>1
  <2>2. s % 4 = 3
    <3>1. y % 4 = 0
      BY DEF Leap
    <3> QED BY <2>1, <3>1
  <2>3. ASSUME s = 99 PROVE r = 3
    <3>1. y % 100 = 0
      BY <2>1, <2>3
    <3>2. y % 400 = 0
      BY <3>1 DEF Leap
    <3> QED BY <2>1, <3>2
  <2> QED BY <2>2, <2>3
<1>8. a = e + 365 * s + (s \div 4) + 36524 * r + 146097 * q
  <2>1. j = day + ((153 * k + 2) \div 5) + z * 365 + (z \div 4) - (z \div 100) + (z \div 400) - 32045
    BY DEF JulianDayNumber
  <2>2. e = day - 1 + ((153 * k + 2) \div 5)
    BY DEF Shifted
  <2>3. (153 * k + 2) \div 5 \in Int
    BY <1>1
  <2>4. z \div 400 = q
    OBVIOUS
  <2>5. j \in Int /\ s \div 4 \in Int
    BY <1>6, <2>1, <2>3
  <2> HIDE DEF z, k, q, r, s, e, j
  <2>6. a = j + 32044
    OBVIOUS
  <2> HIDE DEF a
  <2> DEFINE p == (153 * k + 2) \div 5
             s4 == s \div 4
  <2>7. /\ j = day + p + z * 365 + (100 * q + 25 * r + s4) - (4 * q + r) + q - 32045
        /\ e = day - 1 + p /\ z = 400 * q + 100 * r + s
    BY <1>6, <2>1, <2>2, <2>4
  <2>8. p \in Int /\ s4 \in Int
    BY <2>3, <2>5
  <2> HIDE DEF p, s4
  <2>9. a = e + 365 * s + s4 + 36524 * r + 146097 * q
    BY <1>6, <2>5, <2>6, <2>7, <2>8
  <2> QED BY <2>9 DEF s4
<1>9. e = 365 => s % 4 = 3 /\ (s = 99 => r = 3)
  BY <1>1, <1>3, <1>4, <1>7
<1>10. b = 4 * q + r /\ d = s /\ c - ((1461 * d) \div 4) = e
  <2> DEFINE a1 == e + 365 * s + (s \div 4) + 36524 * r + 146097 * q
             b1 == (4 * a1 + 3) \div 146097
             c1 == a1 - ((b1 * 146097) \div 4)
             d1 == (4 * c1 + 3) \div 1461
  <2>2. b1 = 4 * q + r /\ d1 = s /\ c1 - ((1461 * d1) \div 4) = e
    <3> HIDE DEF q, r, s, e
    <3> QED BY <1>4, <1>6, <1>9, Divisions, SMT
  <2>3. a = a1
    BY <1>8
  <2> HIDE DEF a, a1, q, r, s, e
  <2>4. b = b1
    BY <2>3
  <2> HIDE DEF b, b1
  <2>5. c = c1
    BY <2>3, <2>4
  <2> HIDE DEF c, c1
  <2>6. d = d1
    BY <2>5
  <2> HIDE DEF d, d1
  <2> QED BY <2>2, <2>4, <2>5, <2>6
<1>11. YearMonthDay(j) = [year  |-> b * 100 + d - 4800 + (k \div 10),
                          month |-> k + 3 - 12 * (k \div 10),
                          day   |-> e - ((153 * k + 2) \div 5) + 1]
  <2> DEFINE ee == c - ((1461 * d) \div 4)
             mm == (5 * ee + 2) \div 153
  <2>1. YearMonthDay(j) = [year  |-> b * 100 + d - 4800 + (mm \div 10),
                          month |-> mm + 3 - 12 * (mm \div 10),
                          day   |-> ee - ((153 * mm + 2) \div 5) + 1]
    BY DEF YearMonthDay
  <2>2. ee = e /\ mm = k
    BY <1>4, <1>10
  <2> HIDE DEF ee, mm, b, d, k, e, j
  <2> QED BY <2>1, <2>2
<1>12. b * 100 + d - 4800 + (k \div 10) = y
  <2> HIDE DEF b, d, q, r, s
  <2>1. b * 100 + d = z
    BY <1>6, <1>10, SMT
  <2>2. z = y + 4800 - (k \div 10)
    BY <1>1
  <2>3. k \div 10 \in Int
    BY <1>1
  <2> DEFINE w == k \div 10
             bd == b * 100 + d
  <2>4. bd = z /\ z = y + 4800 - w /\ w \in Int
    BY <2>1, <2>2, <2>3
  <2>5. b * 100 + d - 4800 + w = bd - 4800 + w
    <3>1. b \in Int /\ d \in Int /\ w \in Int
      BY <1>6, <1>10, <2>3, SMT
    <3> HIDE DEF w
    <3> QED BY <3>1, SMT
  <2> HIDE DEF z, w, bd
  <2>6. bd - 4800 + w = y
    BY <2>4
  <2> QED BY <2>5, <2>6 DEF w
<1>13. k + 3 - 12 * (k \div 10) = m
  BY <1>1
<1>14. e - ((153 * k + 2) \div 5) + 1 = day
  BY <1>4
<1> HIDE DEF b, d, k, e, j
<1>15. YearMonthDay(j) = [year |-> y, month |-> m, day |-> day]
  BY <1>11, <1>12, <1>13, <1>14
<1> QED BY <1>15 DEF j

\* The calendar's days are those of the Julian day numbers.
CalendarInv ==
  /\ CalendarTypeOK /\ firstDay \in Nat
  /\ JulianDayNumber(year, month, 1) = JulianDayNumber(FirstYear, 1, 1) + firstDay
  /\ JulianDayNumber(year, 1, 1) = JulianDayNumber(FirstYear, 1, 1) + newYear

LEMMA DayNumberTyped ==
  ASSUME NEW y \in Nat, NEW m \in 1..12, NEW day \in Int
  PROVE  /\ JulianDayNumber(y, m, day) \in Int
         /\ JulianDayNumber(y, m, day) = JulianDayNumber(y, m, 1) + day - 1
<1> DEFINE w == MonthShift(m)
           z == y + 4800 - w
           p == (153 * (m + 12 * w - 3) + 2) \div 5
           u == (z * 365) + (z \div 4) - (z \div 100) + (z \div 400)
<1>1. w \in Int /\ z \in Int
  BY SMT DEF MonthShift
<1>2. p \in Int /\ u \in Int
  <2> HIDE DEF w, z
  <2> QED BY <1>1, SMT
<1>3. /\ JulianDayNumber(y, m, day) = day + p + u - 32045
      /\ JulianDayNumber(y, m, 1) = 1 + p + u - 32045
  <2>1. /\ JulianDayNumber(y, m, day) = day + p + z * 365 + (z \div 4) - (z \div 100) + (z \div 400) - 32045
        /\ JulianDayNumber(y, m, 1) = 1 + p + z * 365 + (z \div 4) - (z \div 100) + (z \div 400) - 32045
    BY DEF JulianDayNumber
  <2> HIDE DEF w, z, p
  <2>2. p \in Int /\ z \div 4 \in Int /\ z \div 100 \in Int /\ z \div 400 \in Int
    BY <1>1, <1>2, SMT
  <2> QED BY <1>1, <2>1, <2>2, SMT
<1> HIDE DEF w, z, p, u
<1> QED BY <1>2, <1>3, SMT

LEMMA CalendarStarts == CalendarInit => CalendarInv
<1> SUFFICES ASSUME CalendarInit PROVE CalendarInv
  OBVIOUS
<1>1. CalendarTypeOK /\ firstDay \in Nat
  BY CalendarAssumption DEF CalendarInit, CalendarTypeOK
<1>2. JulianDayNumber(FirstYear, 1, 1) \in Int
  BY CalendarAssumption, DayNumberTyped
<1> QED BY <1>1, <1>2 DEF CalendarInit, CalendarInv

LEMMA CalendarTurns == CalendarInv /\ [CalendarNext]_calendarVars => CalendarInv'
<1> SUFFICES ASSUME CalendarInv, [CalendarNext]_calendarVars PROVE CalendarInv'
  OBVIOUS
<1>1. CASE UNCHANGED calendarVars
  BY <1>1 DEF CalendarInv, CalendarTypeOK, calendarVars
<1>2. CASE TurnOver
  <2>1. /\ year \in Nat /\ year >= FirstYear /\ year <= LastYear /\ month \in 1..12
        /\ newYear \in Nat /\ firstDay \in Nat /\ newYear <= firstDay
    BY <1>2, CalendarAssumption DEF CalendarInv, CalendarTypeOK, TurnOver
  <2>2. /\ year' = year + (month \div 12) /\ month' = (month % 12) + 1
        /\ month \div 12 = (IF month = 12 THEN 1 ELSE 0)
        /\ month' \in 1..12 /\ (month = 12 => month' = 1)
        /\ year' \in Nat /\ year' >= FirstYear /\ year' <= LastYear + 1
    BY <1>2, <2>1, CalendarAssumption DEF TurnOver
  <2>3. DaysOf(year, month) \in Nat /\ firstDay' = firstDay + DaysOf(year, month)
        /\ newYear' = (IF month = 12 THEN firstDay' ELSE newYear)
    BY <1>2 DEF DaysOf, TurnOver
  <2>4. CalendarTypeOK' /\ firstDay' \in Nat
    BY <2>1, <2>2, <2>3, CalendarAssumption DEF CalendarTypeOK
  <2> DEFINE J == JulianDayNumber(FirstYear, 1, 1)
  <2>5. J \in Int
    BY CalendarAssumption, DayNumberTyped
  <2>6. JulianDayNumber(year', month', 1) = JulianDayNumber(year, month, 1) + DaysOf(year, month)
    BY <2>1, <2>2, MonthTurns
  <2>7. JulianDayNumber(year, month, 1) = J + firstDay /\ JulianDayNumber(year, 1, 1) = J + newYear
    BY DEF CalendarInv
  <2>8. JulianDayNumber(year', month', 1) = J + firstDay'
    <3> DEFINE K == JulianDayNumber(year, month, 1)
               L == DaysOf(year, month)
    <3>1. L \in Nat /\ firstDay' = firstDay + L /\ JulianDayNumber(year', month', 1) = K + L
          /\ K = J + firstDay
      BY <2>3, <2>6, <2>7
    <3> HIDE DEF J, K, L
    <3> QED BY <2>1, <2>5, <3>1
  <2>9. JulianDayNumber(year', 1, 1) = J + newYear'
    <3>1. CASE month = 12
      BY <2>2, <2>3, <2>8, <3>1
    <3>2. CASE month # 12
      BY <2>1, <2>2, <2>3, <2>7, <3>2
    <3> QED BY <3>1, <3>2
  <2> QED BY <2>4, <2>8, <2>9 DEF CalendarInv
<1> QED BY <1>1, <1>2 DEF CalendarNext

\* The calendar begins on the day of the week that Gauss's formula gives.
LEMMA FirstWeekDays ==
  /\ FirstWeekDay \in Int
  /\ \E n \in Int : JulianDayNumber(FirstYear, 1, 1) + 1 = 7 * n + FirstWeekDay
<1> DEFINE y == FirstYear - 1
           z == FirstYear + 4799
           g == 1 + 5 * (y % 4) + 4 * (y % 100) + 6 * (y % 400)
<1>1. FirstYear \in Nat /\ FirstWeekDay = g % 7 /\ y \in Int
  BY CalendarAssumption
<1>2. JulianDayNumber(FirstYear, 1, 1) = 1 + 306 + z * 365 + (z \div 4) - (z \div 100) + (z \div 400) - 32045
  BY <1>1, SMT DEF JulianDayNumber, MonthShift
<1>3. /\ y = 4 * (y \div 4) + (y % 4) /\ y = 100 * (y \div 100) + (y % 100)
      /\ y = 400 * (y \div 400) + (y % 400)
      /\ y \div 4 \in Int /\ y \div 100 \in Int /\ y \div 400 \in Int
      /\ y % 4 \in Int /\ y % 100 \in Int /\ y % 400 \in Int
  <2> HIDE DEF y
  <2> QED BY <1>1, SMT
<1>4. z = y + 4800 /\ z \div 4 = (y \div 4) + 1200 /\ z \div 100 = (y \div 100) + 48 /\ z \div 400 = (y \div 400) + 12
  <2>1. z = y + 4800
    BY <1>1, SMT
  <2> HIDE DEF z, y
  <2>2. z \div 4 = (y \div 4) + 1200
    BY <1>1, <2>1, SMT
  <2>3. z \div 100 = (y \div 100) + 48
    BY <1>1, <2>1, SMT
  <2>4. z \div 400 = (y \div 400) + 12
    BY <1>1, <2>1, SMT
  <2> QED BY <2>1, <2>2, <2>3, <2>4
<1>5. g \in Int
  <2> HIDE DEF y
  <2> QED BY <1>3, SMT
<1>6. PICK n \in Int : g = 7 * n + FirstWeekDay
  <2> HIDE DEF g
  <2>1. g = 7 * (g \div 7) + (g % 7) /\ g \div 7 \in Int
    BY <1>5, SMT
  <2> QED BY <1>1, <2>1
<1>7. FirstWeekDay \in Int
  <2> HIDE DEF g
  <2> QED BY <1>1, <1>5, SMT
<1> DEFINE J == JulianDayNumber(FirstYear, 1, 1)
           a == y \div 4
           b == y \div 100
           c == y \div 400
<1>8. J = 307 + (y + 4800) * 365 + (a + 1200) - (b + 48) + (c + 12) - 32045
  <2> HIDE DEF y
  <2> QED BY <1>2, <1>4
<1>9. g = 1 + 5 * (y - 4 * a) + 4 * (y - 100 * b) + 6 * (y - 400 * c)
  <2> HIDE DEF y
  <2> QED BY <1>1, <1>3, SMT
<1>10. a \in Int /\ b \in Int /\ c \in Int
  BY <1>3
<1> HIDE DEF g, J, a, b, c, y
<1> DEFINE w == n + 50 * y + 3 * a + 57 * b + 343 * c + 245918
<1>11. y \in Int /\ g = 7 * n + FirstWeekDay /\ g \in Int
  BY <1>1, <1>5, <1>6 DEF y
<1>12. J + 1 = g + 7 * (50 * y + 3 * a + 57 * b + 343 * c + 245918)
  BY <1>8, <1>9, <1>10, <1>11, SMT
<1>13. w \in Int /\ J + 1 = 7 * w + FirstWeekDay
  BY <1>7, <1>10, <1>11, <1>12, SMT
<1> QED BY <1>7, <1>13 DEF J

\* Days and the seconds of the last one come back from the seconds since the
\* epoch, before it too, where division goes towards zero.
LEMMA UtcOfSeconds ==
  ASSUME NEW n \in Int, NEW x \in Int, 0 <= x, x < SecondsPerDay
  PROVE  LET date == YearMonthDay(n + Epoch)
         IN ToUtcTime(n * SecondsPerDay + x) =
              [date |-> date, time |-> FillHMS(x), wday |-> WeekDay(n + Epoch),
               yday |-> (n + Epoch) - JulianDayNumber(date.year, 1, 1)]
<1> DEFINE D == SecondsPerDay
           t == n * D + x
           rest == Remainder(t, D)
           sec == IF rest < 0 THEN rest + D ELSE rest
           days == Quotient(t, D) - (IF rest < 0 THEN 1 ELSE 0)
<1>1. D \in Int /\ 0 < D
  BY CalendarAssumption, SMT DEF SecondsPerDay
<1>2. sec = x /\ days = n
  <2>1. rest = t - D * Quotient(t, D)
    BY DEF Remainder
  <2> HIDE DEF D, t, rest
  <2>2. t = n * D + x /\ x < D /\ t \in Int
    BY <1>1 DEF t, D
  <2>3. CASE t >= 0
    <3>1. Quotient(t, D) = n
      <4>1. Quotient(t, D) = t \div D
        BY <2>2, <2>3 DEF Quotient
      <4> QED BY <1>1, <2>2, <4>1, DivIs
    <3>2. rest = x
      BY <1>1, <2>1, <2>2, <3>1, SMT
    <3> QED BY <3>1, <3>2
  <2>4. CASE t < 0 /\ x = 0
    <3>1. Quotient(t, D) = n
      <4>1. Quotient(t, D) = -((-t) \div D)
        BY <2>4 DEF Quotient
      <4>2. -t = (-n) * D + 0 /\ -n \in Int
        BY <1>1, <2>2, <2>4, SMT
      <4>3. (-t) \div D = -n
        BY <1>1, <4>2, DivIs
      <4> QED BY <4>1, <4>3, SMT
    <3>2. rest = 0
      BY <1>1, <2>1, <2>2, <2>4, <3>1, SMT
    <3> QED BY <2>4, <3>1, <3>2
  <2>5. CASE t < 0 /\ x > 0
    <3>1. Quotient(t, D) = n + 1
      <4>1. Quotient(t, D) = -((-t) \div D)
        BY <2>5 DEF Quotient
      <4>2. -t = (-n - 1) * D + (D - x) /\ -n - 1 \in Int /\ D - x \in Int /\ 0 <= D - x /\ D - x < D
        BY <1>1, <2>2, <2>5, SMT
      <4>3. (-t) \div D = -n - 1
        BY <1>1, <4>2, DivIs
      <4> QED BY <4>1, <4>3, SMT
    <3>2. rest = x - D
      BY <1>1, <2>1, <2>2, <3>1, SMT
    <3> QED BY <1>1, <2>2, <3>1, <3>2, SMT
  <2> QED BY <2>2, <2>3, <2>4, <2>5, SMT
<1>3. ToUtcTime(t) =
        [date |-> YearMonthDay(days + Epoch), time |-> FillHMS(sec), wday |-> WeekDay(days + Epoch),
         yday |-> (days + Epoch) - JulianDayNumber(YearMonthDay(days + Epoch).year, 1, 1)]
  <2> HIDE DEF t
  <2> QED BY DEF ToUtcTime
<1> HIDE DEF sec, days
<1>4. ToUtcTime(t) =
        [date |-> YearMonthDay(n + Epoch), time |-> FillHMS(x), wday |-> WeekDay(n + Epoch),
         yday |-> (n + Epoch) - JulianDayNumber(YearMonthDay(n + Epoch).year, 1, 1)]
  BY <1>2, <1>3
<1> QED BY <1>4

\* The first and the last second of a day as hours, minutes and seconds.
LEMMA EndsOfDay ==
  /\ FillHMS(0) = [hour |-> 0, min |-> 0, sec |-> 0]
  /\ FillHMS(SecondsPerDay - 1) = [hour |-> 23, min |-> Sixty - 1, sec |-> Sixty - 1]
<1> DEFINE h == Sixty * Sixty
           last == SecondsPerDay - 1
<1>1. Sixty \in Int /\ Sixty > 0 /\ h \in Int /\ h > 0
  BY CalendarAssumption, SMT
<1>2. SecondsPerDay = 24 * h
  BY <1>1, SMT DEF SecondsPerDay
<1>3. FillHMS(0) = [hour |-> 0, min |-> 0, sec |-> 0]
  <2> HIDE DEF h
  <2>1. 0 = 0 * h + 0 /\ 0 = 0 * Sixty + 0
    BY <1>1, SMT
  <2>2. 0 \div h = 0
    BY <1>1, <2>1, DivIs
  <2>3. 0 \div Sixty = 0 /\ 0 % Sixty = 0
    BY <1>1, <2>1, DivIs
  <2> QED BY <2>2, <2>3 DEF FillHMS, h
<1>4. last \div h = 23
  <2>1. last = 23 * h + (h - 1) /\ h - 1 \in Int /\ 0 <= h - 1 /\ h - 1 < h
    <3> HIDE DEF h
    <3> QED BY <1>1, <1>2, SMT
  <2> HIDE DEF h, last
  <2> QED BY <1>1, <2>1, DivIs
<1>5. last \div Sixty = 24 * Sixty - 1 /\ last % Sixty = Sixty - 1
  <2>1. last = (24 * Sixty - 1) * Sixty + (Sixty - 1)
    BY <1>1, <1>2, SMT
  <2>2. 24 * Sixty - 1 \in Int /\ Sixty - 1 \in Int /\ 0 <= Sixty - 1 /\ Sixty - 1 < Sixty
    BY <1>1, SMT
  <2> HIDE DEF last
  <2> QED BY <1>1, <2>1, <2>2, DivIs
<1>6. (24 * Sixty - 1) % Sixty = Sixty - 1
  <2>1. 24 * Sixty - 1 = 23 * Sixty + (Sixty - 1)
    BY <1>1, SMT
  <2>2. Sixty - 1 \in Int /\ 0 <= Sixty - 1 /\ Sixty - 1 < Sixty
    BY <1>1, SMT
  <2> QED BY <1>1, <2>1, <2>2, DivIs
<1>7. FillHMS(last) = [hour |-> last \div h, min |-> (last \div Sixty) % Sixty, sec |-> last % Sixty]
  BY DEF FillHMS
<1> HIDE DEF last, h
<1>8. FillHMS(last) = [hour |-> 23, min |-> Sixty - 1, sec |-> Sixty - 1]
  BY <1>4, <1>5, <1>6, <1>7
<1> QED BY <1>3, <1>8 DEF last

\* A day's date and its first or last second go to seconds and come back.
LEMMA UtcGoesBack ==
  ASSUME NEW y \in Nat, NEW m \in 1..12, NEW day \in 1..DaysOf(y, m),
         NEW t \in {[hour |-> 0, min |-> 0, sec |-> 0],
                    [hour |-> 23, min |-> Sixty - 1, sec |-> Sixty - 1]}
  PROVE  LET date == [year |-> y, month |-> m, day |-> day]
             jdn == JulianDayNumber(y, m, day)
         IN ToUtcTime(FromUtcTime(date, t)) =
              [date |-> date, time |-> t, wday |-> WeekDay(jdn),
               yday |-> jdn - JulianDayNumber(y, 1, 1)]
<1> DEFINE date == [year |-> y, month |-> m, day |-> day]
           jdn == JulianDayNumber(y, m, day)
           D == SecondsPerDay
           x == IF t.hour = 0 THEN 0 ELSE D - 1
           n == jdn - Epoch
<1>1. D \in Int /\ 0 < D /\ Sixty \in Int
  BY CalendarAssumption, SMT DEF SecondsPerDay
<1>2. x \in Int /\ 0 <= x /\ x < D
  <2> HIDE DEF D
  <2> QED BY <1>1, SMT
<1>3. FillHMS(x) = t
  <2>1. CASE t = [hour |-> 0, min |-> 0, sec |-> 0]
    <3>1. x = 0
      BY <2>1
    <3> QED BY <2>1, <3>1, EndsOfDay
  <2>2. CASE t = [hour |-> 23, min |-> Sixty - 1, sec |-> Sixty - 1]
    <3>1. x = SecondsPerDay - 1
      BY <2>2
    <3> QED BY <2>2, <3>1, EndsOfDay
  <2> QED BY <2>1, <2>2
<1>4. jdn \in Int /\ Epoch \in Int /\ n \in Int /\ n + Epoch = jdn
  <2>1. day \in Int
    BY SMT DEF DaysOf
  <2>2. jdn \in Int /\ Epoch \in Int
    <3>1. jdn \in Int
      BY <2>1, DayNumberTyped
    <3>2. 1970 \in Nat /\ 1 \in 1..12 /\ 1 \in Int
      BY SMT
    <3>3. JulianDayNumber(1970, 1, 1) \in Int
      BY <3>2, DayNumberTyped
    <3> QED BY <3>1, <3>3 DEF Epoch
  <2> HIDE DEF jdn
  <2> QED BY <2>2, SMT
<1>5. FromUtcTime(date, t) = n * D + x
  <2>1. FromUtcTime(date, t) = n * D + t.hour * Sixty * Sixty + t.min * Sixty + t.sec
    BY DEF FromUtcTime
  <2>2. n * D \in Int
    <3> HIDE DEF n, D
    <3> QED BY <1>1, <1>4, SMT
  <2>3. CASE t = [hour |-> 0, min |-> 0, sec |-> 0]
    <3>1. x = 0 /\ t.hour = 0 /\ t.min = 0 /\ t.sec = 0
      BY <2>3
    <3> DEFINE nD == n * D
    <3>2. FromUtcTime(date, t) = nD + 0 * Sixty * Sixty + 0 * Sixty + 0
      BY <2>1, <3>1
    <3> HIDE DEF nD
    <3>3. nD + 0 * Sixty * Sixty + 0 * Sixty + 0 = nD
      BY <1>1, <2>2, SMT DEF nD
    <3> QED BY <2>2, <3>1, <3>2, <3>3 DEF nD
  <2>4. CASE t = [hour |-> 23, min |-> Sixty - 1, sec |-> Sixty - 1]
    <3>1. x = D - 1 /\ t.hour = 23 /\ t.min = Sixty - 1 /\ t.sec = Sixty - 1
      BY <2>4
    <3> DEFINE nD == n * D
    <3>2. FromUtcTime(date, t) = nD + 23 * Sixty * Sixty + (Sixty - 1) * Sixty + (Sixty - 1)
      BY <2>1, <3>1
    <3> HIDE DEF nD
    <3>3. nD + 23 * Sixty * Sixty + (Sixty - 1) * Sixty + (Sixty - 1) = nD + (D - 1)
      <4>1. nD \in Int
        BY <2>2 DEF nD
      <4> QED BY <1>1, <4>1, SMT DEF SecondsPerDay
    <3> QED BY <3>1, <3>2, <3>3 DEF nD
  <2> QED BY <2>3, <2>4
<1>6. YearMonthDay(n + Epoch) = date
  BY <1>4, DateOfDay
<1>7. ToUtcTime(n * D + x) =
        [date |-> YearMonthDay(n + Epoch), time |-> FillHMS(x), wday |-> WeekDay(n + Epoch),
         yday |-> (n + Epoch) - JulianDayNumber(YearMonthDay(n + Epoch).year, 1, 1)]
  <2> HIDE DEF n, x
  <2> QED BY <1>2, <1>4, UtcOfSeconds
<1> HIDE DEF n, x
<1>8. date.year = y
  OBVIOUS
<1> HIDE DEF date, jdn
<1> QED BY <1>3, <1>4, <1>5, <1>6, <1>7, <1>8 DEF date, jdn

\* The calendar's invariant gives what DateRight says of the month that is
\* shown.
LEMMA CalendarInvRight == CalendarInv => DateRight
<1> SUFFICES ASSUME CalendarInv PROVE DateRight
  OBVIOUS
<1> DEFINE J == JulianDayNumber(FirstYear, 1, 1)
           hms == {[hour |-> 0, min |-> 0, sec |-> 0],
                   [hour |-> 23, min |-> Sixty - 1, sec |-> Sixty - 1]}
<1>1. /\ year \in Nat /\ month \in 1..12 /\ firstDay \in Nat /\ newYear \in Int
      /\ J \in Int /\ JulianDayNumber(year, month, 1) = J + firstDay
      /\ JulianDayNumber(year, 1, 1) = J + newYear
  <2>1. J \in Int
    BY CalendarAssumption, DayNumberTyped
  <2> QED BY <2>1, CalendarAssumption DEF CalendarInv, CalendarTypeOK
<1>2. SUFFICES
        ASSUME NEW d \in 1..DaysOf(year, month)
        PROVE  LET jdn == JulianDayNumber(year, month, d)
                   ymd == [year |-> year, month |-> month, day |-> d]
               IN /\ jdn = J + firstDay + d - 1
                  /\ YearMonthDay(jdn) = ymd
                  /\ WeekDay(jdn) = (FirstWeekDay + firstDay + d - 1) % 7
                  /\ \A t \in hms :
                       LET utc == ToUtcTime(FromUtcTime(ymd, t))
                       IN utc.date = ymd /\ utc.time = t
                            /\ utc.wday = WeekDay(jdn)
                            /\ utc.yday = firstDay + d - 1 - newYear
  BY DEF DateRight
<1> DEFINE jdn == JulianDayNumber(year, month, d)
           ymd == [year |-> year, month |-> month, day |-> d]
<1>3. d \in Int
  BY SMT DEF DaysOf
<1>4. jdn \in Int /\ jdn = JulianDayNumber(year, month, 1) + d - 1
  BY <1>1, <1>3, DayNumberTyped
<1>5. jdn = J + firstDay + d - 1
  <2> HIDE DEF jdn, J
  <2> QED BY <1>1, <1>3, <1>4, SMT
<1>6. YearMonthDay(jdn) = ymd
  BY <1>1, DateOfDay
<1>7. WeekDay(jdn) = (FirstWeekDay + firstDay + d - 1) % 7
  <2>1. PICK n \in Int : J + 1 = 7 * n + FirstWeekDay
    BY FirstWeekDays
  <2>2. FirstWeekDay \in Int
    BY FirstWeekDays
  <2>3. WeekDay(jdn) = (jdn + 1) % 7
    BY DEF WeekDay
  <2> DEFINE w == FirstWeekDay + firstDay + d - 1
  <2> HIDE DEF jdn, J
  <2>4. w \in Int /\ jdn + 1 = 7 * n + w
    BY <1>1, <1>3, <1>5, <2>1, <2>2, SMT
  <2> HIDE DEF w
  <2>5. (7 * n + w) % 7 = w % 7
    BY <2>4, SMT
  <2> QED BY <2>3, <2>4, <2>5 DEF w
<1>8. ASSUME NEW t \in hms
      PROVE  LET utc == ToUtcTime(FromUtcTime(ymd, t))
             IN utc.date = ymd /\ utc.time = t
                  /\ utc.wday = WeekDay(jdn) /\ utc.yday = firstDay + d - 1 - newYear
  <2> DEFINE utc == ToUtcTime(FromUtcTime(ymd, t))
  <2>1. utc = [date |-> ymd, time |-> t, wday |-> WeekDay(jdn),
               yday |-> jdn - JulianDayNumber(year, 1, 1)]
    <3>1. t \in {[hour |-> 0, min |-> 0, sec |-> 0],
                [hour |-> 23, min |-> Sixty - 1, sec |-> Sixty - 1]}
      OBVIOUS
    <3>2. year \in Nat /\ month \in 1..12
      BY <1>1
    <3> QED BY <3>1, <3>2, UtcGoesBack, Zenon
  <2>2. jdn - JulianDayNumber(year, 1, 1) = firstDay + d - 1 - newYear
    <3> HIDE DEF jdn, J
    <3> QED BY <1>1, <1>3, <1>5, SMT
  <2> HIDE DEF utc
  <2>3. utc.date = ymd /\ utc.time = t /\ utc.wday = WeekDay(jdn)
        /\ utc.yday = jdn - JulianDayNumber(year, 1, 1)
    <3> HIDE DEF ymd, jdn
    <3> QED BY <2>1
  <2> QED BY <2>2, <2>3 DEF utc
<1> HIDE DEF ymd, jdn, hms
<1> QED BY <1>5, <1>6, <1>7, <1>8 DEF ymd, jdn

LEMMA CalendarInvariant == CalendarSpec => []CalendarInv
<1>1. CalendarInit => CalendarInv
  BY CalendarStarts
<1>2. CalendarInv /\ [CalendarNext]_calendarVars => CalendarInv'
  BY CalendarTurns
<1> QED BY <1>1, <1>2, PTL DEF CalendarSpec

LEMMA CalendarAlwaysTyped == CalendarSpec => []CalendarTypeOK
<1>1. CalendarInv => CalendarTypeOK
  BY DEF CalendarInv
<1> QED BY <1>1, CalendarInvariant, PTL

\* Theorem: in every month from the first year on the Julian day numbers count
\* days and give dates and days of the week back, and midnight and the last
\* second of each day go to calendar time and back.
THEOREM DateAlwaysRight == CalendarSpec => []DateRight
<1> QED BY CalendarInvariant, CalendarInvRight, PTL

-----------------------------------------------------------------------------
(* TimeZone: every time in every zone that is usual.                       *)

\* What a zone's transitions are as numbers.
LEMMA ZoneTimes ==
  ASSUME NEW f, Usual(f)
  PROVE  /\ Len(f.times) \in Nat
         /\ \A i \in 0..Len(f.times) :
              /\ LocalType(f, i).gmtOffset \in Int /\ LocalType(f, i).isDst \in BOOLEAN
              /\ \E k \in DOMAIN f.types : LocalType(f, i) = f.types[k]
         /\ \A i \in 1..Len(f.times) :
              /\ f.times[i] \in Int
              /\ Transitions(f)[i].gmttime = f.times[i]
              /\ Transitions(f)[i].localtime = f.times[i] + LocalType(f, i).gmtOffset
         /\ \A i, j \in 1..Len(f.times) : i < j =>
              \A k, l \in 0..Len(f.times) :
                LocalType(f, k).gmtOffset - LocalType(f, l).gmtOffset < f.times[j] - f.times[i]
<1> DEFINE n == Len(f.times)
<1>1. f.times \in Seq(Int) /\ n \in Nat /\ \A i \in 1..n : f.times[i] \in Int
  BY DEF Usual
<1>2. \A i \in 0..n : \E k \in DOMAIN f.types : LocalType(f, i) = f.types[k]
  <2> SUFFICES ASSUME NEW i \in 0..n PROVE \E k \in DOMAIN f.types : LocalType(f, i) = f.types[k]
    OBVIOUS
  <2>1. CASE i = 0
    <3>1. 1 \in DOMAIN f.types
      BY DEF Usual
    <3> QED BY <2>1, <3>1 DEF LocalType
  <2>2. CASE i # 0
    <3>1. i \in 1..n
      BY <1>1, <2>2
    <3>2. f.indexes[i] + 1 \in DOMAIN f.types
      BY <3>1 DEF Usual
    <3> QED BY <2>2, <3>2 DEF LocalType
  <2> QED BY <2>1, <2>2
<1>3. \A k \in DOMAIN f.types : f.types[k].gmtOffset \in Int /\ f.types[k].isDst \in BOOLEAN
  <2> DEFINE R == [gmtOffset : Int, isDst : BOOLEAN]
             s == f.types
  <2>1. s \in Seq(R)
    BY DEF Usual
  <2>2. \A r \in R : r.gmtOffset \in Int /\ r.isDst \in BOOLEAN
    OBVIOUS
  <2> HIDE DEF R, s
  <2>3. \A k \in DOMAIN s : s[k] \in R
    BY <2>1
  <2>4. \A k \in DOMAIN s : s[k].gmtOffset \in Int /\ s[k].isDst \in BOOLEAN
    BY <2>2, <2>3
  <2> QED BY <2>4 DEF s
<1>4. \A i \in 0..n : LocalType(f, i).gmtOffset \in Int /\ LocalType(f, i).isDst \in BOOLEAN
  BY <1>2, <1>3
<1>5. ASSUME NEW i \in 1..n
      PROVE  /\ Transitions(f)[i].gmttime = f.times[i]
             /\ Transitions(f)[i].localtime = f.times[i] + LocalType(f, i).gmtOffset
  BY DEF Transitions
<1>6. ASSUME NEW i \in 1..n, NEW j \in 1..n, i < j, NEW k \in 0..n, NEW l \in 0..n
      PROVE  LocalType(f, k).gmtOffset - LocalType(f, l).gmtOffset < f.times[j] - f.times[i]
  <2>1. PICK a \in DOMAIN f.types : LocalType(f, k) = f.types[a]
    BY <1>2
  <2>2. PICK b \in DOMAIN f.types : LocalType(f, l) = f.types[b]
    BY <1>2
  <2>3. f.types[a].gmtOffset - f.types[b].gmtOffset < f.times[j] - f.times[i]
    BY <1>6 DEF Usual
  <2> QED BY <2>1, <2>2, <2>3
<1> QED BY <1>1, <1>2, <1>4, <1>5, <1>6

\* The last transition that is not after t.
LEMMA PeriodAt ==
  ASSUME NEW f, Usual(f), NEW t \in Int
  PROVE  \E i \in 0..Len(f.times) :
           /\ i # 0 => f.times[i] <= t
           /\ i # Len(f.times) => t < f.times[i + 1]
<1> DEFINE n == Len(f.times)
           T == {k \in 1..n : t < f.times[k]}
<1>1. n \in Nat /\ \A k \in 1..n : f.times[k] \in Int
  BY ZoneTimes
<1>2. CASE T = {}
  <2>1. n # 0 => f.times[n] <= t
    BY <1>1, <1>2
  <2> QED BY <1>1, <2>1
<1>3. CASE T # {}
  <2>1. T \subseteq Nat
    BY <1>1
  <2> HIDE DEF T
  <2>2. PICK x \in T : \A y \in T : x <= y
    BY <1>3, <2>1, LeastOf
  <2>3. x \in 1..n /\ t < f.times[x] /\ x - 1 \in 0..n /\ (x - 1) + 1 = x
    BY <1>1, <2>2 DEF T
  <2>4. x - 1 \notin T
    BY <2>1, <2>2, <2>3
  <2>5. x - 1 # 0 => f.times[x - 1] <= t
    BY <1>1, <2>3, <2>4 DEF T
  <2> QED BY <2>3, <2>5
<1> QED BY <1>2, <1>3

\* findLocaltime() finds what the transition says that is the last one not
\* after t.
LEMMA FindsLocaltime ==
  ASSUME NEW f, NEW key, NEW t \in Int, Len(f.times) \in Nat,
         NEW T, \A i \in 1..Len(f.times) : Transitions(f)[i][key] = T[i],
         \A i \in 1..Len(f.times) : T[i] \in Int,
         \A i, j \in 1..Len(f.times) : i < j => T[i] < T[j],
         NEW i \in 0..Len(f.times),
         i # 0 => T[i] <= t, i # Len(f.times) => t < T[i + 1]
  PROVE  FindLocaltime(f, key, t) = LocalType(f, i)
<1> DEFINE n == Len(f.times)
           Is(x) == (x = n + 1 \/ ~Comp(Transitions(f)[x][key], t))
                      /\ \A j \in 1..x-1 : Comp(Transitions(f)[j][key], t)
           lower == CHOOSE x \in 1..n+1 : Is(x)
<1>1. FindLocaltime(f, key, t) =
        IF n = 0 \/ Comp(t, Transitions(f)[1][key]) THEN LocalType(f, 0)
        ELSE IF lower = n + 1 THEN LocalType(f, n)
        ELSE IF t # Transitions(f)[lower][key] THEN LocalType(f, lower - 1)
        ELSE LocalType(f, lower)
  BY DEF FindLocaltime
<1>2. CASE i = 0
  <2>1. n # 0 => Comp(t, Transitions(f)[1][key])
    <3> SUFFICES ASSUME n # 0 PROVE Comp(t, Transitions(f)[1][key])
      OBVIOUS
    <3>1. 1 \in 1..n /\ i + 1 = 1
      BY <1>2
    <3>2. t < T[1]
      BY <1>2, <3>1
    <3>3. Transitions(f)[1][key] = T[1]
      BY <3>1
    <3> QED BY <3>2, <3>3 DEF Comp
  <2> QED BY <1>1, <1>2, <2>1
<1>3. CASE i # 0
  <2>1. i \in 1..n /\ n # 0 /\ 1 \in 1..n
    BY <1>3
  <2>2. T[1] <= t
    <3>1. T[i] <= t /\ T[1] \in Int /\ T[i] \in Int
      BY <1>3, <2>1
    <3>2. CASE i = 1
      BY <3>1, <3>2
    <3>3. CASE i # 1
      <4>1. T[1] < T[i]
        BY <2>1, <3>3
      <4> QED BY <3>1, <4>1
    <3> QED BY <3>2, <3>3
  <2>3. ~Comp(t, Transitions(f)[1][key])
    <3>1. T[1] = Transitions(f)[1][key]
      BY <2>1
    <3> QED BY <2>1, <2>2, <3>1 DEF Comp
  <2> DEFINE x == IF T[i] = t THEN i ELSE i + 1
  <2>4. x \in 1..n+1 /\ (x # n + 1 => x \in 1..n) /\ x \in Int
    BY <2>1
  <2>5. \A y \in 1..n : Transitions(f)[y][key] = T[y]
    OBVIOUS
  <2>6. ASSUME NEW y \in 1..n, y < x PROVE T[y] < t
    BY <1>3, <2>1, <2>6
  <2>7. x # n + 1 => ~(T[x] < t)
    BY <1>3, <2>1, <2>4
  <2>8. Is(x)
    <3>1. x = n + 1 \/ ~Comp(Transitions(f)[x][key], t)
      BY <2>4, <2>5, <2>7 DEF Comp
    <3>2. ASSUME NEW j \in 1..x-1 PROVE Comp(Transitions(f)[j][key], t)
      <4>1. j \in 1..n /\ j < x
        BY <2>1, <2>4
      <4> QED BY <2>5, <2>6, <4>1 DEF Comp
    <3> QED BY <3>1, <3>2
  <2>9. ASSUME NEW y \in 1..n+1, Is(y) PROVE y = x
    <3>1. CASE y < x
      <4>1. y \in 1..n
        BY <2>1, <2>4, <3>1
      <4>2. ~(T[y] < t)
        BY <2>5, <2>9, <4>1 DEF Comp
      <4> QED BY <2>6, <3>1, <4>1, <4>2
    <3>2. CASE x < y
      <4>1. x \in 1..y-1 /\ x \in 1..n
        BY <2>4, <3>2
      <4>2. T[x] < t
        BY <2>5, <2>9, <4>1 DEF Comp
      <4> QED BY <2>4, <2>7, <4>1, <4>2
    <3> QED BY <2>4, <3>1, <3>2
  <2>10. lower = x
    <3> HIDE DEF Is, x
    <3> QED BY <2>4, <2>8, <2>9
  <2> HIDE DEF lower
  <2>11. FindLocaltime(f, key, t) =
           IF x = n + 1 THEN LocalType(f, n)
           ELSE IF t # Transitions(f)[x][key] THEN LocalType(f, x - 1)
           ELSE LocalType(f, x)
    BY <1>1, <2>1, <2>3, <2>10
  <2>12. CASE T[i] = t
    <3>1. x = i /\ x # n + 1 /\ Transitions(f)[x][key] = t
      BY <2>1, <2>5, <2>12
    <3> QED BY <2>11, <3>1
  <2>13. CASE T[i] # t
    <3>1. x = i + 1 /\ (x = n + 1 => i = n) /\ x - 1 = i
      BY <2>1, <2>13
    <3>2. x # n + 1 => t # Transitions(f)[x][key]
      <4> SUFFICES ASSUME x # n + 1 PROVE t # Transitions(f)[x][key]
        OBVIOUS
      <4>1. x \in 1..n /\ i # n
        BY <2>4, <3>1
      <4>2. t < T[x]
        BY <3>1, <4>1
      <4> QED BY <2>5, <4>1, <4>2
    <3> HIDE DEF x
    <3> QED BY <2>11, <3>1, <3>2
  <2> QED BY <2>12, <2>13
<1> QED BY <1>2, <1>3

\* Local time at t, in the period i that t is in.
LEMMA LocalTimeIs ==
  ASSUME NEW f, Usual(f), NEW t \in Int, NEW i \in 0..Len(f.times),
         i # 0 => f.times[i] <= t, i # Len(f.times) => t < f.times[i + 1]
  PROVE  ToLocalTime(f, t) =
           [seconds |-> t + LocalType(f, i).gmtOffset, isdst |-> LocalType(f, i).isDst]
<1> DEFINE n == Len(f.times)
           T == [k \in 1..n |-> f.times[k]]
<1>1. n \in Nat /\ \A k \in 1..n : T[k] \in Int /\ Transitions(f)[k]["gmttime"] = T[k]
  BY ZoneTimes
<1>2. ASSUME NEW k \in 1..n, NEW l \in 1..n, k < l PROVE T[k] < T[l]
  <2>1. 0 \in 0..n /\ LocalType(f, 0).gmtOffset \in Int
    BY <1>1, ZoneTimes
  <2>2. LocalType(f, 0).gmtOffset - LocalType(f, 0).gmtOffset < f.times[l] - f.times[k]
    BY <1>2, <2>1, ZoneTimes
  <2>3. f.times[k] \in Int /\ f.times[l] \in Int
    BY ZoneTimes
  <2> QED BY <2>1, <2>2, <2>3
<1>3. (i # 0 => T[i] <= t) /\ (i # n => t < T[i + 1])
  BY <1>1
<1> HIDE DEF T
<1>4. FindLocaltime(f, "gmttime", t) = LocalType(f, i)
  BY <1>1, <1>2, <1>3, FindsLocaltime
<1> QED BY <1>4 DEF ToLocalTime

\* What findLocaltime() finds for a local time that is local in the period i
\* or in the next one.
LEMMA LocalFound ==
  ASSUME NEW f, Usual(f), NEW L \in Int, NEW i \in 0..Len(f.times),
         i # 0 => f.times[i] + LocalType(f, i).gmtOffset <= L,
         i # Len(f.times) => L < f.times[i + 1] + LocalType(f, i + 1).gmtOffset
  PROVE  FindLocaltime(f, "localtime", L) = LocalType(f, i)
<1> DEFINE n == Len(f.times)
           T == [k \in 1..n |-> f.times[k] + LocalType(f, k).gmtOffset]
<1>1. n \in Nat /\ \A k \in 1..n : T[k] \in Int /\ Transitions(f)[k]["localtime"] = T[k]
  <2>1. ASSUME NEW k \in 1..n
        PROVE  T[k] \in Int /\ Transitions(f)[k]["localtime"] = T[k]
    <3>1. k \in 0..n /\ f.times[k] \in Int
      BY ZoneTimes
    <3>2. LocalType(f, k).gmtOffset \in Int
      BY <3>1, ZoneTimes
    <3>3. Transitions(f)[k].localtime = f.times[k] + LocalType(f, k).gmtOffset
      BY ZoneTimes
    <3> QED BY <3>1, <3>2, <3>3
  <2> QED BY <2>1, ZoneTimes
<1>2. ASSUME NEW k \in 1..n, NEW l \in 1..n, k < l PROVE T[k] < T[l]
  <2> DEFINE o == LocalType(f, k).gmtOffset
             p == LocalType(f, l).gmtOffset
  <2>1. k \in 0..n /\ l \in 0..n
    BY <1>1
  <2>2. o \in Int /\ p \in Int /\ f.times[k] \in Int /\ f.times[l] \in Int
    BY <2>1, ZoneTimes
  <2>3. o - p < f.times[l] - f.times[k]
    BY <1>2, <2>1, ZoneTimes
  <2>4. T[k] = f.times[k] + o /\ T[l] = f.times[l] + p
    OBVIOUS
  <2> HIDE DEF o, p, T
  <2> QED BY <2>2, <2>3, <2>4
<1>3. (i # 0 => T[i] <= L) /\ (i # n => L < T[i + 1])
  BY <1>1
<1> HIDE DEF T
<1> QED BY <1>1, <1>2, <1>3, FindsLocaltime

\* A clock's local time goes back to the clock in a zone as zones are.
LEMMA UsualRight ==
  ASSUME NEW f, Usual(f), NEW t \in Int
  PROVE  LET tm == ToLocalTime(f, t)
             back == FromLocalTime(f, tm)
         IN /\ ToLocalTime(f, back) = tm
            /\ (\E i \in 1..Len(f.types) : f.types[i].isDst) => back = t
<1> DEFINE n == Len(f.times)
           O(k) == LocalType(f, k).gmtOffset
           D(k) == LocalType(f, k).isDst
           hour == Sixty * Sixty
<1>1. n \in Nat /\ \A k \in 0..n : O(k) \in Int /\ D(k) \in BOOLEAN
  BY ZoneTimes
<1>2. PICK i \in 0..n : (i # 0 => f.times[i] <= t) /\ (i # n => t < f.times[i + 1])
  BY PeriodAt
<1> DEFINE tm == ToLocalTime(f, t)
           L == t + O(i)
           back == FromLocalTime(f, tm)
           local == FindLocaltime(f, "localtime", L)
           tried == ToLocalTime(f, L - local.gmtOffset)
           hack == D(i) /\ ~tried.isdst /\ HourAndMinute(tried.seconds) = HourAndMinute(L)
<1>3. tm = [seconds |-> L, isdst |-> D(i)]
  BY <1>2, LocalTimeIs
<1>4. back = L - (IF hack THEN hour ELSE 0) - local.gmtOffset
  <2>1. tm.seconds = L /\ tm.isdst = D(i)
    BY <1>3
  <2> HIDE DEF tm, L
  <2> QED BY <2>1 DEF FromLocalTime
<1>5. L \in Int /\ O(i) \in Int /\ D(i) \in BOOLEAN /\ hour \in Int
  BY <1>1, CalendarAssumption
<1>6. i # 0 => f.times[i] + O(i) <= L
  <2>1. i # 0 => f.times[i] \in Int
    BY <1>1, ZoneTimes
  <2> QED BY <1>1, <1>2, <2>1
<1>7. CASE i # n => L < f.times[i + 1] + O(i + 1)
  <2>1. local = LocalType(f, i)
    <3> HIDE DEF L
    <3> QED BY <1>5, <1>6, <1>7, LocalFound
  <2>2. L - local.gmtOffset = t
    BY <1>5, <2>1
  <2>3. tried = tm
    BY <2>2
  <2>4. ~hack
    BY <1>3, <2>3
  <2>5. back = t
    <3> HIDE DEF hack, local, back, L
    <3>1. back = L - local.gmtOffset
      BY <1>4, <1>5, <2>1, <2>4
    <3> QED BY <2>2, <3>1
  <2> QED BY <2>5
<1>8. CASE i # n /\ ~(L < f.times[i + 1] + O(i + 1))
  <2> DEFINE j == i + 1
             u == L - O(j)
             drop == O(i) - O(j)
  <2>1. j \in 1..n /\ j \in 0..n /\ j # 0 /\ i \in 0..n-1
    BY <1>1, <1>8
  <2>2. O(j) \in Int /\ D(j) \in BOOLEAN /\ f.times[j] \in Int /\ u \in Int /\ drop \in Int
    <3>1. O(j) \in Int /\ D(j) \in BOOLEAN
      BY <1>1, <2>1
    <3>2. f.times[j] \in Int
      BY <2>1, ZoneTimes
    <3> HIDE DEF O, L, j
    <3> QED BY <1>5, <3>1, <3>2
  <2>3. f.times[j] + O(j) <= L /\ f.times[j] <= u /\ u = t + drop /\ drop > 0
    <3>1. t < f.times[j] /\ L = t + O(i) /\ ~(L < f.times[j] + O(j))
      BY <1>2, <1>8
    <3> DEFINE oi == O(i)
               oj == O(j)
               gj == f.times[j]
    <3>2. oi \in Int /\ oj \in Int /\ gj \in Int /\ t < gj /\ L = t + oi /\ ~(L < gj + oj)
      BY <1>5, <2>2, <3>1
    <3> HIDE DEF oi, oj, gj, L
    <3>3. gj + oj <= L /\ gj <= L - oj /\ L - oj = t + (oi - oj) /\ oi - oj > 0
      BY <3>2
    <3> QED BY <3>3 DEF oi, oj, gj
  <2>4. ASSUME j # n
        PROVE  L < f.times[j + 1] + O(j + 1) /\ u < f.times[j + 1]
    <3>1. j + 1 \in 1..n /\ j + 1 \in 0..n /\ j < j + 1
      BY <1>1, <2>1, <2>4
    <3>2. f.times[j + 1] \in Int /\ O(j + 1) \in Int
      BY <1>1, <3>1, ZoneTimes
    <3>3. O(i) - O(j + 1) < f.times[j + 1] - f.times[j] /\ O(i) - O(j) < f.times[j + 1] - f.times[j]
      <4> HIDE DEF j
      <4> QED BY <2>1, <3>1, ZoneTimes
    <3>4. t < f.times[j] /\ L = t + O(i)
      BY <1>2, <1>8
    <3> DEFINE oi == O(i)
               oj == O(j)
               ok == O(j + 1)
               gj == f.times[j]
               gk == f.times[j + 1]
    <3>5. /\ oi \in Int /\ oj \in Int /\ ok \in Int /\ gj \in Int /\ gk \in Int
          /\ oi - ok < gk - gj /\ oi - oj < gk - gj /\ t < gj /\ L = t + oi
      BY <1>5, <2>2, <3>2, <3>3, <3>4
    <3> HIDE DEF oi, oj, ok, gj, gk, L
    <3>6. L < gk + ok /\ L - oj < gk
      BY <3>5
    <3> QED BY <3>6 DEF oj, ok, gk
  <2>5. local = LocalType(f, j)
    <3> HIDE DEF L, j
    <3> QED BY <1>5, <2>1, <2>3, <2>4, LocalFound
  <2>6. ToLocalTime(f, u) = [seconds |-> u + O(j), isdst |-> D(j)] /\ u + O(j) = L
    <3>1. ToLocalTime(f, u) = [seconds |-> u + O(j), isdst |-> D(j)]
      <4> HIDE DEF u, j
      <4> QED BY <2>1, <2>2, <2>3, <2>4, LocalTimeIs
    <3>2. u + O(j) = L
      <4> HIDE DEF L, O, j
      <4> QED BY <1>5, <2>2
    <3> QED BY <3>1, <3>2
  <2>7. tried.seconds = L /\ tried.isdst = D(j)
    <3>1. tried = ToLocalTime(f, u)
      BY <2>5
    <3> QED BY <2>6, <3>1
  <2>8. hack <=> (D(i) /\ ~D(j))
    BY <2>7
  <2>9. back = u - (IF hack THEN hour ELSE 0)
    <3>1. local.gmtOffset = O(j)
      BY <2>5
    <3> DEFINE h == IF hack THEN hour ELSE 0
    <3>2. h \in Int /\ back = L - h - local.gmtOffset
      BY <1>4, <1>5
    <3>3. u = L - O(j)
      OBVIOUS
    <3> HIDE DEF h, back, L, u, O, local, j
    <3>4. back = u - h
      BY <1>5, <2>2, <3>1, <3>2, <3>3
    <3> QED BY <3>4 DEF h
  <2>10. CASE \E k \in DOMAIN f.types : f.types[k].isDst
    <3>1. drop = hour /\ D(i) /\ ~D(j)
      BY <2>1, <2>3, <2>10 DEF Usual
    <3>2. back = u - drop
      BY <2>8, <2>9, <3>1
    <3>3. back = t
      <4> HIDE DEF drop, u, back
      <4> QED BY <2>2, <2>3, <3>2
    <3> QED BY <3>3
  <2>11. CASE ~ \E k \in DOMAIN f.types : f.types[k].isDst
    <3>1. ~D(i) /\ ~D(j)
      BY <2>1, <2>11, ZoneTimes
    <3>2. back = u
      <4>1. ~hack
        BY <3>1
      <4> HIDE DEF hack, back, u
      <4> QED BY <2>2, <2>9, <4>1
    <3>3. ToLocalTime(f, back) = tm
      <4>1. D(j) = D(i)
        BY <2>2, <1>5, <3>1
      <4> HIDE DEF u, L, back, D, tm, O
      <4> QED BY <1>3, <2>6, <3>2, <4>1
    <3>4. DOMAIN f.types = 1..Len(f.types)
      BY DEF Usual
    <3> QED BY <2>11, <3>3, <3>4
  <2> QED BY <2>10, <2>11
<1> QED BY <1>7, <1>8

LEMMA ZoneAlwaysTyped == ZoneSpec => []ZoneTypeOK
<1>1. ZoneInit => ZoneTypeOK
  BY ZoneAssumption DEF ZoneInit, ZoneTypeOK
<1>2. ZoneTypeOK /\ [ZoneNext]_zoneVars => ZoneTypeOK'
  BY ZoneAssumption DEF ZoneTypeOK, ZoneNext, Tick, zoneVars
<1> QED BY <1>1, <1>2, PTL DEF ZoneSpec

\* Theorem: in zones as they are the clock's local time goes back to the clock
\* through all transitions.
THEOREM ZoneAlwaysRight == ZoneSpec => []ZoneRight
<1>1. ZoneTypeOK => ZoneRight
  <2> SUFFICES ASSUME ZoneTypeOK PROVE ZoneRight
    OBVIOUS
  <2>1. Usual(zone) /\ seconds \in Int
    BY ZoneAssumption DEF ZoneTypeOK
  <2> QED BY <2>1, UsualRight DEF ZoneRight
<1> QED BY <1>1, ZoneAlwaysTyped, PTL

-----------------------------------------------------------------------------
(* LogStream: the buffer of a statement, and convert().                    *)

\* The table has the digit of a remainder of either sign.
LEMMA ZeroIs ==
  ASSUME NEW d \in Int, -9 <= d, d <= 9
  PROVE  Zero[d] = IF d < 0 THEN -d ELSE d
<1> DEFINE T == <<9, 8, 7, 6, 5, 4, 3, 2, 1, 0, 1, 2, 3, 4, 5, 6, 7, 8, 9>>
<1>1. Zero[d] = T[d + 10]
  BY DEF Zero
<1>2. /\ T[1] = 9 /\ T[2] = 8 /\ T[3] = 7 /\ T[4] = 6 /\ T[5] = 5 /\ T[6] = 4
      /\ T[7] = 3 /\ T[8] = 2 /\ T[9] = 1 /\ T[10] = 0
  OBVIOUS
<1>3. /\ T[11] = 1 /\ T[12] = 2 /\ T[13] = 3 /\ T[14] = 4 /\ T[15] = 5
      /\ T[16] = 6 /\ T[17] = 7 /\ T[18] = 8 /\ T[19] = 9
  OBVIOUS
<1> HIDE DEF T
<1> QED BY <1>1, <1>2, <1>3

\* / and % as C has them.
LEMMA Quotients ==
  ASSUME NEW i \in Int
  PROVE  /\ Quotient10(i) \in Int /\ Remainder10(i) \in Int
         /\ i = 10 * Quotient10(i) + Remainder10(i)
         /\ i < 0 => Quotient10(i) <= 0 /\ Remainder10(i) <= 0 /\ -9 <= Remainder10(i)
         /\ i >= 0 => Quotient10(i) >= 0 /\ Remainder10(i) >= 0 /\ Remainder10(i) <= 9
<1> DEFINE n == IF i < 0 THEN -i ELSE i
           q == n \div 10
<1>1. n \in Nat
  OBVIOUS
<1> HIDE DEF n
<1>2. q \in Int /\ q >= 0 /\ 0 <= n - 10 * q /\ n - 10 * q <= 9
  BY <1>1
<1>3. Quotient10(i) = IF i < 0 THEN -q ELSE q
  BY DEF Quotient10, n
<1>4. Remainder10(i) = i - 10 * Quotient10(i)
  BY DEF Remainder10
<1> HIDE DEF q
<1> QED BY <1>2, <1>3, <1>4 DEF n

DigitOf(i) == Zero[Remainder10(i)]

LEMMA DigitIs ==
  ASSUME NEW i \in Int
  PROVE  /\ DigitOf(i) \in Nat /\ DigitOf(i) <= 9
         /\ i < 0 => i = 10 * Quotient10(i) - DigitOf(i)
         /\ i >= 0 => i = 10 * Quotient10(i) + DigitOf(i)
<1> DEFINE r == Remainder10(i)
<1>1. /\ r \in Int /\ -9 <= r /\ r <= 9 /\ i = 10 * Quotient10(i) + r
      /\ (i < 0 => r <= 0) /\ (i >= 0 => r >= 0) /\ Quotient10(i) \in Int
  BY Quotients
<1>2. DigitOf(i) = Zero[r]
  BY DEF DigitOf
<1> HIDE DEF r
<1>3. DigitOf(i) = IF r < 0 THEN -r ELSE r
  BY <1>1, <1>2, ZeroIs
<1> QED BY <1>1, <1>3

\* An integer of eight bits has three digits at most.
LEMMA Small ==
  ASSUME NEW i \in Int, -128 <= i, i <= 127
  PROVE  LET q == Quotient10(i)
             p == Quotient10(q)
         IN /\ q \in Int /\ -12 <= q /\ q <= 12
            /\ p \in Int /\ -1 <= p /\ p <= 1
            /\ Quotient10(p) = 0
            /\ i < 0 => q <= 0 /\ p <= 0
            /\ i >= 0 => q >= 0 /\ p >= 0
<1> DEFINE q == Quotient10(i)
           p == Quotient10(q)
           o == Quotient10(p)
<1>1. /\ q \in Int /\ -12 <= q /\ q <= 12 /\ (i < 0 => q <= 0) /\ (i >= 0 => q >= 0)
  BY Quotients
<1> HIDE DEF q
<1>2. /\ p \in Int /\ -1 <= p /\ p <= 1
      /\ (q < 0 => p <= 0) /\ (q >= 0 => p >= 0) /\ (q = 0 => p = 0)
  BY <1>1, Quotients
<1> HIDE DEF p
<1>3. o = 0
  <2>1. p \in Int /\ -1 <= p /\ p <= 1
    BY <1>2
  <2>2. o \in Int /\ Remainder10(p) \in Int /\ p = 10 * o + Remainder10(p)
    BY <2>1, Quotients
  <2>3. p < 0 => o <= 0 /\ Remainder10(p) <= 0
    BY <2>1, Quotients
  <2>4. p >= 0 => o >= 0 /\ Remainder10(p) >= 0
    BY <2>1, Quotients
  <2> HIDE DEF o
  <2> QED BY <2>1, <2>2, <2>3, <2>4
<1> QED BY <1>1, <1>2, <1>3 DEF q, p

\* The recursion of convert()'s loop has an end.
LEMMA DigitsAre ==
  ASSUME NEW i \in -128..127
  PROVE  Digits[i] = <<DigitOf(i)>> \o
           (IF Quotient10(i) = 0 THEN <<>> ELSE Digits[Quotient10(i)])
<1> DEFINE S == -128..127
           Two(j) == <<DigitOf(j)>> \o
             (IF Quotient10(j) = 0 THEN <<>> ELSE <<DigitOf(Quotient10(j))>>)
           Three(j) == <<DigitOf(j)>> \o
             (IF Quotient10(j) = 0 THEN <<>> ELSE Two(Quotient10(j)))
           F == [j \in S |-> Three(j)]
           Step(g) == [j \in S |-> <<DigitOf(j)>> \o
             (IF Quotient10(j) = 0 THEN <<>> ELSE g[Quotient10(j)])]
<1>1. \A j \in S : Quotient10(j) # 0 => Three(Quotient10(j)) = Two(Quotient10(j))
  <2> TAKE j \in S
  <2> DEFINE q == Quotient10(j)
  <2>1. Quotient10(Quotient10(q)) = 0
    BY Small
  <2> HIDE DEF q
  <2> SUFFICES Three(q) = Two(q)
    BY DEF q
  <2>2. CASE Quotient10(q) = 0
    BY <2>2
  <2>3. CASE Quotient10(q) # 0
    <3>1. Two(Quotient10(q)) = <<DigitOf(Quotient10(q))>> \o <<>>
      BY <2>1
    <3>2. <<DigitOf(Quotient10(q))>> \o <<>> = <<DigitOf(Quotient10(q))>>
      OBVIOUS
    <3> QED BY <3>1, <3>2
  <2> QED BY <2>2, <2>3
<1>2. \A j \in S : Quotient10(j) \in S
  <2> TAKE j \in S
  <2>1. Quotient10(j) \in Int /\ -12 <= Quotient10(j) /\ Quotient10(j) <= 12
    BY Small
  <2> QED BY <2>1
<1>3. \A j \in S : Three(j) = Step(F)[j]
  <2> TAKE j \in S
  <2>1. Step(F)[j] = <<DigitOf(j)>> \o
             (IF Quotient10(j) = 0 THEN <<>> ELSE F[Quotient10(j)])
    OBVIOUS
  <2>2. F[Quotient10(j)] = Three(Quotient10(j))
    BY <1>2
  <2> HIDE DEF F
  <2> QED BY <2>1, <2>2, <1>1
<1>4. F = Step(F)
  <2> HIDE DEF Three
  <2> QED BY <1>3
<1>5. Digits = CHOOSE g : g = Step(g)
  BY DEF Digits, DigitOf
<1> HIDE DEF F, Step
<1>6. \E g : g = Step(g)
  BY <1>4
<1>7. Digits = Step(Digits)
  BY <1>5, <1>6
<1>8. Step(Digits)[i] = <<DigitOf(i)>> \o
        (IF Quotient10(i) = 0 THEN <<>> ELSE Digits[Quotient10(i)])
  BY DEF Step
<1> QED BY <1>7, <1>8

\* A digit before others.
LEMMA OneBefore ==
  ASSUME NEW e \in Nat, NEW s \in Seq(Nat)
  PROVE  /\ <<e>> \o s \in Seq(Nat) /\ Len(<<e>> \o s) = Len(s) + 1
         /\ (<<e>> \o s)[1] = e
         /\ Len(s) >= 1 => (<<e>> \o s)[2] = s[1]
         /\ Len(s) >= 2 => (<<e>> \o s)[3] = s[2]
  OBVIOUS

DigitAt(d, k) == IF k < Len(d) THEN d[k + 1] ELSE 0

\* The digits, the last one first, are those of the number's size.
LEMMA DigitsRead ==
  ASSUME NEW v \in Int, -128 <= v, v <= 127
  PROVE  LET d == Digits[v]
             size == DigitAt(d, 0) + 10 * DigitAt(d, 1) + 100 * DigitAt(d, 2)
         IN /\ d \in Seq(Nat) /\ 1 <= Len(d) /\ Len(d) <= 3
            /\ v = IF v < 0 THEN -size ELSE size
            /\ Len(d) > 1 => d[Len(d)] # 0
<1> DEFINE d == Digits[v]
           q == Quotient10(v)
           p == Quotient10(q)
           a == DigitOf(v)
           b == DigitOf(q)
           c == DigitOf(p)
<1>1. /\ q \in Int /\ -12 <= q /\ q <= 12 /\ p \in Int /\ -1 <= p /\ p <= 1
      /\ Quotient10(p) = 0
      /\ (v < 0 => q <= 0 /\ p <= 0) /\ (v >= 0 => q >= 0 /\ p >= 0)
  BY Small
<1>2. v \in -128..127 /\ q \in -128..127 /\ p \in -128..127
  BY <1>1
<1>3. a \in Nat /\ (v < 0 => v = 10 * q - a) /\ (v >= 0 => v = 10 * q + a)
  BY DigitIs
<1>4. b \in Nat /\ (q < 0 => q = 10 * p - b) /\ (q >= 0 => q = 10 * p + b)
  BY <1>1, DigitIs
<1>5. c \in Nat /\ (p < 0 => p = 10 * 0 - c) /\ (p >= 0 => p = 10 * 0 + c)
  BY <1>1, DigitIs
<1>6. d = <<a>> \o (IF q = 0 THEN <<>> ELSE Digits[q])
  BY <1>2, DigitsAre
<1>7. Digits[q] = <<b>> \o (IF p = 0 THEN <<>> ELSE Digits[p])
  BY <1>2, DigitsAre
<1>8. Digits[p] = <<c>> \o <<>>
  BY <1>1, <1>2, DigitsAre
<1> DEFINE size == DigitAt(d, 0) + 10 * DigitAt(d, 1) + 100 * DigitAt(d, 2)
<1> HIDE DEF a, b, c, p, q, d
<1>9. CASE q = 0
  <2>1. d = <<a>>
    BY <1>6, <1>9
  <2>2. d \in Seq(Nat) /\ Len(d) = 1 /\ d[1] = a
    BY <2>1, <1>3
  <2>3. size = a
    BY <2>2, <1>3 DEF DigitAt
  <2> QED BY <2>2, <2>3, <1>3, <1>9 DEF d, DigitAt
<1>10. CASE q # 0 /\ p = 0
  <2>1. Digits[q] = <<b>>
    BY <1>7, <1>10
  <2>2. d \in Seq(Nat) /\ Len(d) = 2 /\ d[1] = a /\ d[2] = b
    <3>1. d = <<a>> \o Digits[q]
      BY <1>6, <1>10
    <3>2. Digits[q] \in Seq(Nat) /\ Len(Digits[q]) = 1 /\ Digits[q][1] = b
      BY <1>4, <2>1
    <3>3. /\ d \in Seq(Nat) /\ Len(d) = Len(Digits[q]) + 1 /\ d[1] = a
          /\ Len(Digits[q]) >= 1 => d[2] = Digits[q][1]
      BY <1>3, <3>1, <3>2, OneBefore
    <3> QED BY <3>2, <3>3
  <2>3. size = a + 10 * b
    BY <2>2, <1>3, <1>4 DEF DigitAt
  <2>4. /\ b # 0 /\ v = IF v < 0 THEN -(a + 10 * b) ELSE a + 10 * b
    BY <1>1, <1>3, <1>4, <1>10
  <2> QED BY <2>2, <2>3, <2>4 DEF d, DigitAt
<1>11. CASE q # 0 /\ p # 0
  <2>1. Digits[p] = <<c>>
    BY <1>8
  <2>2. d \in Seq(Nat) /\ Len(d) = 3 /\ d[1] = a /\ d[2] = b /\ d[3] = c
    <3>1. Digits[q] = <<b>> \o Digits[p]
      BY <1>7, <1>11
    <3>2. Digits[p] \in Seq(Nat) /\ Len(Digits[p]) = 1 /\ Digits[p][1] = c
      BY <1>5, <2>1
    <3>3. /\ Digits[q] \in Seq(Nat) /\ Len(Digits[q]) = 2
          /\ Digits[q][1] = b /\ Digits[q][2] = c
      BY <1>4, <3>1, <3>2, OneBefore
    <3>4. d = <<a>> \o Digits[q]
      BY <1>6, <1>11
    <3>5. /\ d \in Seq(Nat) /\ Len(d) = Len(Digits[q]) + 1 /\ d[1] = a
          /\ Len(Digits[q]) >= 1 => d[2] = Digits[q][1]
          /\ Len(Digits[q]) >= 2 => d[3] = Digits[q][2]
      BY <1>3, <3>3, <3>4, OneBefore
    <3> QED BY <3>3, <3>5
  <2>3. size = a + 10 * b + 100 * c
    BY <2>2, <1>3, <1>4, <1>5 DEF DigitAt
  <2>4. /\ c # 0
        /\ v = IF v < 0 THEN -(a + 10 * b + 100 * c) ELSE a + 10 * b + 100 * c
    BY <1>1, <1>3, <1>4, <1>5, <1>11
  <2> QED BY <2>2, <2>3, <2>4 DEF d, DigitAt
<1> QED BY <1>9, <1>10, <1>11 DEF d

\* convert()'s text reads as its number, the least one included.
LEMMA ConvertReads ==
  ASSUME NEW v \in Int, -128 <= v, v <= 127
  PROVE  LET text == Convert(v)
         IN /\ text \in Seq(Int) /\ Len(text) \in Nat /\ Len(text) <= 4
            /\ ReadsAsGiven([what |-> "number", size |-> Len(text),
                             text |-> text, value |-> v])
<1> DEFINE d == Digits[v]
           text == Convert(v)
           N == [what |-> "number", size |-> Len(text), text |-> text, value |-> v]
           back == d \o (IF v < 0 THEN <<Minus>> ELSE <<>>)
           size == DigitAt(d, 0) + 10 * DigitAt(d, 1) + 100 * DigitAt(d, 2)
<1>1. /\ d \in Seq(Nat) /\ 1 <= Len(d) /\ Len(d) <= 3
      /\ v = IF v < 0 THEN -size ELSE size
      /\ Len(d) > 1 => d[Len(d)] # 0
  BY DigitsRead
<1> HIDE DEF d, size
<1>2. /\ back \in Seq(Int) /\ Len(back) = Len(d) + (IF v < 0 THEN 1 ELSE 0)
      /\ \A k \in 1..Len(d) : back[k] = d[k] /\ d[k] \in Nat
      /\ v < 0 => back[Len(back)] = Minus
      /\ Len(d) \in Nat
  <2>1. CASE v < 0
    BY <1>1, <2>1 DEF Minus
  <2>2. CASE v >= 0
    BY <1>1, <2>2
  <2> QED BY <2>1, <2>2
<1>3. text = Reverse(back)
  BY DEF Convert, d
<1>13. text \in Seq(Int)
  <2>1. Len(back) \in Nat /\ \A k \in 1..Len(back) : back[k] \in Int
    BY <1>2
  <2>2. text = [k \in 1..Len(back) |-> back[(Len(back) - k) + 1]]
    BY <1>3 DEF Reverse
  <2>3. \A k \in 1..Len(back) : (Len(back) - k) + 1 \in 1..Len(back)
    BY <2>1
  <2> HIDE DEF back
  <2>4. text \in [1..Len(back) -> Int]
    BY <2>1, <2>2, <2>3
  <2> QED BY <2>1, <2>4
<1> HIDE DEF back
<1>4. /\ Len(text) = Len(back) /\ \A k \in 1..Len(back) : text[k] = back[(Len(back) - k) + 1]
  BY <1>2, <1>3 DEF Reverse
<1> HIDE DEF text
<1>5. \A k \in 0..2 : DigitAt(d, k) =
        IF k < Len(text) /\ text[Len(text) - k] # Minus
          THEN text[Len(text) - k] ELSE 0
  <2> TAKE k \in 0..2
  <2>1. CASE k < Len(d)
    <3>1. text[Len(text) - k] = back[k + 1]
      <4> DEFINE j == Len(text) - k
      <4>1. /\ j \in 1..Len(back) /\ (Len(back) - j) + 1 = k + 1
        <5>1. /\ Len(back) \in Int /\ Len(d) \in Int /\ Len(d) <= Len(back)
              /\ k \in Int /\ 0 <= k /\ Len(text) = Len(back)
          BY <1>1, <1>2, <1>4
        <5> QED BY <5>1, <2>1
      <4> HIDE DEF j
      <4>2. text[j] = back[(Len(back) - j) + 1]
        BY <1>4, <4>1
      <4> QED BY <4>1, <4>2 DEF j
    <3>2. back[k + 1] = d[k + 1] /\ d[k + 1] \in Nat
      BY <1>2, <2>1
    <3> QED BY <1>1, <1>2, <1>4, <2>1, <3>1, <3>2 DEF DigitAt, Minus
  <2>2. CASE k >= Len(d) /\ k < Len(text)
    <3>1. v < 0 /\ k = Len(d) /\ Len(back) = k + 1
      BY <1>1, <1>2, <1>4, <2>2
    <3>2. text[Len(text) - k] = back[Len(back)]
      <4>1. /\ Len(text) = Len(back) /\ Len(back) \in Nat /\ k \in Nat
            /\ Len(text) - k = 1 /\ 1 \in 1..Len(back)
            /\ (Len(back) - 1) + 1 = Len(back)
        BY <1>1, <1>2, <1>4, <3>1
      <4>2. text[1] = back[(Len(back) - 1) + 1]
        BY <1>4, <4>1
      <4> QED BY <4>1, <4>2
    <3> QED BY <1>2, <3>1, <3>2 DEF DigitAt
  <2>3. CASE k >= Len(d) /\ k >= Len(text)
    BY <1>1, <1>2, <1>4, <2>3 DEF DigitAt
  <2> QED BY <1>1, <1>2, <1>4, <2>1, <2>2, <2>3
<1>6. text[1] = back[Len(back)]
  BY <1>1, <1>2, <1>4
<1>7. (text[1] = Minus) <=> v < 0
  BY <1>1, <1>2, <1>6 DEF Minus
<1>8. ValueOf(text) = v
  <2>1. size \in Int
    <3>1. \A k \in 0..2 : DigitAt(d, k) \in Nat
      <4> TAKE k \in 0..2
      <4>1. CASE k < Len(d)
        <5>1. k + 1 \in 1..Len(d)
          BY <1>2, <4>1
        <5>2. d[k + 1] \in Nat
          BY <1>2, <5>1
        <5> QED BY <4>1, <5>2 DEF DigitAt
      <4>2. CASE ~ (k < Len(d))
        BY <4>2 DEF DigitAt
      <4> QED BY <4>1, <4>2
    <3>2. DigitAt(d, 0) \in Nat /\ DigitAt(d, 1) \in Nat /\ DigitAt(d, 2) \in Nat
      BY <3>1
    <3> QED BY <3>2 DEF size
  <2>2. ValueOf(text) = IF text[1] = Minus THEN -size ELSE size
    BY <1>5 DEF ValueOf, size
  <2> QED BY <1>1, <1>7, <2>1, <2>2
<1>9. text[1] = 0 => Len(text) = 1
  <2>1. ASSUME text[1] = 0 PROVE v >= 0 /\ Len(back) = Len(d)
    BY <1>2, <1>7, <2>1 DEF Minus
  <2>2. ASSUME text[1] = 0 PROVE d[Len(d)] = 0
    <3>1. Len(d) \in 1..Len(d)
      BY <1>1, <1>2
    <3> QED BY <1>2, <1>6, <2>1, <2>2, <3>1
  <2>3. Len(d) \in Nat /\ 1 <= Len(d) /\ Len(text) = Len(back)
    BY <1>1, <1>2, <1>4
  <2>4. ASSUME text[1] = 0 PROVE ~ (Len(d) > 1)
    BY <1>1, <2>2, <2>4
  <2> QED BY <2>1, <2>3, <2>4
<1>10. /\ Len(text) \in Nat /\ Len(text) <= (IF text[1] = Minus THEN 4 ELSE 3)
  BY <1>1, <1>2, <1>4, <1>7
<1>11. N.text = text /\ N.value = v /\ N.size = Len(text)
  OBVIOUS
<1> HIDE DEF N
<1>12. ReadsAsGiven(N)
  BY <1>8, <1>9, <1>10, <1>11, BufferFits DEF ReadsAsGiven
<1> QED BY <1>10, <1>12, <1>13 DEF N, text

Kinds == {"time", "us", "tid", "level", "text", "number", "dash", "basename",
          "colon", "newline"}
Pieces == [what : Kinds, size : Nat, text : Seq(Int), value : Int]
Streams == [pieces : Seq(Pieces), length : Nat]

\* What append() and formatInteger() keep.
StreamSound(s) ==
  /\ s \in Streams
  /\ s.length < BufferSize
  /\ \A k \in 1..Len(s.pieces) :
       s.pieces[k].what = "number" => ReadsAsGiven(s.pieces[k])

HasHeader(s) ==
  /\ Len(s.pieces) >= 4
  /\ s.pieces[1].what = "time" /\ s.pieces[2].what = "us"
  /\ s.pieces[3].what = "tid" /\ s.pieces[4].what = "level"

LEMMA PutSound ==
  ASSUME NEW s, StreamSound(s), NEW p \in Pieces,
         s.length + p.size < BufferSize,
         p.what = "number" => ReadsAsGiven(p)
  PROVE  /\ StreamSound(AddPiece(s, p))
         /\ HasHeader(s) => HasHeader(AddPiece(s, p))
         /\ AddPiece(s, p).length = s.length + p.size
         /\ AddPiece(s, p).pieces = Append(s.pieces, p)
         /\ Last(AddPiece(s, p).pieces) = p
<1> DEFINE o == AddPiece(s, p)
           b == s.pieces
           a == Append(b, p)
<1>1. /\ b \in Seq(Pieces) /\ s.length \in Nat /\ p.size \in Nat
  BY DEF StreamSound, Streams, Pieces
<1>2. o.pieces = a /\ o.length = s.length + p.size
  BY DEF AddPiece
<1>3. /\ a \in Seq(Pieces) /\ Len(a) = Len(b) + 1 /\ Len(b) \in Nat
      /\ \A k \in 1..Len(b) : a[k] = b[k]
      /\ a[Len(b) + 1] = p
  BY <1>1
<1>4. o \in Streams
  BY <1>1, <1>3 DEF AddPiece, Streams
<1>5. \A k \in 1..Len(b) : b[k].what = "number" => ReadsAsGiven(b[k])
  BY DEF StreamSound
<1>6. HasHeader(s) <=> /\ Len(b) >= 4
                       /\ b[1].what = "time" /\ b[2].what = "us"
                       /\ b[3].what = "tid" /\ b[4].what = "level"
  BY DEF HasHeader
<1> HIDE DEF o, a, b
<1>7. ASSUME NEW k \in 1..Len(a), a[k].what = "number" PROVE ReadsAsGiven(a[k])
  <2>1. CASE k = Len(b) + 1
    BY <1>3, <1>7, <2>1
  <2>2. CASE k # Len(b) + 1
    <3>1. k \in 1..Len(b)
      BY <1>3, <2>2
    <3> QED BY <1>3, <1>5, <1>7, <3>1
  <2> QED BY <2>1, <2>2
<1>8. StreamSound(o)
  BY <1>2, <1>4, <1>7 DEF StreamSound
<1>9. HasHeader(s) => HasHeader(o)
  BY <1>2, <1>3, <1>6 DEF HasHeader
<1>10. Last(a) = p
  BY <1>3 DEF Last
<1> QED BY <1>2, <1>8, <1>9, <1>10 DEF o, a, b

LEMMA PutTextSound ==
  ASSUME NEW s, StreamSound(s), NEW what \in Kinds \ {"number"}, NEW size \in Nat
  PROVE  LET o == PutText(s, Text(what, size))
         IN /\ StreamSound(o)
            /\ HasHeader(s) => HasHeader(o)
<1> DEFINE p == Text(what, size)
<1>1. p \in Pieces /\ p.size = size /\ p.what = what
  BY DEF Text, Pieces
<1> HIDE DEF p
<1>2. CASE Avail(s) > p.size
  <2>1. s.length + p.size < BufferSize
    BY <1>1, <1>2, BufferFits DEF Avail, StreamSound, Streams
  <2>2. PutText(s, p) = AddPiece(s, p)
    BY <1>2 DEF PutText
  <2>3. /\ StreamSound(AddPiece(s, p))
        /\ HasHeader(s) => HasHeader(AddPiece(s, p))
    BY <1>1, <2>1, PutSound
  <2> QED BY <2>2, <2>3 DEF p
<1>3. CASE ~ (Avail(s) > p.size)
  BY <1>3 DEF PutText, p
<1> QED BY <1>2, <1>3

LEMMA PutNumberSound ==
  ASSUME NEW s, StreamSound(s), NEW v \in Int, -128 <= v, v <= 127
  PROVE  /\ StreamSound(PutNumber(s, v))
         /\ HasHeader(s) => HasHeader(PutNumber(s, v))
<1> DEFINE c == Convert(v)
           p == [what |-> "number", size |-> Len(c), text |-> c, value |-> v]
<1>1. c \in Seq(Int) /\ Len(c) \in Nat /\ Len(c) <= 4 /\ ReadsAsGiven(p)
  BY ConvertReads
<1> HIDE DEF c
<1>2. p \in Pieces /\ p.size = Len(c)
  BY <1>1 DEF Pieces, Kinds
<1>3. PutNumber(s, v) = IF Avail(s) < MaxNumericSize THEN s ELSE AddPiece(s, p)
  BY DEF PutNumber, c
<1> HIDE DEF p
<1>4. CASE Avail(s) < MaxNumericSize
  BY <1>3, <1>4
<1>5. CASE ~ (Avail(s) < MaxNumericSize)
  <2>1. s.length + p.size < BufferSize
    BY <1>1, <1>2, <1>5, BufferFits DEF Avail, StreamSound, Streams
  <2>2. /\ StreamSound(AddPiece(s, p))
        /\ HasHeader(s) => HasHeader(AddPiece(s, p))
    BY <1>1, <1>2, <2>1, PutSound
  <2> QED BY <1>3, <1>5, <2>2
<1> QED BY <1>4, <1>5

\* The header has room for all that it is made of.
LEMMA HeaderSound == StreamSound(Header) /\ HasHeader(Header)
<1> DEFINE n == IF logZone = NoZone THEN 2 ELSE 1
           p1 == Text("time", 2)
           p2 == Text("us", n)
           p3 == Text("tid", 1)
           p4 == Text("level", 1)
           s1 == AddPiece(Empty, p1)
           s2 == AddPiece(s1, p2)
           s3 == AddPiece(s2, p3)
           s4 == AddPiece(s3, p4)
<1>1. /\ p1 \in Pieces /\ p1.size = 2 /\ p1.what = "time"
      /\ p2 \in Pieces /\ p2.size = n /\ p2.what = "us"
      /\ p3 \in Pieces /\ p3.size = 1 /\ p3.what = "tid"
      /\ p4 \in Pieces /\ p4.size = 1 /\ p4.what = "level"
      /\ n \in Nat /\ n <= 2
  BY DEF Text, Pieces, Kinds
<1>2. StreamSound(Empty) /\ Empty.length = 0 /\ Empty.pieces = <<>>
  BY BufferFits DEF StreamSound, Streams, Empty
<1>3. Header = PutText(PutText(PutText(PutText(Empty, p1), p2), p3), p4)
  BY DEF Header
<1> HIDE DEF p1, p2, p3, p4, n
<1>4. /\ PutText(Empty, p1) = s1 /\ StreamSound(s1)
      /\ s1.length = 2 /\ s1.pieces = Append(<<>>, p1)
  <2>1. StreamSound(s1) /\ s1.length = 0 + 2 /\ s1.pieces = Append(<<>>, p1)
    BY <1>1, <1>2, BufferFits, PutSound
  <2>2. PutText(Empty, p1) = s1
    BY <1>1, <1>2, BufferFits DEF PutText, Avail
  <2> QED BY <2>1, <2>2
<1> HIDE DEF s1
<1>5. /\ PutText(s1, p2) = s2 /\ StreamSound(s2)
      /\ s2.length = 2 + n /\ s2.pieces = Append(s1.pieces, p2)
  <2>1. StreamSound(s2) /\ s2.length = 2 + n /\ s2.pieces = Append(s1.pieces, p2)
    <3>1. s1.length + p2.size = 2 + n /\ 2 + n < BufferSize
      BY <1>1, <1>4, BufferFits
    <3>2. /\ StreamSound(s2) /\ s2.length = s1.length + p2.size
          /\ s2.pieces = Append(s1.pieces, p2)
      BY <1>1, <1>4, <3>1, PutSound
    <3> QED BY <3>1, <3>2
  <2>2. PutText(s1, p2) = s2
    BY <1>1, <1>4, BufferFits DEF PutText, Avail
  <2> QED BY <2>1, <2>2
<1> HIDE DEF s2
<1>6. /\ PutText(s2, p3) = s3 /\ StreamSound(s3)
      /\ s3.length = 3 + n /\ s3.pieces = Append(s2.pieces, p3)
  <2>1. StreamSound(s3) /\ s3.length = (2 + n) + 1 /\ s3.pieces = Append(s2.pieces, p3)
    <3>1. s2.length + p3.size = (2 + n) + 1 /\ (2 + n) + 1 < BufferSize
      BY <1>1, <1>5, BufferFits
    <3>2. /\ StreamSound(s3) /\ s3.length = s2.length + p3.size
          /\ s3.pieces = Append(s2.pieces, p3)
      BY <1>1, <1>5, <3>1, PutSound DEF s3
    <3> QED BY <3>1, <3>2
  <2>2. PutText(s2, p3) = s3
    BY <1>1, <1>5, BufferFits DEF PutText, Avail
  <2> QED BY <1>1, <2>1, <2>2
<1> HIDE DEF s3
<1>7. /\ PutText(s3, p4) = s4 /\ StreamSound(s4)
      /\ s4.pieces = Append(s3.pieces, p4)
  <2>1. StreamSound(s4) /\ s4.pieces = Append(s3.pieces, p4)
    <3>1. s3.length + p4.size < BufferSize
      BY <1>1, <1>6, BufferFits
    <3> QED BY <1>1, <1>6, <3>1, PutSound DEF s4
  <2>2. PutText(s3, p4) = s4
    BY <1>1, <1>6, BufferFits DEF PutText, Avail
  <2> QED BY <2>1, <2>2
<1> HIDE DEF s4
<1>8. Header = s4
  BY <1>3, <1>4, <1>5, <1>6, <1>7
<1>9. s4.pieces = Append(Append(Append(Append(<<>>, p1), p2), p3), p4)
  BY <1>4, <1>5, <1>6, <1>7
<1>10. /\ Len(s4.pieces) = 4 /\ s4.pieces[1] = p1 /\ s4.pieces[2] = p2
       /\ s4.pieces[3] = p3 /\ s4.pieces[4] = p4
  BY <1>1, <1>9
<1>11. HasHeader(s4)
  BY <1>1, <1>10 DEF HasHeader
<1> QED BY <1>7, <1>8, <1>11

\* The line that g_output gets.
LEMMA FinishSound ==
  ASSUME NEW s, StreamSound(s), HasHeader(s)
  PROVE  /\ StreamSound(Finish(s)) /\ HasHeader(Finish(s))
         /\ \/ Last(Finish(s).pieces).what = "newline"
            \/ Finish(s).length = BufferSize - 1
<1> DEFINE o1 == PutText(s, Text("dash", 1))
           o2 == PutText(o1, Text("basename", 2))
           o3 == PutText(o2, Text("colon", 1))
           o4 == PutNumber(o3, 7)
           end == Text("newline", 1)
<1>1. StreamSound(o1) /\ HasHeader(o1)
  BY PutTextSound DEF Kinds
<1> HIDE DEF o1
<1>2. StreamSound(o2) /\ HasHeader(o2)
  BY <1>1, PutTextSound DEF Kinds
<1> HIDE DEF o2
<1>3. StreamSound(o3) /\ HasHeader(o3)
  BY <1>2, PutTextSound DEF Kinds
<1> HIDE DEF o3
<1>4. StreamSound(o4) /\ HasHeader(o4)
  BY <1>3, PutNumberSound
<1> HIDE DEF o4
<1>5. Finish(s) = PutText(o4, end)
  BY DEF Finish, o1, o2, o3, o4
<1>6. StreamSound(PutText(o4, end)) /\ HasHeader(PutText(o4, end))
  BY <1>4, PutTextSound DEF Kinds
<1>7. end \in Pieces /\ end.size = 1 /\ end.what = "newline"
  BY DEF Text, Pieces, Kinds
<1> HIDE DEF end
<1>8. o4.length \in Nat /\ o4.length < BufferSize
  BY <1>4 DEF StreamSound, Streams
<1>9. CASE Avail(o4) > 1
  <2>1. PutText(o4, end) = AddPiece(o4, end)
    BY <1>7, <1>9 DEF PutText
  <2>2. Last(AddPiece(o4, end).pieces) = end
    BY <1>4, <1>7, <1>8, <1>9, BufferFits, PutSound DEF Avail
  <2> QED BY <1>5, <1>6, <1>7, <2>1, <2>2
<1>10. CASE ~ (Avail(o4) > 1)
  <2>1. PutText(o4, end) = o4
    BY <1>7, <1>10 DEF PutText
  <2>2. o4.length = BufferSize - 1
    BY <1>8, <1>10, BufferFits DEF Avail
  <2> QED BY <1>5, <1>6, <2>1, <2>2
<1> QED BY <1>9, <1>10

LogLines == [level : Levels \cup {0}, second : 0..MaxLogSeconds,
             time : [second : 0..MaxLogSeconds, zone : LogZones],
             zone : LogZones, stale : BOOLEAN, stream : Streams]

\* The line of an open statement.
LineSound(line) ==
  /\ line.time.second = line.second
  /\ line.time.zone = line.zone \/ line.stale
  /\ StreamSound(line.stream) /\ HasHeader(line.stream)

LogTyped ==
  /\ LogTypeOK
  /\ timeText \in [LogThreads -> [second : 0..MaxLogSeconds, zone : LogZones]]
  /\ logLine \in [LogThreads -> LogLines]

\* A thread's t_time is in the zone that is set, unless that was set since.
LogInv ==
  /\ LogTyped
  /\ \A t \in LogThreads \ rezoned : lastSecond[t] = 0 \/ timeText[t].zone = logZone
  /\ \A t \in LogThreads : logger[t] = "open" => LineSound(logLine[t])

LEMMA EmptyStream == Empty \in Streams
<1>1. <<>> \in Seq(Pieces)
  OBVIOUS
<1> QED BY <1>1 DEF Empty, Streams

LEMMA LogStarts == LogInit => LogInv
<1> SUFFICES ASSUME LogInit PROVE LogInv
  OBVIOUS
<1>1. NoLine \in LogLines
  <2>1. /\ 0 \in 0..MaxLogSeconds /\ NoZone \in LogZones
    BY StatementAssumption
  <2>2. [second |-> 0, zone |-> NoZone] \in [second : 0..MaxLogSeconds, zone : LogZones]
    BY <2>1
  <2> QED BY <2>1, <2>2, EmptyStream DEF NoLine, LogLines
<1>2. LogTyped
  <2>1. 0 \in 0..MaxLogSeconds /\ 1 \in 1..MaxLogSeconds /\ NoZone \in LogZones
        /\ 0 \in 0..MaxOperands /\ logLevel \in Levels
    BY StatementAssumption DEF LogInit, INFO, Levels
  <2>2. timeText \in [LogThreads -> [second : 0..MaxLogSeconds, zone : LogZones]]
    BY <2>1 DEF LogInit
  <2>3. logLine \in [LogThreads -> LogLines]
    BY <1>1 DEF LogInit
  <2>4. LogTypeOK
    BY <2>1 DEF LogInit, LogTypeOK
  <2> QED BY <2>2, <2>3, <2>4 DEF LogTyped
<1>3. \A t \in LogThreads : lastSecond[t] = 0 /\ logger[t] = "none"
  BY DEF LogInit
<1> QED BY <1>2, <1>3 DEF LogInv

LEMMA OpenSound ==
  ASSUME LogInv, NEW t \in LogThreads, NEW level \in Levels, Open(t, level)
  PROVE  LogInv'
<1> DEFINE z == 0..MaxLogSeconds
           T == [second : z, zone : LogZones]
           text == TimeText(t)
           line == [level |-> level, second |-> logSecond, time |-> text,
                    zone |-> logZone, stale |-> t \in rezoned', stream |-> Header]
<1>1. /\ logSecond \in z /\ logSecond \in 1..MaxLogSeconds /\ logSecond # 0
      /\ logZone \in LogZones /\ lastSecond \in [LogThreads -> z]
      /\ \A u \in LogThreads : timeText[u].second = lastSecond[u] /\ timeText[u].zone \in LogZones
      /\ timeText \in [LogThreads -> T] /\ logLine \in [LogThreads -> LogLines]
      /\ logger \in [LogThreads -> {"none", "open", "abort"}]
      /\ operands \in [LogThreads -> 0..MaxOperands]
  BY StatementAssumption DEF LogInv, LogTyped, LogTypeOK
<1>2. /\ lastSecond' = [lastSecond EXCEPT ![t] = logSecond]
      /\ timeText' = [timeText EXCEPT ![t] = text]
      /\ logger' = [logger EXCEPT ![t] = "open"]
      /\ operands' = [operands EXCEPT ![t] = 0]
      /\ logLine' = [logLine EXCEPT ![t] = line]
      /\ rezoned' = IF logSecond # lastSecond[t] THEN rezoned \ {t} ELSE rezoned
      /\ UNCHANGED <<logSecond, logZone, logLevel, aborted>>
  BY DEF Open
<1>3. text \in T /\ text.second = logSecond
  BY <1>1 DEF TimeText
<1>4. text.zone = logZone \/ t \in rezoned'
  <2>1. CASE logSecond # lastSecond[t]
    BY <2>1 DEF TimeText
  <2>2. CASE logSecond = lastSecond[t]
    BY <1>1, <1>2, <2>2 DEF TimeText, LogInv
  <2> QED BY <2>1, <2>2
<1>5. StreamSound(Header) /\ HasHeader(Header) /\ Header \in Streams
  BY HeaderSound DEF StreamSound
<1> HIDE DEF text
<1>6. /\ line.time.second = line.second /\ line.stream = Header
      /\ line.time.zone = line.zone \/ line.stale
  BY <1>3, <1>4
<1>7. line \in LogLines
  <2>1. (t \in rezoned') \in BOOLEAN
    OBVIOUS
  <2> QED BY <1>1, <1>3, <1>5, <2>1 DEF LogLines
<1> HIDE DEF line
<1>8. LineSound(line)
  BY <1>5, <1>6 DEF LineSound
<1>9. LogTypeOK'
  <2>1. \A u \in LogThreads : timeText'[u].second = lastSecond'[u] /\ timeText'[u].zone \in LogZones
    BY <1>1, <1>2, <1>3
  <2>2. lastSecond' \in [LogThreads -> z] /\ operands' \in [LogThreads -> 0..MaxOperands]
    BY <1>1, <1>2, StatementAssumption
  <2>3. logger' \in [LogThreads -> {"none", "open", "abort"}]
    BY <1>1, <1>2
  <2>4. rezoned' \subseteq LogThreads
    BY <1>2 DEF LogInv, LogTyped, LogTypeOK
  <2>5. logSecond' \in 1..MaxLogSeconds /\ logZone' \in LogZones /\ logLevel' \in Levels /\ aborted' \in BOOLEAN
    BY <1>2 DEF LogInv, LogTyped, LogTypeOK
  <2> QED BY <2>1, <2>2, <2>3, <2>4, <2>5 DEF LogTypeOK
<1>10. LogTyped'
  <2>1. timeText' \in [LogThreads -> T] /\ logLine' \in [LogThreads -> LogLines]
    BY <1>1, <1>2, <1>3, <1>7
  <2> QED BY <1>9, <2>1 DEF LogTyped
<1>11. \A u \in LogThreads \ rezoned' : lastSecond'[u] = 0 \/ timeText'[u].zone = logZone'
  <2> TAKE u \in LogThreads \ rezoned'
  <2>1. CASE u = t
    BY <1>1, <1>2, <1>4, <2>1
  <2>2. CASE u # t
    <3>1. u \in LogThreads \ rezoned
      BY <1>2, <2>2
    <3> QED BY <1>1, <1>2, <2>2, <3>1 DEF LogInv
  <2> QED BY <2>1, <2>2
<1>12. \A u \in LogThreads : logger'[u] = "open" => LineSound(logLine'[u])
  <2> TAKE u \in LogThreads
  <2>1. CASE u = t
    BY <1>1, <1>2, <1>8, <2>1
  <2>2. CASE u # t
    BY <1>1, <1>2, <2>2 DEF LogInv
  <2> QED BY <2>1, <2>2
<1> QED BY <1>10, <1>11, <1>12 DEF LogInv

LEMMA GiveSound ==
  ASSUME LogInv, NEW t \in LogThreads, Give(t)
  PROVE  LogInv'
<1> DEFINE s == logLine[t].stream
<1>1. /\ logLine[t] \in LogLines /\ LineSound(logLine[t])
      /\ operands[t] \in 0..MaxOperands /\ operands[t] < MaxOperands
  BY DEF LogInv, LogTyped, LogTypeOK, Give
<1>2. /\ operands' = [operands EXCEPT ![t] = operands[t] + 1]
      /\ UNCHANGED <<logSecond, logZone, logLevel, lastSecond, timeText, logger,
                     aborted, rezoned>>
  BY DEF Give
<1>3. StreamSound(s) /\ HasHeader(s)
  BY <1>1 DEF LineSound
<1>4. \E o : /\ StreamSound(o) /\ HasHeader(o)
             /\ logLine' = [logLine EXCEPT ![t].stream = o]
  <2>1. CASE \E size \in TextSizes :
          logLine' = [logLine EXCEPT ![t].stream = PutText(s, Text("text", size))]
    <3>1. PICK size \in TextSizes :
          logLine' = [logLine EXCEPT ![t].stream = PutText(s, Text("text", size))]
      BY <2>1
    <3>2. "text" \in Kinds \ {"number"} /\ size \in Nat
      BY BufferFits DEF Kinds
    <3> HIDE DEF s
    <3>3. StreamSound(PutText(s, Text("text", size))) /\ HasHeader(PutText(s, Text("text", size)))
      BY <1>3, <3>2, PutTextSound
    <3> QED BY <3>1, <3>3
  <2>2. CASE \E value \in Numbers :
          logLine' = [logLine EXCEPT ![t].stream = PutNumber(s, value)]
    <3>1. PICK value \in Numbers :
          logLine' = [logLine EXCEPT ![t].stream = PutNumber(s, value)]
      BY <2>2
    <3>2. value \in Int /\ -128 <= value /\ value <= 127
      BY NumbersFit
    <3> HIDE DEF s
    <3>3. StreamSound(PutNumber(s, value)) /\ HasHeader(PutNumber(s, value))
      BY <1>3, <3>2, PutNumberSound
    <3> QED BY <3>1, <3>3
  <2> QED BY <2>1, <2>2 DEF Give
<1>5. PICK o : /\ StreamSound(o) /\ HasHeader(o)
               /\ logLine' = [logLine EXCEPT ![t].stream = o]
  BY <1>4
<1> DEFINE line == [logLine[t] EXCEPT !.stream = o]
<1>6. logLine' = [logLine EXCEPT ![t] = line]
  BY <1>5
<1>7. o \in Streams
  BY <1>5 DEF StreamSound
<1>8. /\ line \in LogLines /\ line.stream = o /\ line.time = logLine[t].time
      /\ line.second = logLine[t].second /\ line.zone = logLine[t].zone
      /\ line.stale = logLine[t].stale
  BY <1>1, <1>7 DEF LogLines
<1> HIDE DEF line
<1>9. LineSound(line)
  BY <1>1, <1>5, <1>8 DEF LineSound
<1>10. LogTypeOK'
  <2>1. operands' \in [LogThreads -> 0..MaxOperands]
    BY <1>1, <1>2, StatementAssumption DEF LogInv, LogTyped, LogTypeOK
  <2> QED BY <1>2, <2>1 DEF LogInv, LogTyped, LogTypeOK
<1>11. logLine' \in [LogThreads -> LogLines]
  BY <1>6, <1>8 DEF LogInv, LogTyped
<1>12. \A u \in LogThreads : logger'[u] = "open" => LineSound(logLine'[u])
  <2> TAKE u \in LogThreads
  <2>1. CASE u = t
    BY <1>6, <1>9, <2>1 DEF LogInv, LogTyped
  <2>2. CASE u # t
    BY <1>2, <1>6, <2>2 DEF LogInv, LogTyped
  <2> QED BY <2>1, <2>2
<1> QED BY <1>2, <1>10, <1>11, <1>12 DEF LogInv, LogTyped

LEMMA CloseSound ==
  ASSUME LogInv, NEW t \in LogThreads, CloseLine(t)
  PROVE  LogInv'
<1>1. /\ logger' = [logger EXCEPT ![t] = IF logLine[t].level = FATAL THEN "abort" ELSE "none"]
      /\ logLine' = [logLine EXCEPT ![t] = NoLine]
      /\ operands' = [operands EXCEPT ![t] = 0]
      /\ UNCHANGED <<logSecond, logZone, logLevel, lastSecond, timeText, aborted, rezoned>>
  BY DEF CloseLine
<1>2. NoLine \in LogLines
  <2>1. /\ 0 \in 0..MaxLogSeconds /\ NoZone \in LogZones
    BY StatementAssumption
  <2>2. [second |-> 0, zone |-> NoZone] \in [second : 0..MaxLogSeconds, zone : LogZones]
    BY <2>1
  <2> QED BY <2>1, <2>2, EmptyStream DEF NoLine, LogLines
<1>3. LogTypeOK'
  <2>1. /\ operands' \in [LogThreads -> 0..MaxOperands]
        /\ logger' \in [LogThreads -> {"none", "open", "abort"}]
    BY <1>1, StatementAssumption DEF LogInv, LogTyped, LogTypeOK
  <2> QED BY <1>1, <2>1 DEF LogInv, LogTyped, LogTypeOK
<1>4. logLine' \in [LogThreads -> LogLines]
  BY <1>1, <1>2 DEF LogInv, LogTyped
<1>5. \A u \in LogThreads : logger'[u] = "open" => u # t /\ logger[u] = "open"
  BY <1>1 DEF LogInv, LogTyped, LogTypeOK
<1>6. \A u \in LogThreads : logger'[u] = "open" => LineSound(logLine'[u])
  BY <1>1, <1>5 DEF LogInv, LogTyped
<1> QED BY <1>1, <1>3, <1>4, <1>6 DEF LogInv, LogTyped

LEMMA LogSteps == LogInv /\ [LogNext]_logVars => LogInv'
<1> SUFFICES ASSUME LogInv, [LogNext]_logVars PROVE LogInv'
  OBVIOUS
<1>1. CASE \E t \in LogThreads : Abort(t)
  BY <1>1 DEF Abort, LogInv, LogTyped, LogTypeOK
<1>2. CASE SetLogLevel
  BY <1>2 DEF SetLogLevel, LogInv, LogTyped, LogTypeOK
<1>3. CASE SetTimeZone
  <2>1. \A t \in LogThreads \ rezoned' : lastSecond[t] = 0
    BY <1>3 DEF SetTimeZone
  <2> QED BY <1>3, <2>1 DEF SetTimeZone, LogInv, LogTyped, LogTypeOK
<1>4. CASE NextSecond
  <2>1. logSecond' \in 1..MaxLogSeconds
    BY <1>4, StatementAssumption DEF NextSecond, LogInv, LogTyped, LogTypeOK
  <2> QED BY <1>4, <2>1 DEF NextSecond, LogInv, LogTyped, LogTypeOK
<1>5. CASE UNCHANGED logVars
  BY <1>5 DEF logVars, LogInv, LogTyped, LogTypeOK
<1> QED BY <1>1, <1>2, <1>3, <1>4, <1>5, OpenSound, GiveSound, CloseSound DEF LogNext

LEMMA LogInvRight == LogInv => LogRight
<1> SUFFICES ASSUME LogInv, NEW t \in LogThreads, logger[t] = "open"
             PROVE  LET line == logLine[t]
                        output == Finish(line.stream)
                    IN /\ output.length < BufferSize
                       /\ [k \in 1..4 |-> output.pieces[k].what]
                            = <<"time", "us", "tid", "level">>
                       /\ line.time.second = line.second
                       /\ line.time.zone = line.zone \/ line.stale
                       /\ \/ Last(output.pieces).what = "newline"
                          \/ output.length = BufferSize - 1
                       /\ \A k \in 1..Len(output.pieces) :
                            output.pieces[k].what = "number" =>
                              ReadsAsGiven(output.pieces[k])
  BY DEF LogRight
<1> DEFINE line == logLine[t]
           output == Finish(line.stream)
<1>1. LineSound(line)
  BY DEF LogInv
<1>2. StreamSound(line.stream) /\ HasHeader(line.stream)
  BY <1>1 DEF LineSound
<1> HIDE DEF line
<1>3. /\ StreamSound(output) /\ HasHeader(output)
      /\ \/ Last(output.pieces).what = "newline"
         \/ output.length = BufferSize - 1
  BY <1>2, FinishSound
<1> HIDE DEF output
<1>4. [k \in 1..4 |-> output.pieces[k].what] = <<"time", "us", "tid", "level">>
  BY <1>3 DEF HasHeader
<1>5. /\ line.time.second = line.second
      /\ line.time.zone = line.zone \/ line.stale
  BY <1>1 DEF LineSound
<1>6. /\ output.length < BufferSize
      /\ \A k \in 1..Len(output.pieces) :
           output.pieces[k].what = "number" => ReadsAsGiven(output.pieces[k])
  BY <1>3 DEF StreamSound
<1> QED BY <1>3, <1>4, <1>5, <1>6 DEF line, output

LEMMA LogInvariant == LogSpec => []LogInv
<1> QED BY LogStarts, LogSteps, PTL DEF LogSpec

LEMMA LogAlwaysTyped == LogSpec => []LogTypeOK
<1>1. LogInv => LogTypeOK
  BY DEF LogInv, LogTyped
<1> QED BY <1>1, LogInvariant, PTL

\* Theorem: however a statement goes on, its line is right if it ends here: the buffer
\* is not run over, the header whole, numbers read as they were given, and the
\* time is that of the line's second (LogStream.cc:34, Logging.cc:131).
THEOREM LogAlwaysRight == LogSpec => []LogRight
<1> QED BY LogInvariant, LogInvRight, PTL

-----------------------------------------------------------------------------
(* LogFile and AsyncLogging: what their variables hold.                    *)

\* A period begins no later than the second it is of.
LEMMA PeriodTyped == \A now \in Seconds : PeriodOf(now) \in {0} \cup Seconds
<1> TAKE now \in Seconds
<1> DEFINE q == now \div RollPeriod
<1>1. /\ RollPeriod \in Int /\ RollPeriod > 0
      /\ now \in Int /\ 1 <= now /\ now <= MaxClock /\ MaxClock \in Int
  BY LogFileAssumption, ClockAssumption DEF Seconds
<1>2. q \in Int /\ q >= 0
  BY <1>1
<1>3. q * RollPeriod <= now
  BY <1>1
<1>4. q * RollPeriod >= 0 /\ q * RollPeriod \in Int
  BY <1>1, <1>2
<1>5. PeriodOf(now) = q * RollPeriod
  BY DEF PeriodOf
<1> HIDE DEF q
<1> DEFINE n == q * RollPeriod
<1> HIDE DEF n
<1>6. n \in Int /\ 0 <= n /\ n <= now /\ PeriodOf(now) = n
  BY <1>3, <1>4, <1>5 DEF n
<1> QED BY <1>1, <1>6 DEF Seconds

\* A sequence of a set's elements is one of a larger set's.
LEMMA SeqOfMore ==
  ASSUME NEW S, NEW T, S \subseteq T
  PROVE  Seq(S) \subseteq Seq(T)
<1> SUFFICES ASSUME NEW s \in Seq(S) PROVE s \in Seq(T)
  OBVIOUS
<1>1. /\ Len(s) \in Nat /\ s = [i \in 1..Len(s) |-> s[i]]
      /\ \A i \in 1..Len(s) : s[i] \in T
  OBVIOUS
<1>2. s \in [1..Len(s) -> T]
  BY <1>1
<1> QED BY <1>1, <1>2

LEMMA LineNumbers ==
  /\ Seq(0..MaxLines) \subseteq Seq(Nat)
  /\ Seq(Seq(1..MaxLines)) \subseteq Seq(Seq(0..MaxLines))
<1>1. 1..MaxLines \subseteq 0..MaxLines /\ 0..MaxLines \subseteq Nat
  BY BuffersAssumption
<1>2. Seq(1..MaxLines) \subseteq Seq(0..MaxLines)
  BY <1>1, SeqOfMore
<1>3. Seq(0..MaxLines) \subseteq Seq(Nat)
  BY <1>1, SeqOfMore
<1> QED BY <1>2, <1>3, SeqOfMore

\* What FlushOut does to the files.
LEMMA FlushTyped ==
  ASSUME LogFileTypeOK, NEW out \in Seq(Nat), FlushOut(out)
  PROVE  onDisk' \in [Seconds -> Seq(Nat)] /\ stdio' \in Seq(Nat)
<1>1. onDisk[lastRoll] \in Seq(Nat) /\ onDisk[lastRoll] \o out \in Seq(Nat)
  BY DEF LogFileTypeOK
<1>2. onDisk' = [onDisk EXCEPT ![lastRoll] = onDisk[lastRoll] \o out] /\ stdio' = <<>>
  BY DEF FlushOut
<1> QED BY <1>1, <1>2 DEF LogFileTypeOK

LEMMA AppendTyped ==
  ASSUME LogFileTypeOK, NEW buffer \in Seq(Nat), AppendToFile(buffer), clock' = clock
  PROVE  LogFileTypeOK'
<1>1. PICK n \in 0..Len(buffer) :
        LET out == stdio \o SubSeq(buffer, 1, n)
            size == written + Len(buffer)
            failed == IF n < Len(buffer) THEN 1 ELSE 0
            checks == size <= RollSize /\ logCount + 1 >= CheckEveryN
        IN /\ faults' = faults + failed /\ faults' <= MaxFaults
           /\ lost' = lost \cup ToSet(SubSeq(buffer, n + 1, Len(buffer)))
           /\ logCount' = IF size > RollSize THEN logCount
                          ELSE IF checks THEN 0 ELSE logCount + 1
           /\ IF size > RollSize \/ (checks /\ PeriodOf(clock) # startOfPeriod)
                THEN RollFile(out, size)
                ELSE IF checks /\ clock - lastFlush > FlushInterval
                THEN /\ FlushOut(out) /\ lastFlush' = clock /\ written' = size
                     /\ UNCHANGED <<startOfPeriod, lastRoll>>
                ELSE KeepFile(out, size)
  BY DEF AppendToFile
<1> DEFINE out == stdio \o SubSeq(buffer, 1, n)
           rest == SubSeq(buffer, n + 1, Len(buffer))
           size == written + Len(buffer)
<1>2. /\ SubSeq(buffer, 1, n) \in Seq(Nat) /\ rest \in Seq(Nat)
  BY SplitAt
<1>3. out \in Seq(Nat) /\ size \in Nat
  BY <1>2 DEF LogFileTypeOK
<1>4. lost' \subseteq Nat
  <2>1. ToSet(rest) \subseteq Nat
    BY <1>2 DEF ToSet
  <2>2. lost' = lost \cup ToSet(rest)
    BY <1>1
  <2> HIDE DEF rest
  <2> QED BY <2>1, <2>2 DEF LogFileTypeOK
<1>5. logCount' \in 0..CheckEveryN-1
  <2>1. logCount' = IF size > RollSize THEN logCount
                    ELSE IF size <= RollSize /\ logCount + 1 >= CheckEveryN THEN 0 ELSE logCount + 1
    BY <1>1
  <2> HIDE DEF size
  <2> QED BY <1>3, <2>1, LogFileAssumption DEF LogFileTypeOK
<1>6. faults' \in 0..MaxFaults
  BY <1>1, LogFileAssumption DEF LogFileTypeOK
<1>7. \/ RollFile(out, size)
      \/ /\ FlushOut(out) /\ lastFlush' = clock /\ written' = size
         /\ UNCHANGED <<startOfPeriod, lastRoll>>
      \/ KeepFile(out, size)
  BY <1>1
<1> HIDE DEF out, size, rest
<1>8. CASE KeepFile(out, size)
  BY <1>3, <1>4, <1>5, <1>6, <1>8 DEF KeepFile, LogFileTypeOK
<1>9. CASE /\ FlushOut(out) /\ lastFlush' = clock /\ written' = size
           /\ UNCHANGED <<startOfPeriod, lastRoll>>
  BY <1>3, <1>4, <1>5, <1>6, <1>9, FlushTyped DEF LogFileTypeOK
<1>10. CASE /\ FlushOut(out) /\ written' = 0
            /\ lastRoll' = clock /\ lastFlush' = clock
            /\ startOfPeriod' = PeriodOf(clock)
  BY <1>3, <1>4, <1>5, <1>6, <1>10, FlushTyped, PeriodTyped DEF LogFileTypeOK
<1> QED BY <1>7, <1>8, <1>9, <1>10 DEF RollFile

LEMMA FlushKeeps ==
  ASSUME LogFileTypeOK, Flush, clock' = clock
  PROVE  LogFileTypeOK'
<1>1. onDisk' \in [Seconds -> Seq(Nat)] /\ stdio' \in Seq(Nat)
  BY FlushTyped DEF Flush, LogFileTypeOK
<1> QED BY <1>1 DEF Flush, LogFileTypeOK

\* What of the buffers is typed.
BuffersTyped ==
  /\ loggingRunning \in BOOLEAN
  /\ stopLogging \in {"no", "notify", "join", "done"}
  /\ current \in Seq(1..MaxLines) /\ Len(current) <= BufferLines
  /\ full \in Seq(Seq(1..MaxLines))
  /\ \A flag \in {nextBuffer, newBuffer1, newBuffer2} : flag \in BOOLEAN
  /\ toWrite \in Seq(Seq(0..MaxLines)) /\ wrote \in 0..Len(toWrite)
  /\ writerPc \in {"none", "loop", "lock", "waiting", "swap", "write", "ended"}
  /\ lines \in 0..MaxLines /\ dropped \subseteq 1..MaxLines

LEMMA AppendLineTyped ==
  ASSUME BuffersTyped, AppendLine
  PROVE  BuffersTyped'
<1>1. lines' \in 1..MaxLines /\ lines' \in 0..MaxLines
  BY BuffersAssumption DEF BuffersTyped, AppendLine
<1>2. current' \in Seq(1..MaxLines) /\ Len(current') <= BufferLines
  <2>1. CASE Len(current) < BufferLines
    <3>1. current' = Append(current, lines')
      BY <2>1 DEF AppendLine
    <3>2. Append(current, lines') \in Seq(1..MaxLines) /\ Len(Append(current, lines')) = Len(current) + 1
      BY <1>1 DEF BuffersTyped
    <3>3. Len(current) \in Nat
      BY DEF BuffersTyped
    <3> QED BY <2>1, <3>1, <3>2, <3>3, BuffersAssumption
  <2>2. CASE ~ (Len(current) < BufferLines)
    <3>1. current' = <<lines'>>
      BY <2>2 DEF AppendLine
    <3> QED BY <1>1, <3>1, BuffersAssumption
  <2> QED BY <2>1, <2>2
<1>3. full' \in Seq(Seq(1..MaxLines))
  <2>1. Append(full, current) \in Seq(Seq(1..MaxLines))
    BY DEF BuffersTyped
  <2> QED BY <2>1 DEF AppendLine, BuffersTyped
<1>4. writerPc' \in {"none", "loop", "lock", "waiting", "swap", "write", "ended"}
  BY DEF AppendLine, BuffersTyped, NotifyWriter
<1>5. nextBuffer' \in BOOLEAN
  BY DEF AppendLine, BuffersTyped
<1> QED BY <1>1, <1>2, <1>3, <1>4, <1>5 DEF AppendLine, BuffersTyped, writerVars

LEMMA SwapTyped ==
  ASSUME BuffersTyped, Swap
  PROVE  BuffersTyped'
<1> DEFINE all == Append(full, current)
           over == Len(all) > DropOver
<1>1. all \in Seq(Seq(1..MaxLines)) /\ Len(all) \in Nat
  BY DEF BuffersTyped
<1>2. /\ toWrite' = IF over THEN <<<<0>>>> \o SubSeq(all, 1, 2) ELSE all
      /\ dropped' = dropped \cup
           (IF over THEN UNION {ToSet(all[i]) : i \in 3..Len(all)} ELSE {})
      /\ full' = <<>> /\ current' = <<>> /\ newBuffer1' = FALSE
      /\ nextBuffer' = TRUE /\ newBuffer2' = (newBuffer2 /\ nextBuffer)
      /\ writerPc' = "write" /\ wrote' = 0
      /\ UNCHANGED <<loggingRunning, stopLogging, lines>>
  BY DEF Swap
<1> HIDE DEF all
<1>3. toWrite' \in Seq(Seq(0..MaxLines))
  <2>1. CASE over
    <3>1. <<<<0>>>> \in Seq(Seq(0..MaxLines))
      BY BuffersAssumption
    <3>2. SubSeq(all, 1, 2) \in Seq(Seq(1..MaxLines))
      <4>1. 2 \in 0..Len(all)
        BY <1>1, <2>1, LoggingAssumption
      <4> QED BY <1>1, <4>1, SplitAt
    <3>3. SubSeq(all, 1, 2) \in Seq(Seq(0..MaxLines))
      BY <3>2, LineNumbers
    <3> QED BY <1>2, <2>1, <3>1, <3>3
  <2>2. CASE ~over
    BY <1>1, <1>2, <2>2, LineNumbers
  <2> QED BY <2>1, <2>2
<1>4. dropped' \subseteq 1..MaxLines
  <2>1. \A i \in 3..Len(all) : all[i] \in Seq(1..MaxLines)
    BY <1>1
  <2>2. \A i \in 3..Len(all) : ToSet(all[i]) \subseteq 1..MaxLines
    <3> TAKE i \in 3..Len(all)
    <3> DEFINE S == 1..MaxLines
               b == all[i]
    <3>0. b \in Seq(S)
      BY <2>1
    <3> HIDE DEF S, b
    <3>1. \A j \in 1..Len(b) : b[j] \in S
      BY <3>0
    <3>2. ToSet(b) = {b[j] : j \in DOMAIN b}
      BY DEF ToSet
    <3>3. DOMAIN b = 1..Len(b)
      BY <3>0
    <3> QED BY <3>1, <3>2, <3>3 DEF S, b
  <2>3. dropped \subseteq 1..MaxLines
    BY DEF BuffersTyped
  <2> QED BY <1>2, <2>2, <2>3
<1>5. wrote' \in 0..Len(toWrite')
  BY <1>2, <1>3
<1>6. (newBuffer2 /\ nextBuffer) \in BOOLEAN
  OBVIOUS
<1>7. newBuffer1' \in BOOLEAN /\ nextBuffer' \in BOOLEAN /\ newBuffer2' \in BOOLEAN
  BY <1>2, <1>6, Zenon
<1>8. /\ current' \in Seq(1..MaxLines) /\ Len(current') <= BufferLines
      /\ full' \in Seq(Seq(1..MaxLines))
  BY <1>2, BuffersAssumption
<1> QED BY <1>2, <1>3, <1>4, <1>5, <1>7, <1>8 DEF BuffersTyped

LEMMA RefillTyped ==
  ASSUME BuffersTyped, Refill
  PROVE  BuffersTyped'
<1>1. newBuffer1' \in BOOLEAN
  BY Zenon DEF Refill
<1>2. newBuffer2' \in BOOLEAN
  BY Zenon DEF Refill
<1>3. toWrite' \in Seq(Seq(0..MaxLines)) /\ wrote' \in 0..Len(toWrite')
  BY DEF Refill
<1> QED BY <1>1, <1>2, <1>3 DEF Refill, BuffersTyped, bufferVars

LEMMA LoggingStarts == LoggingInit => LoggingTypeOK
<1> SUFFICES ASSUME LoggingInit PROVE LoggingTypeOK
  OBVIOUS
<1>1. LogFileTypeOK
  BY LogFileAssumption, PeriodTyped DEF LoggingInit, LogFileInit, LogFileTypeOK
<1>2. \A flag \in {nextBuffer, newBuffer1, newBuffer2} : flag \in BOOLEAN
  BY DEF LoggingInit
<1>3. /\ loggingRunning \in BOOLEAN
      /\ stopLogging \in {"no", "notify", "join", "done"}
      /\ writerPc \in {"none", "loop", "lock", "waiting", "swap", "write", "ended"}
      /\ dropped \subseteq 1..MaxLines
  BY DEF LoggingInit
<1>6. lines \in 0..MaxLines
  BY BuffersAssumption DEF LoggingInit
<1>4. /\ current \in Seq(1..MaxLines) /\ full \in Seq(Seq(1..MaxLines))
      /\ toWrite \in Seq(Seq(0..MaxLines))
  BY DEF LoggingInit
<1>5. Len(current) <= BufferLines /\ wrote \in 0..Len(toWrite)
  BY BuffersAssumption DEF LoggingInit
<1> QED BY <1>1, <1>2, <1>3, <1>4, <1>5, <1>6 DEF LoggingTypeOK

LEMMA LoggingSteps == LoggingTypeOK /\ [LoggingNext]_loggingVars => LoggingTypeOK'
<1> SUFFICES ASSUME LoggingTypeOK, [LoggingNext]_loggingVars
             PROVE  LogFileTypeOK' /\ BuffersTyped'
  BY DEF LoggingTypeOK, BuffersTyped
<1>1. LogFileTypeOK /\ BuffersTyped
  BY DEF LoggingTypeOK, BuffersTyped
<1>2. CASE UNCHANGED <<clock, logFileVars>>
  <2>1. LogFileTypeOK'
    BY <1>1, <1>2 DEF logFileVars, LogFileTypeOK
  <2>2. CASE StartLogging
    BY <1>1, <2>1, <2>2 DEF StartLogging, BuffersTyped, bufferVars, writerVars
  <2>3. CASE StopLogging
    BY <1>1, <2>1, <2>3 DEF StopLogging, BuffersTyped, bufferVars, writerVars, NotifyWriter
  <2>4. CASE WriterLoop
    BY <1>1, <2>1, <2>4 DEF WriterLoop, BuffersTyped, bufferVars, writerVars
  <2>5. CASE WriterWaits \/ WaitEnds
    BY <1>1, <2>1, <2>5 DEF WriterWaits, WaitEnds, BuffersTyped, bufferVars, writerVars
  <2>6. CASE UNCHANGED loggingVars
    BY <1>1, <2>1, <2>6 DEF loggingVars, BuffersTyped, bufferVars, writerVars
  <2>7. CASE AppendLine
    BY <1>1, <2>1, <2>7, AppendLineTyped
  <2>8. CASE Swap
    BY <1>1, <2>1, <2>8, SwapTyped
  <2>9. CASE Refill
    BY <1>1, <2>1, <2>9, RefillTyped
  <2>10. CASE WriteBuffer
    BY <1>1, <2>1, <2>10 DEF WriteBuffer, BuffersTyped, bufferVars
  <2>11. ASSUME NEW now \in Seconds, SetClock(now) PROVE BuffersTyped'
    BY <1>1, <2>11 DEF SetClock, BuffersTyped, bufferVars, writerVars
  <2> QED BY <2>1, <2>2, <2>3, <2>4, <2>5, <2>6, <2>7, <2>8, <2>9, <2>10, <2>11
         DEF LoggingNext, WriterStep
<1>3. CASE WriterLoop
  <2>1. BuffersTyped'
    BY <1>1, <1>3 DEF WriterLoop, BuffersTyped, bufferVars, writerVars
  <2>2. LogFileTypeOK'
    <3>1. CASE loggingRunning
      BY <1>1, <1>3, <3>1 DEF WriterLoop, logFileVars, LogFileTypeOK
    <3>2. CASE ~loggingRunning
      BY <1>1, <1>3, <3>2, FlushKeeps DEF WriterLoop
    <3> QED BY <3>1, <3>2
  <2> QED BY <2>1, <2>2
<1>4. CASE Refill
  BY <1>1, <1>4, RefillTyped, FlushKeeps DEF Refill
<1>5. CASE WriteBuffer
  <2>1. BuffersTyped'
    <3>1. wrote' \in 0..Len(toWrite')
      BY <1>1, <1>5 DEF WriteBuffer, BuffersTyped
    <3> QED BY <1>1, <1>5, <3>1 DEF WriteBuffer, BuffersTyped, bufferVars
  <2>2. toWrite[wrote + 1] \in Seq(Nat)
    <3>1. wrote + 1 \in 1..Len(toWrite) /\ toWrite \in Seq(Seq(0..MaxLines))
      BY <1>1, <1>5 DEF WriteBuffer, BuffersTyped
    <3>2. toWrite[wrote + 1] \in Seq(0..MaxLines)
      BY <3>1
    <3> QED BY <3>2, LineNumbers
  <2>3. LogFileTypeOK'
    BY <1>1, <1>5, <2>2, AppendTyped DEF WriteBuffer
  <2> QED BY <2>1, <2>3
<1>6. ASSUME NEW now \in Seconds, SetClock(now)
      PROVE  LogFileTypeOK' /\ BuffersTyped'
  <2>1. LogFileTypeOK'
    BY <1>1, <1>6 DEF SetClock, LogFileTypeOK, logFileVars
  <2>2. BuffersTyped'
    BY <1>1, <1>6 DEF SetClock, BuffersTyped, bufferVars, writerVars
  <2> QED BY <2>1, <2>2
<1>7. [LoggingNext]_loggingVars =>
        \/ UNCHANGED <<clock, logFileVars>>
        \/ WriterLoop \/ Refill \/ WriteBuffer
        \/ \E now \in Seconds : SetClock(now)
  BY DEF LoggingNext, WriterStep, loggingVars, AppendLine, StartLogging, StopLogging,
         WriterWaits, WaitEnds, Swap
<1> QED BY <1>2, <1>3, <1>4, <1>5, <1>6, <1>7

LEMMA LoggingAlwaysTyped == LoggingSpec => []LoggingTypeOK
<1> QED BY LoggingStarts, LoggingSteps, PTL DEF LoggingSpec

-----------------------------------------------------------------------------
(* The parts in one specification: each takes its own steps, or none.      *)

LEMMA PartsStart ==
  Init => /\ QueueInit /\ PoolInit /\ ThreadObjInit /\ LoggingInit
          /\ CalendarInit /\ ZoneInit /\ LogInit
BY DEF Init

LEMMA PartsStep ==
  [Next]_baseVars =>
    /\ [QueueNext]_queueVars /\ [PoolNext]_poolStateVars
    /\ [ThreadObjNext]_threadObjVars /\ [LoggingNext]_loggingVars
    /\ [CalendarNext]_calendarVars /\ [ZoneNext]_zoneVars /\ [LogNext]_logVars
<1> SUFFICES ASSUME [Next]_baseVars
             PROVE  /\ [QueueNext]_queueVars /\ [PoolNext]_poolStateVars
                    /\ [ThreadObjNext]_threadObjVars /\ [LoggingNext]_loggingVars
                    /\ [CalendarNext]_calendarVars /\ [ZoneNext]_zoneVars
                    /\ [LogNext]_logVars
  OBVIOUS
<1>1. CASE Next
  BY <1>1 DEF Next
<1>2. CASE UNCHANGED baseVars
  BY <1>2 DEF baseVars
<1> QED BY <1>1, <1>2

LEMMA SpecOfParts ==
  Spec => /\ QueueSpec /\ PoolSpec /\ ThreadObjSpec /\ LoggingSpec
          /\ CalendarSpec /\ ZoneSpec /\ LogSpec
<1>1. Spec => QueueSpec
  BY PartsStart, PartsStep, PTL DEF Spec, QueueSpec
<1>2. Spec => PoolSpec
  BY PartsStart, PartsStep, PTL DEF Spec, PoolSpec
<1>3. Spec => ThreadObjSpec
  BY PartsStart, PartsStep, PTL DEF Spec, ThreadObjSpec
<1>4. Spec => LoggingSpec
  BY PartsStart, PartsStep, PTL DEF Spec, LoggingSpec
<1>5. Spec => CalendarSpec
  BY PartsStart, PartsStep, PTL DEF Spec, CalendarSpec
<1>6. Spec => ZoneSpec
  BY PartsStart, PartsStep, PTL DEF Spec, ZoneSpec
<1>7. Spec => LogSpec
  BY PartsStart, PartsStep, PTL DEF Spec, LogSpec
<1> QED BY <1>1, <1>2, <1>3, <1>4, <1>5, <1>6, <1>7

\* Theorem: whatever the other parts do, each part's variables keep their types:
\* queues within their capacity, buffers within their size, the days and zones
\* of the calendar, t_time of the second that it says (TypeOK).
THEOREM PartsAlwaysTyped == Spec => []TypeOK
<1>1. QueueInv => QueueTypeOK
  BY DEF QueueInv
<1>2. PoolInv => PoolTypeOK
  BY DEF PoolInv
<1>3. ThreadObjInv => ThreadObjTypeOK
  BY DEF ThreadObjInv
<1>4. QueueTypeOK /\ PoolTypeOK /\ ThreadObjTypeOK /\ LoggingTypeOK
        /\ CalendarTypeOK /\ ZoneTypeOK /\ LogTypeOK => TypeOK
  BY DEF TypeOK
<1> QED BY <1>1, <1>2, <1>3, <1>4, SpecOfParts, QueueInvariant, PoolInvariant,
           ThreadObjInvariant, LoggingAlwaysTyped, CalendarAlwaysTyped,
           ZoneAlwaysTyped, LogAlwaysTyped, PTL

\* Theorem: what is computed without other threads is right in every state that
\* Spec, the specification the run checks, can reach: the lines of the log, the
\* days of the calendar and local times (TextRight).
THEOREM TextAlwaysRight == Spec => []TextRight
<1>1. LogRight /\ DateRight /\ ZoneRight => TextRight
  BY DEF TextRight
<1> QED BY <1>1, SpecOfParts, LogAlwaysRight, DateAlwaysRight, ZoneAlwaysRight, PTL
=============================================================================
