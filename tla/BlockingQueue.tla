--------------------------- MODULE BlockingQueue ---------------------------
(***************************************************************************)
(* muduo::BlockingQueue and BoundedBlockingQueue over MutexLock and        *)
(* Condition: any number of threads put and take.  Capacity 0 is the       *)
(* unbounded one.  The lock is taken in the steps of MutexLock, whose      *)
(* holder_ is stored apart from the pthread mutex; waiters may be woken    *)
(* without a notify.                                                       *)
(***************************************************************************)
EXTENDS Integers, Sequences, FiniteSets, SequencesExt

CONSTANTS
  QueueThreads,  \* threads that use the queue
  Items,         \* what is put, each once
  Capacity       \* queue_.capacity(), 0 if unbounded

VARIABLES
  owner,   \* the thread that has the pthread mutex, or Nobody
  holder,  \* holder_
  queuePc, \* where each thread is
  call,    \* the item it puts, or Take
  items,   \* queue_
  pushed,  \* history: items put, oldest first
  taken    \* history: items taken, oldest first

queueVars == <<owner, holder, queuePc, call, items, pushed, taken>>

Nobody == "nobody"
Take == "take"

\* Threads are finitely many; neither mark is a thread or an item.
ASSUME QueueAssumption ==
  /\ IsFiniteSet(QueueThreads)
  /\ Capacity \in Nat
  /\ Nobody \notin QueueThreads
  /\ Take \notin Items

QueueTypeOK ==
  /\ owner \in QueueThreads \cup {Nobody}
  /\ holder \in QueueThreads \cup {Nobody}
  /\ queuePc \in [QueueThreads -> {"idle", "lock", "assign", "body", "sleep",
                                   "wait", "waiting", "leave", "unlock"}]
  /\ call \in [QueueThreads -> Items \cup {Take}]
  /\ items \in Seq(Items)
  /\ Capacity > 0 => Len(items) <= Capacity

QueueInit ==
  /\ owner = Nobody
  /\ holder = Nobody
  /\ queuePc = [t \in QueueThreads |-> "idle"]
  /\ call = [t \in QueueThreads |-> Take]
  /\ items = <<>> /\ pushed = <<>> /\ taken = <<>>

At(t, pc) == queuePc[t] = pc
Goto(t, pc) == queuePc' = [queuePc EXCEPT ![t] = pc]

CallQueue(t, what) ==
  /\ At(t, "idle")
  /\ what = Take \/ \A u \in QueueThreads : call[u] # what
  /\ what \notin ToSet(pushed)
  /\ call' = [call EXCEPT ![t] = what]
  /\ Goto(t, "lock")
  /\ UNCHANGED <<owner, holder, items, pushed, taken>>

-----------------------------------------------------------------------------
(* MutexLock and Condition.                                                *)

\* pthread_mutex_lock(), or the end of pthread_cond_wait().
Lock(t) ==
  /\ At(t, "lock")
  /\ owner = Nobody
  /\ owner' = t
  /\ Goto(t, "assign")
  /\ UNCHANGED <<holder, call, items, pushed, taken>>

AssignHolder(t) ==
  /\ At(t, "assign")
  /\ holder' = t
  /\ Goto(t, "body")
  /\ UNCHANGED <<owner, call, items, pushed, taken>>

\* Mutant of UnassignHolder: UnassignGuard is missing from wait().
UnassignToUnlock(t) ==
  /\ queuePc[t] \in {"sleep", "leave"}
  /\ holder' = IF At(t, "leave") THEN Nobody ELSE holder
  /\ Goto(t, IF At(t, "sleep") THEN "wait" ELSE "unlock")
  /\ UNCHANGED <<owner, call, items, pushed, taken>>

\* In unlock(), and in wait() by UnassignGuard.
UnassignHolder(t) ==
  /\ queuePc[t] \in {"sleep", "leave"}
  /\ holder' = Nobody
  /\ Goto(t, IF At(t, "sleep") THEN "wait" ELSE "unlock")
  /\ UNCHANGED <<owner, call, items, pushed, taken>>

\* pthread_mutex_unlock(), or pthread_cond_wait() up to the wait.
Release(t) ==
  /\ queuePc[t] \in {"wait", "unlock"}
  /\ owner' = Nobody
  /\ Goto(t, IF At(t, "wait") THEN "waiting" ELSE "idle")
  /\ UNCHANGED <<holder, call, items, pushed, taken>>

SpuriousWakeup(t) ==
  /\ At(t, "waiting")
  /\ Goto(t, "lock")
  /\ UNCHANGED <<owner, holder, call, items, pushed, taken>>

\* The threads that wait on notEmpty_, and on notFull_.
WaitingTakers == {t \in QueueThreads : At(t, "waiting") /\ call[t] = Take}
WaitingPutters == {t \in QueueThreads : At(t, "waiting") /\ call[t] # Take}

\* t goes on to leave; notify() wakes one of those that wait, if any.
LeaveAndNotify(t, waiting) ==
  IF waiting = {}
    THEN Goto(t, "leave")
    ELSE \E w \in waiting :
           queuePc' = [queuePc EXCEPT ![t] = "leave", ![w] = "lock"]

-----------------------------------------------------------------------------
(* The queue.                                                              *)

\* Mutant of IsFull: one more fits.
IsFullLate == Capacity > 0 /\ Len(items) > Capacity

IsFull == Capacity > 0 /\ Len(items) >= Capacity

Put(t) ==
  /\ At(t, "body") /\ call[t] # Take
  /\ IF IsFull
       THEN Goto(t, "sleep") /\ UNCHANGED <<items, pushed>>
       ELSE /\ items' = Append(items, call[t])
            /\ pushed' = Append(pushed, call[t])
            /\ LeaveAndNotify(t, WaitingTakers)
  /\ UNCHANGED <<owner, holder, call, taken>>

TakeItem(t) ==
  /\ At(t, "body") /\ call[t] = Take
  /\ IF items = <<>>
       THEN Goto(t, "sleep") /\ UNCHANGED <<items, taken>>
       ELSE /\ items' = Tail(items)
            /\ taken' = Append(taken, Head(items))
            /\ LeaveAndNotify(t, WaitingPutters)
  /\ UNCHANGED <<owner, holder, call, pushed>>

QueueStep(t) ==
  \/ Lock(t) \/ AssignHolder(t) \/ UnassignHolder(t) \/ Release(t)
  \/ Put(t) \/ TakeItem(t)

QueueNext ==
  \E t \in QueueThreads :
    \/ \E what \in Items \cup {Take} : CallQueue(t, what)
    \/ QueueStep(t) \/ SpuriousWakeup(t)

QueueSpec == QueueInit /\ [][QueueNext]_queueVars

-----------------------------------------------------------------------------
(* Properties                                                              *)

\* isLockedByThisThread() reads holder_ without the lock: it is the caller
\* exactly when the caller has the mutex and is not inside wait().
HolderRight ==
  \A t \in QueueThreads :
    /\ holder = t => owner = t
    /\ queuePc[t] \in {"body", "sleep", "leave"} => holder = t

Awake(t) == queuePc[t] \in {"lock", "assign", "body"}
AwakeTakers == {t \in QueueThreads : Awake(t) /\ call[t] = Take}
AwakePutters == {t \in QueueThreads : Awake(t) /\ call[t] # Take}

\* One notify() per put and per take is enough: while anyone waits, there are
\* as many threads on their way as there are items (or places) for them.
EnoughAwake ==
  /\ WaitingTakers # {} => Cardinality(AwakeTakers) >= Len(items)
  /\ WaitingPutters # {} =>
       Cardinality(AwakePutters) >= Capacity - Len(items)

\* Nothing is lost, doubled or reordered.
QueueFifo == pushed = taken \o items

\* A queue shared by threads (the parts above).
QueueSound == HolderRight /\ EnoughAwake /\ QueueFifo
=============================================================================
