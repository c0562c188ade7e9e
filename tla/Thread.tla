------------------------------- MODULE Thread -------------------------------
(***************************************************************************)
(* muduo::Thread with its CountDownLatch and CurrentThread's cached tid.   *)
(* One thread creates Thread objects, starts, joins and destroys them; the *)
(* threads run; a thread may fork, which leaves a copy of it alone in a    *)
(* new process.                                                            *)
(***************************************************************************)
EXTENDS Integers, FiniteSets

CONSTANT ThreadObjs  \* Thread objects

VARIABLES
  object,    \* what has become of each object
  childPc,   \* where its thread is, in ThreadData::runInThread()
  latch,     \* latch_: count_ and whether mutex_ is held by the thread
  tid,       \* tid_ has been stored
  joined,    \* joined_
  detached,  \* pthread_detach() was called
  cachedTid, \* t_cachedTid of each thread: None, its tid, or one of before fork
  tooLate    \* history: objects a thread used after their end

threadObjVars ==
  <<object, childPc, latch, tid, joined, detached, cachedTid, tooLate>>

ThreadObjTypeOK ==
  /\ object \in [ThreadObjs -> {"none", "constructed", "waiting", "started",
                                "failed", "destroyed"}]
  /\ childPc \in [ThreadObjs -> {"none", "tid", "count", "notify", "unlock",
                                 "func", "ended"}]
  /\ latch \in [ThreadObjs -> [count : {0, 1}, held : BOOLEAN]]
  /\ tid \in [ThreadObjs -> BOOLEAN]
  /\ joined \in [ThreadObjs -> BOOLEAN]
  /\ detached \in [ThreadObjs -> BOOLEAN]
  /\ cachedTid \in [ThreadObjs -> {"none", "own", "parent's"}]
  /\ tooLate \subseteq ThreadObjs

ThreadObjInit ==
  /\ object = [t \in ThreadObjs |-> "none"]
  /\ childPc = [t \in ThreadObjs |-> "none"]
  /\ latch = [t \in ThreadObjs |-> [count |-> 1, held |-> FALSE]]
  /\ tid = [t \in ThreadObjs |-> FALSE]
  /\ joined = [t \in ThreadObjs |-> FALSE]
  /\ detached = [t \in ThreadObjs |-> FALSE]
  /\ cachedTid = [t \in ThreadObjs |-> "none"]
  /\ tooLate = {}

-----------------------------------------------------------------------------
(* The creator.                                                            *)

Construct(t) ==
  /\ object[t] = "none"
  /\ object' = [object EXCEPT ![t] = "constructed"]
  /\ UNCHANGED <<childPc, latch, tid, joined, detached, cachedTid, tooLate>>

\* start() up to pthread_create(), which may fail: the program is aborted.
StartObj(t) ==
  /\ object[t] = "constructed"
  /\ \/ /\ object' = [object EXCEPT ![t] = "waiting"]
        /\ childPc' = [childPc EXCEPT ![t] = "tid"]
     \/ /\ object' = [object EXCEPT ![t] = "failed"]
        /\ UNCHANGED childPc
  /\ UNCHANGED <<latch, tid, joined, detached, cachedTid, tooLate>>

\* Mutant of StartReturns: the latch is not waited for.
StartReturnsAtOnce(t) ==
  /\ object[t] = "waiting"
  /\ object' = [object EXCEPT ![t] = "started"]
  /\ UNCHANGED <<childPc, latch, tid, joined, detached, cachedTid, tooLate>>

\* CountDownLatch::wait() finds count_ 0 with the lock in its hand.
StartReturns(t) ==
  /\ object[t] = "waiting"
  /\ latch[t] = [count |-> 0, held |-> FALSE]
  /\ object' = [object EXCEPT ![t] = "started"]
  /\ UNCHANGED <<childPc, latch, tid, joined, detached, cachedTid, tooLate>>

\* join(): pthread_join() returns when the thread has ended.
JoinObj(t) ==
  /\ object[t] = "started" /\ ~joined[t]
  /\ childPc[t] = "ended"
  /\ joined' = [joined EXCEPT ![t] = TRUE]
  /\ UNCHANGED <<object, childPc, latch, tid, detached, cachedTid, tooLate>>

DestroyObj(t) ==
  /\ object[t] \in {"constructed", "started"}
  /\ object' = [object EXCEPT ![t] = "destroyed"]
  /\ detached' =
       [detached EXCEPT ![t] = object[t] = "started" /\ ~joined[t]]
  /\ UNCHANGED <<childPc, latch, tid, joined, cachedTid, tooLate>>

-----------------------------------------------------------------------------
(* The thread.                                                             *)

\* The thread is about to use what belongs to the object.
Touches(t) ==
  tooLate' = IF object[t] = "destroyed" THEN tooLate \cup {t} ELSE tooLate

\* *tid_ = CurrentThread::tid(), which caches it.
StoreTid(t) ==
  /\ childPc[t] = "tid"
  /\ tid' = [tid EXCEPT ![t] = TRUE]
  /\ cachedTid' = [cachedTid EXCEPT ![t] = "own"]
  /\ childPc' = [childPc EXCEPT ![t] = "count"]
  /\ Touches(t)
  /\ UNCHANGED <<object, latch, joined, detached>>

\* countDown(): lock and count, notifyAll, unlock.
CountDown(t) ==
  /\ childPc[t] = "count"
  /\ latch' = [latch EXCEPT ![t] = [count |-> @.count - 1, held |-> TRUE]]
  /\ childPc' = [childPc EXCEPT ![t] = "notify"]
  /\ Touches(t)
  /\ UNCHANGED <<object, tid, joined, detached, cachedTid>>

NotifyAll(t) ==
  /\ childPc[t] = "notify"
  /\ childPc' = [childPc EXCEPT ![t] = "unlock"]
  /\ Touches(t)
  /\ UNCHANGED <<object, latch, tid, joined, detached, cachedTid>>

Unlock(t) ==
  /\ childPc[t] = "unlock"
  /\ latch' = [latch EXCEPT ![t].held = FALSE]
  /\ childPc' = [childPc EXCEPT ![t] = "func"]
  /\ Touches(t)
  /\ UNCHANGED <<object, tid, joined, detached, cachedTid>>

\* func_() returns; ThreadData, which holds it, is deleted.
FuncReturns(t) ==
  /\ childPc[t] = "func"
  /\ childPc' = [childPc EXCEPT ![t] = "ended"]
  /\ UNCHANGED <<object, latch, tid, joined, detached, cachedTid, tooLate>>

\* The handler of pthread_atfork(): the copy has a tid of its own.
AfterFork(t) == cachedTid' = [cachedTid EXCEPT ![t] = "own"]

\* fork() in func_(), followed from here in the new process, where the other
\* threads do not exist and nobody waits for this one.
Fork(t) ==
  /\ childPc[t] = "func" /\ object[t] = "destroyed"
  /\ \A u \in ThreadObjs \ {t} : childPc[u] \in {"none", "ended"}
  /\ AfterFork(t)
  /\ UNCHANGED <<object, childPc, latch, tid, joined, detached, tooLate>>

ThreadObjStep(t) ==
  \/ StoreTid(t) \/ CountDown(t) \/ NotifyAll(t) \/ Unlock(t) \/ FuncReturns(t)

ThreadObjNext ==
  \E t \in ThreadObjs :
    \/ Construct(t) \/ StartObj(t) \/ StartReturns(t) \/ JoinObj(t)
    \/ DestroyObj(t) \/ Fork(t) \/ ThreadObjStep(t)

ThreadObjSpec == ThreadObjInit /\ [][ThreadObjNext]_threadObjVars

-----------------------------------------------------------------------------
(* Properties                                                              *)

\* tid_ is there when start() returns (Thread.cc:200), the thread is through
\* with tid_ and latch_ before the object can end, no pthread is left neither
\* joined nor detached, and nobody takes an old tid for its own after fork().
StartHandsOver ==
  /\ \A t \in ThreadObjs : object[t] = "started" => tid[t]
  /\ tooLate = {}
  /\ \A t \in ThreadObjs :
       object[t] = "destroyed" /\ childPc[t] # "none"
         => (joined[t] <=> ~detached[t])
  /\ \A t \in ThreadObjs : cachedTid[t] # "parent's"
=============================================================================
