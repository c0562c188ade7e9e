--------------------------- MODULE EventLoopThread --------------------------
(***************************************************************************)
(* muduo::net::EventLoopThread: a thread with an EventLoop on its stack.   *)
(* The owner starts it, waits in startLoop() for the loop to be published, *)
(* hands it functors and destroys it, which quits the loop and joins the   *)
(* thread.  The loop itself is module EventLoop, of whose foreign threads  *)
(* only the owner calls here.                                              *)
(***************************************************************************)
EXTENDS EventLoop

CONSTANTS
  Owner,     \* the thread that owns the EventLoopThread
  SelfQuit   \* whether the loop's own callbacks may call quit()

ASSUME OwnerAssumption == Owner \in Threads /\ SelfQuit \in BOOLEAN

VARIABLES
  threadPc,   \* where the thread is in threadFunc()
  ownerPc,    \* where the owner is in startLoop() or the destructor
  published,  \* loop_ # NULL
  alive,      \* the EventLoop on the thread's stack exists
  selfQuit    \* history: a callback of the running loop has called quit()

threadVars == <<threadPc, ownerPc, published, alive, selfQuit>>

ThreadPcs == {"unstarted", "construct", "callback", "run", "clear", "destruct",
              "ended"}

OwnerPcs == {"new", "starting", "woken", "using", "null", "quitting", "waking",
             "joining", "done", "fault"}

ThreadTypeOK ==
  /\ TypeOK
  /\ threadPc \in ThreadPcs
  /\ ownerPc \in OwnerPcs
  /\ published \in BOOLEAN
  /\ {alive, selfQuit} \subseteq BOOLEAN
  /\ Looping => threadPc = "run"

ThreadInit ==
  /\ Init
  /\ threadPc = "unstarted"
  /\ ownerPc = "new"
  /\ published = FALSE
  /\ alive = FALSE
  /\ selfQuit = FALSE

-----------------------------------------------------------------------------
(* threadFunc().                                                           *)

\* Mutant of ConstructLoop: loop_ is published before callback_ has run.
PublishBeforeCallback ==
  /\ threadPc = "construct"
  /\ threadPc' = "callback"
  /\ alive' = TRUE
  /\ published' = TRUE
  /\ UNCHANGED <<vars, ownerPc, selfQuit>>

\* EventLoop loop;
ConstructLoop ==
  /\ threadPc = "construct"
  /\ threadPc' = "callback"
  /\ alive' = TRUE
  /\ UNCHANGED <<vars, ownerPc, published, selfQuit>>

\* callback_(&loop) is user code on the loop thread, outside loop().
InitCallback ==
  /\ threadPc = "callback"
  /\ LoopCall
  /\ UNCHANGED threadVars

\* loop_ = &loop and the notify, under mutex_.
Publish ==
  /\ threadPc = "callback"
  /\ threadPc' = "run"
  /\ published' = TRUE
  /\ UNCHANGED <<vars, ownerPc, alive, selfQuit>>

\* loop.loop(), entered once.
EnterLoop ==
  /\ threadPc = "run"
  /\ StartLoop
  /\ UNCHANGED threadVars

\* The steps of loop().  Leaving it goes on to loop_ = NULL.
RunLoop ==
  /\ threadPc = "run" /\ Looping
  /\ LoopStep
  /\ threadPc' = IF Looping' THEN "run" ELSE "clear"
  /\ UNCHANGED <<ownerPc, published, alive, selfQuit>>

PollExpires ==
  /\ threadPc = "run"
  /\ PollTimeout
  /\ UNCHANGED threadVars

\* Callbacks of the running loop.
RunCallback ==
  /\ threadPc = "run" /\ Looping
  /\ \/ SelfQuit /\ LoopQuit /\ selfQuit' = TRUE
     \/ /\ \E f \in Functors : LoopQueueInLoop(f) \/ LoopRunInLoop(f)
        /\ UNCHANGED selfQuit
  /\ UNCHANGED <<threadPc, ownerPc, published, alive>>

\* loop_ = NULL, without mutex_.
ClearLoop ==
  /\ threadPc = "clear"
  /\ threadPc' = "destruct"
  /\ published' = FALSE
  /\ UNCHANGED <<vars, ownerPc, alive, selfQuit>>

\* The end of threadFunc's scope destroys the loop.
DestructLoop ==
  /\ threadPc = "destruct"
  /\ threadPc' = "ended"
  /\ alive' = FALSE
  /\ UNCHANGED <<vars, ownerPc, published, selfQuit>>

-----------------------------------------------------------------------------
(* The owner.                                                              *)

\* startLoop() up to the wait: thread_.start().
StartThread ==
  /\ ownerPc = "new"
  /\ ownerPc' = "starting"
  /\ threadPc' = "construct"
  /\ UNCHANGED <<vars, published, alive, selfQuit>>

\* Mutant of StartLoopWakes: the wait is not repeated, and a spurious wakeup
\* ends it.
StartLoopWakesOnce ==
  /\ ownerPc = "starting"
  /\ ownerPc' = "woken"
  /\ UNCHANGED <<vars, threadPc, published, alive, selfQuit>>

\* The wait under mutex_ ends once loop_ is set.
StartLoopWakes ==
  /\ ownerPc = "starting"
  /\ published
  /\ ownerPc' = "woken"
  /\ UNCHANGED <<vars, threadPc, published, alive, selfQuit>>

\* return loop_, which is read again, without mutex_: NULL if the loop has
\* ended meanwhile.
StartLoopReturns ==
  /\ ownerPc = "woken"
  /\ ownerPc' = IF published THEN "using" ELSE "null"
  /\ UNCHANGED <<vars, threadPc, published, alive, selfQuit>>

\* The owner uses the pointer startLoop() returned, while the loop exists.
OwnerQueues ==
  /\ ownerPc = "using"
  /\ alive
  /\ \/ \E f \in Functors : QueueInLoop(Owner, f)
     \/ Wakeup(Owner)
  /\ UNCHANGED threadVars

\* ~EventLoopThread: loop_ is read without mutex_; a loop that was never
\* published, or has ended, is neither told to quit nor joined.
Destruct ==
  /\ ownerPc \in {"new", "using", "null"} /\ pc[Owner] = "idle"
  /\ ownerPc' = IF published THEN "quitting" ELSE "done"
  /\ UNCHANGED <<vars, threadPc, published, alive, selfQuit>>

\* Mutant of DestructorQuits: the loop is woken, but quit_ is not stored.
DestructorOnlyWakes ==
  /\ ownerPc = "quitting"
  /\ published
  /\ pc' = [pc EXCEPT ![Owner] = "wakeup"]
  /\ ownerPc' = "waking"
  /\ UNCHANGED <<loopPc, inCallback, quit, callingPendingFunctors,
                 pendingFunctors, functors, activeChannels, readable, ready,
                 posted, executed, silent, threadPc, published, alive,
                 selfQuit>>

\* loop_->quit() stores quit_.  loop_ is read again: it may have become NULL.
DestructorQuits ==
  /\ ownerPc = "quitting"
  /\ published
  /\ Quit(Owner)
  /\ ownerPc' = "waking"
  /\ UNCHANGED <<threadPc, published, alive, selfQuit>>

\* The rest of quit(): wakeup(), if the loop has not been destroyed meanwhile.
DestructorWakes ==
  /\ ownerPc = "waking"
  /\ alive
  /\ Wakeup(Owner)
  /\ ownerPc' = "joining"
  /\ UNCHANGED <<threadPc, published, alive, selfQuit>>

\* The hazard the code's comments concede: loop_ is NULL, or the loop is gone.
DestructorFaults ==
  /\ \/ ownerPc = "quitting" /\ ~published
     \/ ownerPc = "waking" /\ ~alive
  /\ ownerPc' = "fault"
  /\ UNCHANGED <<vars, threadPc, published, alive, selfQuit>>

\* thread_.join()
Join ==
  /\ ownerPc = "joining"
  /\ threadPc = "ended"
  /\ ownerPc' = "done"
  /\ UNCHANGED <<vars, threadPc, published, alive, selfQuit>>

-----------------------------------------------------------------------------
ThreadStep ==
  \/ ConstructLoop
  \/ Publish
  \/ EnterLoop
  \/ RunLoop
  \/ ClearLoop
  \/ DestructLoop

StartLoopStep == StartLoopWakes \/ StartLoopReturns

DestructorStep ==
  DestructorQuits \/ DestructorWakes \/ DestructorFaults \/ Join

ThreadNext ==
  \/ ThreadStep
  \/ InitCallback
  \/ RunCallback
  \/ PollExpires
  \/ StartThread
  \/ StartLoopStep
  \/ OwnerQueues
  \/ Destruct
  \/ DestructorStep

threadAllVars == <<vars, threadVars>>

ThreadSpec == ThreadInit /\ [][ThreadNext]_threadAllVars

\* Both threads keep being scheduled and callbacks return, poll() need not time
\* out; when to destroy the EventLoopThread is the owner's choice.
ThreadFairSpec ==
  /\ ThreadSpec
  /\ WF_threadAllVars(ThreadStep)
  /\ WF_threadAllVars(StartLoopStep)
  /\ WF_threadAllVars(DestructorStep)
-----------------------------------------------------------------------------
\* threadFunc: loop_ never points to a loop that does not exist, and startLoop
\* does not return before callback_ is through with it.
PublishedLoopUsable ==
  /\ published => alive /\ threadPc \in {"run", "clear"}
  /\ ownerPc \in {"using", "null"} => threadPc \notin {"construct", "callback"}

\* The destructor reads loop_ without mutex_, and joins only if it finds one
\* (EventLoopThread.cc:31); still, once it has returned, threadFunc is through
\* with the members, loop_, mutex_, cond_ and callback_.  And a loop that nobody
\* told to quit does not end: startLoop() returns NULL, and the destructor
\* leaves out the join or finds loop_ reset under it, only after a callback has
\* called quit().
OutlivesThreadFunc ==
  /\ ownerPc = "done" => threadPc \in {"unstarted", "destruct", "ended"}
  /\ threadPc \in {"clear", "destruct", "ended"}
       /\ ownerPc \notin {"waking", "joining", "done", "fault"} => selfQuit
  /\ ownerPc = "null" \/ (ownerPc = "done" /\ threadPc = "destruct") => selfQuit

\* startLoop returns once the thread has been started, unless a callback quits
\* the loop before the owner wakes: loop_ is NULL again and it waits for ever.
StartLoopEnds ==
  ownerPc = "starting" ~> (ownerPc \in {"using", "null"} \/ threadPc = "ended")

\* ~EventLoopThread quits a loop that has entered loop() and joins its thread.
DestructorStopsRunningLoop ==
  (ownerPc = "quitting" /\ Looping) ~> ownerPc \in {"done", "fault"}

\* startLoop and the destructor of a running loop both return.
StartAndStopEnd == StartLoopEnds /\ DestructorStopsRunningLoop

\* The thread, its owner and loop_ stay in step (threadFunc, startLoop).
LoopShared == ThreadTypeOK /\ PublishedLoopUsable

\* EventLoop.h: quit() "Quits loop", so ~EventLoopThread returns whenever it is
\* called.  startLoop may have returned before loop() is entered, and loop()
\* resets quit_.
DestructorReturns == ownerPc = "quitting" ~> ownerPc \in {"done", "fault"}
=============================================================================
