-------------------------- MODULE EventLoopProofs ---------------------------
(***************************************************************************)
(* TLAPS proofs about EventLoop, for any threads, functors and channels:   *)
(* no wakeup is lost, and the loop implements the FIFO executor; about     *)
(* EventLoopThread, where the assumption about the owner is used: the      *)
(* thread, its owner and loop_ stay in step, and the loop the thread runs  *)
(* is an EventLoop, so that everything proved of EventLoop holds of it.    *)
(***************************************************************************)
EXTENDS EventLoopThread, SequenceLemmas

-----------------------------------------------------------------------------
(* Type correctness.                                                       *)

\* The constructor's state is well typed.
LEMMA InitTypeOK == Init => TypeOK
<1>1. <<>> \in Seq(Functors)
  OBVIOUS
<1> QED BY <1>1 DEF Init, TypeOK, LoopPcs

\* Calls of other threads keep the state well typed.
LEMMA CallerTypeOK ==
  ASSUME TypeOK, NEW t \in Threads, Caller(t)
  PROVE  TypeOK'
<1>1. CASE Quit(t)
  BY <1>1 DEF TypeOK, Quit
<1>2. CASE Wakeup(t)
  BY <1>2 DEF TypeOK, Wakeup
<1>3. ASSUME NEW f \in Functors, QueueInLoop(t, f)
      PROVE  TypeOK'
  BY <1>3, AppendProperties DEF TypeOK, QueueInLoop
<1> QED BY <1>1, <1>2, <1>3 DEF Caller

\* Calls of the loop thread's own code keep the state well typed.
LEMMA LoopCallTypeOK ==
  ASSUME TypeOK, LoopCall
  PROVE  TypeOK'
<1>1. CASE LoopQuit
  BY <1>1 DEF TypeOK, LoopQuit
<1>2. ASSUME NEW f \in Functors, LoopQueueInLoop(f)
      PROVE  TypeOK'
  BY <1>2, AppendProperties DEF TypeOK, LoopQueueInLoop
<1>3. ASSUME NEW f \in Functors, LoopRunInLoop(f)
      PROVE  TypeOK'
  BY <1>3, AppendProperties DEF TypeOK, LoopRunInLoop
<1> QED BY <1>1, <1>2, <1>3 DEF LoopCall

\* The steps of loop() keep the state well typed.
LEMMA LoopStepTypeOK ==
  ASSUME TypeOK, LoopStep \/ PollTimeout \/ StartLoop
  PROVE  TypeOK'
<1>1. CASE CheckQuit
  BY <1>1 DEF TypeOK, CheckQuit, LoopPcs
<1>2. CASE PollReady
  BY <1>2 DEF TypeOK, PollReady, Reported, LoopPcs
<1>3. CASE HandleWakeup
  BY <1>3 DEF TypeOK, HandleWakeup
<1>4. ASSUME NEW c \in Channels, HandleEvent(c)
      PROVE  TypeOK'
  BY <1>4 DEF TypeOK, HandleEvent
<1>5. CASE SwapFunctors
  <2>1. <<>> \in Seq(Functors)
    OBVIOUS
  <2> QED BY <1>5, <2>1 DEF TypeOK, SwapFunctors, LoopPcs
<1>6. CASE RunFunctor
  <2>1. Head(functors) \in Functors /\ Tail(functors) \in Seq(Functors)
    BY <1>6, HeadTailProperties DEF TypeOK, RunFunctor
  <2>2. executed' \in Seq(Functors)
    BY <1>6, <2>1, AppendProperties DEF TypeOK, RunFunctor
  <2>3. functors # <<>> /\ callingPendingFunctors
    BY <1>6 DEF TypeOK, RunFunctor
  <2> QED BY <1>6, <2>1, <2>2, <2>3 DEF TypeOK, RunFunctor
<1>7. CASE EndCallback
  BY <1>7 DEF TypeOK, EndCallback
<1>8. CASE FinishFunctors
  BY <1>8 DEF TypeOK, FinishFunctors, LoopPcs
<1>9. CASE PollTimeout
  BY <1>9 DEF TypeOK, PollTimeout, LoopPcs
<1>10. CASE StartLoop
  BY <1>10 DEF TypeOK, StartLoop, LoopPcs
<1> QED
  BY <1>1, <1>2, <1>3, <1>4, <1>5, <1>6, <1>7, <1>8, <1>9, <1>10 DEF LoopStep

\* The state of the loop, of its queue and of its callers stays well typed,
\* doPendingFunctors' batch exists only while callingPendingFunctors_ is set
\* and activeChannels_ is emptied before the functors run.
THEOREM TypeCorrect == Spec => []TypeOK
<1>1. ASSUME TypeOK, [Next]_vars
      PROVE  TypeOK'
  <2>1. ASSUME NEW c \in Channels, ChannelReady(c)
        PROVE  TypeOK'
    BY <1>1, <2>1 DEF TypeOK, ChannelReady
  <2>2. CASE UNCHANGED vars
    BY <1>1, <2>2 DEF TypeOK, vars
  <2> QED
    BY <1>1, <2>1, <2>2, CallerTypeOK, LoopCallTypeOK, LoopStepTypeOK DEF Next
<1> QED BY <1>1, InitTypeOK, PTL DEF Spec
-----------------------------------------------------------------------------
(* No wakeup is lost.                                                      *)

\* Calls of other threads: a push is followed by a wakeup still to be written.
LEMMA CallerWakeupInv ==
  ASSUME TypeOK, WakeupInv, NEW t \in Threads, Caller(t)
  PROVE  WakeupInv'
<1>1. CASE Quit(t)
  BY <1>1 DEF TypeOK, WakeupInv, WakeupDue, Quit
<1>2. CASE Wakeup(t)
  BY <1>2 DEF TypeOK, WakeupInv, WakeupDue, Wakeup
<1>3. ASSUME NEW f \in Functors, QueueInLoop(t, f)
      PROVE  WakeupInv'
  <2>1. pc'[t] = "wakeup"
    BY <1>3 DEF TypeOK, QueueInLoop
  <2>2. WakeupDue'
    BY <2>1 DEF WakeupDue
  <2> QED BY <1>3, <2>2 DEF WakeupInv, QueueInLoop
<1> QED BY <1>1, <1>2, <1>3 DEF Caller

\* Calls on the loop thread: the push is silent outside loop(), ahead of
\* doPendingFunctors among the events, and wakes the loop among the functors.
LEMMA LoopCallWakeupInv ==
  ASSUME TypeOK, WakeupInv, LoopCall
  PROVE  WakeupInv'
<1>1. CASE LoopQuit
  BY <1>1 DEF WakeupInv, WakeupDue, LoopQuit
<1>2. ASSUME NEW f \in Functors, LoopRunInLoop(f)
      PROVE  WakeupInv'
  BY <1>2 DEF WakeupInv, WakeupDue, LoopRunInLoop
<1>3. ASSUME NEW f \in Functors, LoopQueueInLoop(f)
      PROVE  WakeupInv'
  <2>1. Range(pendingFunctors') = Range(pendingFunctors) \cup {f}
    BY <1>3, RangeAppend DEF TypeOK, LoopQueueInLoop
  <2>2. UNCHANGED <<loopPc, inCallback, callingPendingFunctors, pc>>
    BY <1>3 DEF LoopQueueInLoop
  <2>3. CASE loopPc = "outside"
    <3>1. silent' = silent \cup {f}
      BY <1>3, <2>3 DEF LoopQueueInLoop
    <3>2. Range(pendingFunctors') \ silent' \subseteq Range(pendingFunctors) \ silent
      BY <2>1, <3>1
    <3>3. WakeupDue => WakeupDue'
      BY <1>3 DEF LoopQueueInLoop, WakeupDue
    <3> QED BY <2>2, <3>2, <3>3 DEF WakeupInv
  <2>4. CASE loopPc = "functors"
    <3>1. WakeupDue'
      BY <1>3, <2>4 DEF LoopQueueInLoop, WakeupInv, WakeupDue
    <3> QED BY <2>2, <3>1 DEF WakeupInv
  <2>5. CASE loopPc = "events"
    BY <2>2, <2>5 DEF WakeupInv
  <2> QED BY <1>3, <2>3, <2>4, <2>5 DEF LoopQueueInLoop, UserCode, WakeupInv
<1> QED BY <1>1, <1>2, <1>3 DEF LoopCall

\* The steps of loop(): the eventfd is drained only ahead of the swap that
\* takes every waiting functor.
LEMMA LoopStepWakeupInv ==
  ASSUME TypeOK, WakeupInv, LoopStep \/ PollTimeout \/ StartLoop
  PROVE  WakeupInv'
<1>1. CASE CheckQuit
  BY <1>1 DEF WakeupInv, WakeupDue, CheckQuit
<1>2. CASE PollReady
  BY <1>2 DEF WakeupInv, PollReady
<1>3. CASE HandleWakeup
  BY <1>3 DEF WakeupInv, HandleWakeup
<1>4. ASSUME NEW c \in Channels, HandleEvent(c)
      PROVE  WakeupInv'
  BY <1>4 DEF WakeupInv, HandleEvent
<1>5. CASE SwapFunctors
  <2>1. Range(pendingFunctors') = {}
    BY <1>5 DEF SwapFunctors, Range
  <2> QED BY <1>5, <2>1 DEF WakeupInv, SwapFunctors
<1>6. CASE RunFunctor
  BY <1>6 DEF WakeupInv, WakeupDue, RunFunctor
<1>7. CASE EndCallback
  BY <1>7 DEF WakeupInv, WakeupDue, EndCallback
<1>8. CASE FinishFunctors
  BY <1>8 DEF WakeupInv, WakeupDue, FinishFunctors
<1>9. CASE PollTimeout
  BY <1>9 DEF WakeupInv, PollTimeout
<1>10. CASE StartLoop
  BY <1>10 DEF WakeupInv, WakeupDue, StartLoop
<1> QED
  BY <1>1, <1>2, <1>3, <1>4, <1>5, <1>6, <1>7, <1>8, <1>9, <1>10 DEF LoopStep

\* queueInLoop and doPendingFunctors together: a functor waits outside the
\* handling of events only with a wakeup on its way or in the eventfd.
THEOREM WakeupInvariant == Spec => []WakeupInv
<1>1. Init => WakeupInv
  BY DEF Init, WakeupInv, Range
<1>2. ASSUME TypeOK, WakeupInv, [Next]_vars
      PROVE  WakeupInv'
  <2>1. ASSUME NEW c \in Channels, ChannelReady(c)
        PROVE  WakeupInv'
    BY <1>2, <2>1 DEF WakeupInv, WakeupDue, ChannelReady
  <2>2. CASE UNCHANGED vars
    BY <1>2, <2>2 DEF WakeupInv, WakeupDue, vars
  <2> QED
    BY <1>2, <2>1, <2>2, CallerWakeupInv, LoopCallWakeupInv, LoopStepWakeupInv
    DEF Next
<1> QED BY <1>1, <1>2, TypeCorrect, PTL DEF Spec

\* poll() is never entered with an unannounced functor of another thread, or
\* of a callback, in the queue: queueInLoop loses no wakeup.
THEOREM WakeupNeverLost == Spec => []NoLostWakeup
<1>1. WakeupInv => NoLostWakeup
  BY DEF WakeupInv, NoLostWakeup
<1> QED BY <1>1, WakeupInvariant, PTL
-----------------------------------------------------------------------------
(* The loop implements the FIFO executor.                                  *)

\* Calls push only functors that are recorded as posted.
LEMMA CallPostedInv ==
  ASSUME TypeOK, PostedInv, LoopCall \/ \E t \in Threads : Caller(t)
  PROVE  PostedInv'
<1>1. ASSUME NEW t \in Threads, Quit(t) \/ Wakeup(t)
      PROVE  PostedInv'
  BY <1>1 DEF PostedInv, Quit, Wakeup
<1>2. ASSUME NEW t \in Threads, NEW f \in Functors, QueueInLoop(t, f)
      PROVE  PostedInv'
  <2>1. Range(pendingFunctors') = Range(pendingFunctors) \cup {f}
    BY <1>2, RangeAppend DEF TypeOK, QueueInLoop
  <2> QED BY <1>2, <2>1 DEF PostedInv, QueueInLoop
<1>3. CASE LoopQuit
  BY <1>3 DEF PostedInv, LoopQuit
<1>4. ASSUME NEW f \in Functors, LoopQueueInLoop(f)
      PROVE  PostedInv'
  <2>1. Range(pendingFunctors') = Range(pendingFunctors) \cup {f}
    BY <1>4, RangeAppend DEF TypeOK, LoopQueueInLoop
  <2> QED BY <1>4, <2>1 DEF PostedInv, LoopQueueInLoop
<1>5. ASSUME NEW f \in Functors, LoopRunInLoop(f)
      PROVE  PostedInv'
  <2>1. Range(executed') = Range(executed) \cup {f}
    BY <1>5, RangeAppend DEF TypeOK, LoopRunInLoop
  <2> QED BY <1>5, <2>1 DEF PostedInv, LoopRunInLoop
<1> QED BY <1>1, <1>2, <1>3, <1>4, <1>5 DEF LoopCall, Caller

\* Swapping and running moves functors between the queues and the history.
LEMMA LoopPostedInv ==
  ASSUME TypeOK, PostedInv, LoopStep \/ PollTimeout \/ StartLoop
  PROVE  PostedInv'
<1>1. CASE SwapFunctors
  <2>1. Range(pendingFunctors') = {}
    BY <1>1 DEF SwapFunctors, Range
  <2> QED BY <1>1, <2>1 DEF PostedInv, SwapFunctors
<1>2. CASE RunFunctor
  <2>1. /\ Head(functors) \in Range(functors)
        /\ Range(Tail(functors)) \subseteq Range(functors)
    BY <1>2, RangeHeadTail DEF TypeOK, RunFunctor
  <2>2. Head(functors) \in Functors
    BY <1>2, HeadTailProperties DEF TypeOK, RunFunctor
  <2>3. Range(executed') = Range(executed) \cup {Head(functors)}
    BY <1>2, <2>2, RangeAppend DEF TypeOK, RunFunctor
  <2> QED BY <1>2, <2>1, <2>3 DEF PostedInv, RunFunctor
<1>3. CASE CheckQuit \/ PollReady \/ HandleWakeup \/ EndCallback
  BY <1>3 DEF PostedInv, CheckQuit, PollReady, HandleWakeup, EndCallback
<1>4. CASE FinishFunctors \/ PollTimeout \/ StartLoop
  BY <1>4 DEF PostedInv, FinishFunctors, PollTimeout, StartLoop
<1>5. ASSUME NEW c \in Channels, HandleEvent(c)
      PROVE  PostedInv'
  BY <1>5 DEF PostedInv, HandleEvent
<1> QED BY <1>1, <1>2, <1>3, <1>4, <1>5 DEF LoopStep

\* Nothing waits or has run that was not handed to the loop.
LEMMA PostedInvariant == Spec => []PostedInv
<1>1. Init => PostedInv
  BY DEF Init, PostedInv, Range
<1>2. ASSUME TypeOK, PostedInv, [Next]_vars
      PROVE  PostedInv'
  <2>1. ASSUME NEW c \in Channels, ChannelReady(c)
        PROVE  PostedInv'
    BY <1>2, <2>1 DEF PostedInv, ChannelReady
  <2>2. CASE UNCHANGED vars
    BY <1>2, <2>2 DEF PostedInv, vars
  <2> QED BY <1>2, <2>1, <2>2, CallPostedInv, LoopPostedInv DEF Next
<1> QED BY <1>1, <1>2, TypeCorrect, PTL DEF Spec

\* A functor not yet posted is fresh for the executor.
LEMMA PostedFresh ==
  ASSUME TypeOK, PostedInv, NEW f \in Functors, f \notin posted
  PROVE  Exec!Fresh(f)
<1>1. Range(functors \o pendingFunctors) = Range(functors) \cup Range(pendingFunctors)
  BY RangeConcatenation DEF TypeOK
<1>2. /\ Exec!Range(functors \o pendingFunctors) = Range(functors \o pendingFunctors)
      /\ Exec!Range(executed) = Range(executed)
  BY DEF Range, Exec!Range
<1> QED BY <1>1, <1>2 DEF PostedInv, Exec!Fresh

\* A call hands its functor to the executor, or changes nothing of it.
LEMMA CallRefines ==
  ASSUME TypeOK, PostedInv, LoopCall \/ \E t \in Threads : Caller(t)
  PROVE  [Exec!Next]_Exec!vars
<1>1. ASSUME NEW t \in Threads, Quit(t) \/ Wakeup(t)
      PROVE  UNCHANGED Exec!vars
  BY <1>1 DEF Exec!vars, Quit, Wakeup, Looping
<1>2. ASSUME NEW t \in Threads, NEW f \in Functors, QueueInLoop(t, f)
      PROVE  Exec!Submit(f)
  <2>1. Exec!Fresh(f)
    BY <1>2, PostedFresh DEF QueueInLoop
  <2>2. functors \o Append(pendingFunctors, f) = Append(functors \o pendingFunctors, f)
    BY ConcatAppend DEF TypeOK
  <2> QED BY <1>2, <2>1, <2>2 DEF QueueInLoop, Exec!Submit, Looping
<1>3. CASE LoopQuit
  BY <1>3 DEF Exec!vars, LoopQuit, Looping
<1>4. ASSUME NEW f \in Functors, LoopQueueInLoop(f)
      PROVE  Exec!Submit(f)
  <2>1. Exec!Fresh(f)
    BY <1>4, PostedFresh DEF LoopQueueInLoop
  <2>2. functors \o Append(pendingFunctors, f) = Append(functors \o pendingFunctors, f)
    BY ConcatAppend DEF TypeOK
  <2> QED BY <1>4, <2>1, <2>2 DEF LoopQueueInLoop, Exec!Submit, Looping
<1>5. ASSUME NEW f \in Functors, LoopRunInLoop(f)
      PROVE  Exec!RunNow(f)
  <2>1. Exec!Fresh(f)
    BY <1>5, PostedFresh DEF LoopRunInLoop
  <2> QED BY <1>5, <2>1 DEF LoopRunInLoop, Exec!RunNow, Looping
<1> QED BY <1>1, <1>2, <1>3, <1>4, <1>5 DEF LoopCall, Caller, Exec!Next

\* A step of loop() runs the head of the queue, enters or leaves the loop, or
\* changes nothing of the executor: the swap only moves the boundary between
\* the batch and the queue.
LEMMA LoopRefines ==
  ASSUME TypeOK, WakeupInv, LoopStep \/ PollTimeout \/ StartLoop
  PROVE  [Exec!Next]_Exec!vars
<1>1. CASE SwapFunctors
  <2>1. functors = <<>>
    BY <1>1 DEF TypeOK, WakeupInv, SwapFunctors
  <2>2. functors \o pendingFunctors = pendingFunctors \o <<>>
    BY <2>1, ConcatEmptySeq DEF TypeOK
  <2> QED BY <1>1, <2>2 DEF SwapFunctors, Exec!vars, Looping
<1>2. CASE RunFunctor
  <2>1. /\ functors \o pendingFunctors # <<>>
        /\ Head(functors \o pendingFunctors) = Head(functors)
        /\ Tail(functors \o pendingFunctors) = Tail(functors) \o pendingFunctors
    BY <1>2, ConcatHeadTail DEF TypeOK, RunFunctor
  <2>2. Exec!RunHead
    BY <1>2, <2>1 DEF RunFunctor, Exec!RunHead, Looping
  <2> QED BY <2>2 DEF Exec!Next
<1>3. CASE CheckQuit
  <2>1. CASE quit
    <3>1. Exec!Switch
      BY <1>3, <2>1 DEF CheckQuit, Exec!Switch, Looping
    <3> QED BY <3>1 DEF Exec!Next
  <2>2. CASE ~quit
    BY <1>3, <2>2 DEF CheckQuit, Exec!vars, Looping
  <2> QED BY <2>1, <2>2
<1>4. CASE StartLoop
  <2>1. Exec!Switch
    BY <1>4 DEF StartLoop, Exec!Switch, Looping
  <2> QED BY <2>1 DEF Exec!Next
<1>5. CASE PollReady \/ PollTimeout
  BY <1>5 DEF PollReady, PollTimeout, Exec!vars, Looping
<1>6. CASE HandleWakeup \/ EndCallback \/ FinishFunctors
  BY <1>6 DEF HandleWakeup, EndCallback, FinishFunctors, Exec!vars, Looping
<1>7. ASSUME NEW c \in Channels, HandleEvent(c)
      PROVE  UNCHANGED Exec!vars
  BY <1>7 DEF HandleEvent, Exec!vars, Looping
<1> QED BY <1>1, <1>2, <1>3, <1>4, <1>5, <1>6, <1>7 DEF LoopStep

\* doPendingFunctors runs what was queued in the order it was queued, once
\* each: the loop implements the abstract FIFO executor.
THEOREM ImplementsExecutor == Spec => FifoOnce
<1>1. Init => Exec!Init
  <2>1. <<>> \o <<>> = <<>>
    OBVIOUS
  <2> QED BY <2>1 DEF Init, Exec!Init, Looping
<1>2. ASSUME TypeOK, PostedInv, WakeupInv, [Next]_vars
      PROVE  [Exec!Next]_Exec!vars
  <2>1. ASSUME NEW c \in Channels, ChannelReady(c)
        PROVE  UNCHANGED Exec!vars
    BY <2>1 DEF ChannelReady, Exec!vars, Looping
  <2>2. CASE UNCHANGED vars
    BY <2>2 DEF vars, Exec!vars, Looping
  <2> QED BY <1>2, <2>1, <2>2, CallRefines, LoopRefines DEF Next
<1> QED
  BY <1>1, <1>2, TypeCorrect, PostedInvariant, WakeupInvariant, PTL
  DEF Spec, FifoOnce, Exec!Safe

-----------------------------------------------------------------------------
(* EventLoopThread: the loop it runs.                                      *)

\* Every step of the thread and its owner is a step of EventLoop, or none.
LEMMA ThreadStepIsLoopStep ==
  [ThreadNext]_threadAllVars => [Next]_vars
<1> SUFFICES ASSUME [ThreadNext]_threadAllVars
             PROVE  [Next]_vars
  OBVIOUS
<1>1. CASE ThreadStep
  BY <1>1 DEF ThreadStep, ConstructLoop, Publish, EnterLoop, RunLoop,
              ClearLoop, DestructLoop, Next
<1>2. CASE InitCallback \/ PollExpires
  BY <1>2 DEF InitCallback, PollExpires, Next
<1>3. CASE RunCallback
  BY <1>3 DEF RunCallback, Next, LoopCall
<1>4. CASE StartThread \/ StartLoopStep \/ Destruct
  BY <1>4 DEF StartThread, StartLoopStep, StartLoopWakes, StartLoopReturns,
              Destruct
<1>5. CASE OwnerQueues
  <2>1. Caller(Owner)
    BY <1>5 DEF OwnerQueues, Caller
  <2> QED BY <2>1, OwnerAssumption DEF OwnerAssumption, Next
<1>6. CASE DestructorStep
  <2>1. CASE DestructorQuits \/ DestructorWakes
    <3>1. Caller(Owner)
      BY <2>1 DEF DestructorQuits, DestructorWakes, Caller
    <3> QED BY <3>1, OwnerAssumption DEF OwnerAssumption, Next
  <2>2. CASE DestructorFaults \/ Join
    BY <2>2 DEF DestructorFaults, Join
  <2> QED BY <1>6, <2>1, <2>2 DEF DestructorStep
<1>7. CASE UNCHANGED threadAllVars
  BY <1>7 DEF threadAllVars
<1> QED BY <1>1, <1>2, <1>3, <1>4, <1>5, <1>6, <1>7 DEF ThreadNext

\* The thread runs an EventLoop: with startLoop() and the destructor around
\* it, loop() does nothing that EventLoop does not.
THEOREM ThreadImplementsEventLoop == ThreadSpec => Spec
<1>1. ThreadInit => Init
  BY DEF ThreadInit
<1> QED BY <1>1, ThreadStepIsLoopStep, PTL DEF ThreadSpec, Spec

\* The owner's functors run once each, in the order in which they were queued,
\* and none is left behind in poll().
THEOREM OwnerIsServed == ThreadSpec => FifoOnce /\ []NoLostWakeup
BY ThreadImplementsEventLoop, ImplementsExecutor, WakeupNeverLost, PTL

-----------------------------------------------------------------------------
(* The thread, its owner and loop_.                                        *)

\* What each stage of threadFunc() means for the loop and for loop_, and how
\* far the owner can be at it.
ThreadStages ==
  /\ alive <=> threadPc \in {"callback", "run", "clear", "destruct"}
  /\ published <=> threadPc \in {"run", "clear"}
  /\ ownerPc = "new" => threadPc = "unstarted"
  /\ ownerPc \in {"woken", "using", "null"} =>
       threadPc \notin {"unstarted", "construct", "callback"}
  /\ Looping => threadPc = "run"
  /\ threadPc \in ThreadPcs /\ ownerPc \in OwnerPcs
  /\ alive \in BOOLEAN /\ published \in BOOLEAN /\ selfQuit \in BOOLEAN

\* Only EnterLoop and RunLoop enter or leave loop().
LEMMA CallsStayOutside ==
  ASSUME \/ LoopCall \/ PollTimeout \/ \E t \in Threads : Caller(t)
  PROVE  Looping' <=> Looping
BY DEF LoopCall, LoopQuit, LoopQueueInLoop, LoopRunInLoop, PollTimeout, Caller,
       Quit, Wakeup, QueueInLoop, Looping

\* The thread's steps.
LEMMA ThreadStepStages ==
  ASSUME ThreadStages, ThreadStep \/ InitCallback \/ RunCallback \/ PollExpires
  PROVE  ThreadStages'
<1> USE DEF ThreadStages, threadVars, ThreadPcs, OwnerPcs
<1>1. CASE ConstructLoop \/ Publish \/ ClearLoop \/ DestructLoop
  <2>1. Looping' <=> Looping
    BY <1>1 DEF ConstructLoop, Publish, ClearLoop, DestructLoop, vars, Looping
  <2>2. CASE ConstructLoop
    BY <2>1, <2>2 DEF ConstructLoop
  <2>3. CASE Publish
    BY <2>1, <2>3 DEF Publish
  <2>4. CASE ClearLoop
    BY <2>1, <2>4 DEF ClearLoop
  <2>5. CASE DestructLoop
    BY <2>1, <2>5 DEF DestructLoop
  <2> QED BY <1>1, <2>2, <2>3, <2>4, <2>5
<1>2. CASE EnterLoop
  BY <1>2 DEF EnterLoop
<1>3. CASE RunLoop
  BY <1>3 DEF RunLoop
<1>4. CASE InitCallback \/ RunCallback \/ PollExpires
  <2>1. LoopCall \/ PollTimeout
    BY <1>4 DEF InitCallback, RunCallback, PollExpires, LoopCall
  <2>2. /\ UNCHANGED <<threadPc, ownerPc, published, alive>>
        /\ selfQuit' \in {selfQuit, TRUE}
    BY <1>4 DEF InitCallback, RunCallback, PollExpires
  <2> QED BY <2>1, <2>2, CallsStayOutside
<1> QED BY <1>1, <1>2, <1>3, <1>4 DEF ThreadStep

\* The owner's steps.
LEMMA OwnerStepStages ==
  ASSUME ThreadStages,
         StartThread \/ StartLoopStep \/ OwnerQueues \/ Destruct
           \/ DestructorStep
  PROVE  ThreadStages'
<1> USE DEF ThreadStages, threadVars, ThreadPcs, OwnerPcs
<1>1. CASE StartThread \/ StartLoopStep \/ Destruct
  BY <1>1 DEF StartThread, StartLoopStep, StartLoopWakes, StartLoopReturns,
              Destruct, vars, Looping
<1>2. CASE OwnerQueues \/ DestructorQuits \/ DestructorWakes
  <2>1. Looping' <=> Looping
    BY <1>2 DEF OwnerQueues, DestructorQuits, DestructorWakes, Quit, Wakeup,
                QueueInLoop, Looping
  <2> QED BY <1>2, <2>1 DEF OwnerQueues, DestructorQuits, DestructorWakes
<1>3. CASE DestructorFaults \/ Join
  BY <1>3 DEF DestructorFaults, Join, vars, Looping
<1> QED BY <1>1, <1>2, <1>3 DEF DestructorStep

\* loop_ points to a loop only while there is one, startLoop() returns only
\* after callback_, and loop() runs only between the two, whatever callbacks
\* and the owner do.
THEOREM LoopAlwaysShared == ThreadSpec => []LoopShared
<1>1. ThreadInit => ThreadStages
  BY DEF ThreadInit, Init, ThreadStages, ThreadPcs, OwnerPcs, Looping
<1>2. ThreadStages /\ [ThreadNext]_threadAllVars => ThreadStages'
  <2> SUFFICES ASSUME ThreadStages, [ThreadNext]_threadAllVars
               PROVE  ThreadStages'
    OBVIOUS
  <2>1. CASE UNCHANGED threadAllVars
    BY <2>1 DEF threadAllVars, vars, threadVars, ThreadStages, Looping
  <2> QED BY <2>1, ThreadStepStages, OwnerStepStages DEF ThreadNext
<1>3. TypeOK /\ ThreadStages => LoopShared
  BY DEF ThreadStages, LoopShared, ThreadTypeOK, PublishedLoopUsable
<1> QED
  BY <1>1, <1>2, <1>3, ThreadImplementsEventLoop, TypeCorrect, PTL
  DEF ThreadSpec

\* The owner has told the loop to quit, or is through with it.
OwnerTold == ownerPc \in {"waking", "joining", "done", "fault"}

\* What makes OutlivesThreadFunc inductive: a loop that is about to end has been
\* told to by the owner, or by one of its own callbacks.
QuitHasReason ==
  /\ Looping /\ quit /\ ~OwnerTold => selfQuit
  /\ OutlivesThreadFunc

\* The thread's steps: it leaves loop() only on quit_, which loop() has reset.
LEMMA ThreadStepReason ==
  ASSUME ThreadStages, QuitHasReason,
         ThreadStep \/ InitCallback \/ RunCallback \/ PollExpires
  PROVE  QuitHasReason'
<1> USE DEF QuitHasReason, OutlivesThreadFunc, OwnerTold, ThreadStages,
            threadVars
<1>1. CASE ConstructLoop \/ Publish \/ ClearLoop \/ DestructLoop
  <2>1. UNCHANGED <<loopPc, quit, ownerPc, selfQuit>>
    BY <1>1 DEF ConstructLoop, Publish, ClearLoop, DestructLoop, vars,
                threadVars
  <2>2. CASE ConstructLoop \/ Publish
    BY <2>1, <2>2 DEF ConstructLoop, Publish, Looping
  <2>3. CASE ClearLoop \/ DestructLoop
    BY <2>1, <2>3 DEF ClearLoop, DestructLoop, Looping
  <2> QED BY <1>1, <2>2, <2>3
<1>2. CASE EnterLoop
  BY <1>2 DEF EnterLoop, StartLoop
<1>3. CASE RunLoop
  <2>1. UNCHANGED <<quit, ownerPc, selfQuit>>
    BY <1>3 DEF RunLoop, LoopStep, CheckQuit, PollReady, HandleWakeup,
       HandleEvent, SwapFunctors, RunFunctor, EndCallback, FinishFunctors
  <2>2. Looping /\ (Looping' \/ quit)
    BY <1>3 DEF RunLoop, LoopStep, CheckQuit, PollReady, HandleWakeup,
       HandleEvent, SwapFunctors, RunFunctor, EndCallback, FinishFunctors,
       Looping
  <2> QED BY <1>3, <2>1, <2>2 DEF RunLoop
<1>4. CASE InitCallback
  <2>1. ~Looping /\ ~Looping'
    BY <1>4, CallsStayOutside DEF InitCallback
  <2> QED BY <1>4, <2>1 DEF InitCallback
<1>5. CASE RunCallback
  <2>1. Looping' <=> Looping
    BY <1>5, CallsStayOutside DEF RunCallback, LoopCall
  <2>2. selfQuit' \/ UNCHANGED <<quit, selfQuit>>
    BY <1>5 DEF RunCallback, LoopQueueInLoop, LoopRunInLoop
  <2> QED BY <1>5, <2>1, <2>2 DEF RunCallback
<1>6. CASE PollExpires
  BY <1>6, CallsStayOutside DEF PollExpires, PollTimeout
<1> QED BY <1>1, <1>2, <1>3, <1>4, <1>5, <1>6 DEF ThreadStep

\* The owner's steps: it stores quit_ only on its way to wakeup() and join().
LEMMA OwnerStepReason ==
  ASSUME ThreadStages, QuitHasReason,
         StartThread \/ StartLoopStep \/ OwnerQueues \/ Destruct
           \/ DestructorStep
  PROVE  QuitHasReason'
<1> USE DEF QuitHasReason, OutlivesThreadFunc, OwnerTold, ThreadStages,
            threadVars, ThreadPcs
<1>1. CASE StartThread \/ StartLoopStep \/ Destruct
  <2>1. UNCHANGED <<Looping, quit, selfQuit>>
    BY <1>1 DEF StartThread, StartLoopStep, StartLoopWakes, StartLoopReturns,
                Destruct, vars, Looping
  <2>2. CASE StartThread
    BY <2>1, <2>2 DEF StartThread
  <2>3. CASE StartLoopStep
    BY <2>1, <2>3 DEF StartLoopStep, StartLoopWakes, StartLoopReturns
  <2>4. CASE Destruct
    BY <2>1, <2>4 DEF Destruct
  <2> QED BY <1>1, <2>2, <2>3, <2>4
<1>2. CASE OwnerQueues
  BY <1>2 DEF OwnerQueues, Wakeup, QueueInLoop, Looping
<1>3. CASE DestructorQuits \/ DestructorWakes
  BY <1>3 DEF DestructorQuits, DestructorWakes, Quit, Wakeup, Looping
<1>4. CASE DestructorFaults \/ Join
  BY <1>4 DEF DestructorFaults, Join, vars, Looping
<1> QED BY <1>1, <1>2, <1>3, <1>4 DEF DestructorStep

\* However startLoop(), the destructor and callbacks that quit the loop cross,
\* a destructor that has returned leaves no thread that still uses the members
\* of the EventLoopThread, and loop_ is found reset only after a callback has
\* called quit().
THEOREM ThreadFuncAlwaysOutlived == ThreadSpec => []OutlivesThreadFunc
<1>1. ThreadInit => ThreadStages /\ QuitHasReason
  BY DEF ThreadInit, Init, ThreadStages, ThreadPcs, OwnerPcs, Looping,
         QuitHasReason, OutlivesThreadFunc, OwnerTold
<1>2. ThreadStages /\ QuitHasReason /\ [ThreadNext]_threadAllVars
        => ThreadStages' /\ QuitHasReason'
  <2> SUFFICES ASSUME ThreadStages, QuitHasReason, [ThreadNext]_threadAllVars
               PROVE  ThreadStages' /\ QuitHasReason'
    OBVIOUS
  <2>1. CASE UNCHANGED threadAllVars
    BY <2>1 DEF threadAllVars, vars, threadVars, ThreadStages, Looping,
                QuitHasReason, OutlivesThreadFunc, OwnerTold
  <2> QED
    BY <2>1, ThreadStepStages, OwnerStepStages, ThreadStepReason,
       OwnerStepReason DEF ThreadNext
<1>3. QuitHasReason => OutlivesThreadFunc
  BY DEF QuitHasReason
<1> QED BY <1>1, <1>2, <1>3, PTL DEF ThreadSpec
=============================================================================
