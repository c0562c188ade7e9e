------------------------------ MODULE EventLoop -----------------------------
(***************************************************************************)
(* muduo::net::EventLoop: one loop thread that polls, handles the active   *)
(* channels and runs the functors other threads queued, and any number of  *)
(* other threads that call queueInLoop(), runInLoop() and quit().          *)
(*                                                                         *)
(* The loop thread's user code (an I/O handler, a functor, or the code     *)
(* around loop()) may make the same calls; it takes the branches the code  *)
(* takes when isInLoopThread() holds.  A functor is queued at most once,   *)
(* which bounds the model; Functors is the only bound.                     *)
(***************************************************************************)
EXTENDS Sequences, Functions

CONSTANTS
  Threads,        \* threads other than the loop thread
  Functors,       \* the callbacks that may be handed to the loop
  Channels,       \* I/O channels registered with the poller
  WakeupChannel   \* wakeupChannel_, the channel of the eventfd

ASSUME ChannelAssumption == WakeupChannel \notin Channels

VARIABLES
  loopPc,                  \* where the loop thread is in loop()
  inCallback,              \* the loop thread is in a handler or a functor
  quit,                    \* quit_
  callingPendingFunctors,  \* callingPendingFunctors_
  pendingFunctors,         \* pendingFunctors_, guarded by mutex_
  functors,                \* the rest of doPendingFunctors' local vector
  activeChannels,          \* the part of activeChannels_ still to handle
  readable,                \* the eventfd's counter is not zero
  ready,                   \* I/O channels with an event the kernel reports
  pc,                      \* where each other thread is in its call
  posted,                  \* history: functors handed to the loop so far
  executed,                \* history: functors run so far, oldest first
  silent                   \* history: functors the loop thread itself
                           \* queued outside loop(), with no wakeup

vars == <<loopPc, inCallback, quit, callingPendingFunctors, pendingFunctors,
          functors, activeChannels, readable, ready, pc, posted, executed,
          silent>>

LoopPcs == {"outside", "check", "poll", "events", "functors"}

TypeOK ==
  /\ loopPc \in LoopPcs
  /\ inCallback \in BOOLEAN
  /\ quit \in BOOLEAN
  /\ callingPendingFunctors \in BOOLEAN
  /\ pendingFunctors \in Seq(Functors)
  /\ functors \in Seq(Functors)
  /\ activeChannels \in SUBSET (Channels \cup {WakeupChannel})
  /\ readable \in BOOLEAN
  /\ ready \in SUBSET Channels
  /\ pc \in [Threads -> {"idle", "wakeup"}]
  /\ posted \in SUBSET Functors
  /\ executed \in Seq(Functors)
  /\ silent \in SUBSET Functors
  /\ functors # <<>> => callingPendingFunctors
  /\ activeChannels # {} => loopPc = "events"

\* The constructor: wakeupChannel_ is registered for reading, nothing queued.
Init ==
  /\ loopPc = "outside"
  /\ inCallback = FALSE
  /\ quit = FALSE
  /\ callingPendingFunctors = FALSE
  /\ pendingFunctors = <<>>
  /\ functors = <<>>
  /\ activeChannels = {}
  /\ readable = FALSE
  /\ ready = {}
  /\ pc = [t \in Threads |-> "idle"]
  /\ posted = {}
  /\ executed = <<>>
  /\ silent = {}

-----------------------------------------------------------------------------
(* Calls of other threads.  The unlock of mutex_ and the write to the      *)
(* eventfd are separate steps: the loop may run in between.                *)

\* queueInLoop, or runInLoop, which does the same off the loop thread: the
\* push under mutex_, then the branch !isInLoopThread() towards wakeup().
QueueInLoop(t, f) ==
  /\ pc[t] = "idle"
  /\ f \notin posted
  /\ pendingFunctors' = Append(pendingFunctors, f)
  /\ posted' = posted \cup {f}
  /\ pc' = [pc EXCEPT ![t] = "wakeup"]
  /\ UNCHANGED <<loopPc, inCallback, quit, callingPendingFunctors, functors,
                 activeChannels, readable, ready, executed, silent>>

\* Mutant of Quit: quit() stores quit_ and never wakes the loop.
QuitWithoutWakeup(t) ==
  /\ pc[t] = "idle"
  /\ quit' = TRUE
  /\ UNCHANGED <<loopPc, inCallback, callingPendingFunctors, pendingFunctors,
                 functors, activeChannels, readable, ready, pc, posted,
                 executed, silent>>

\* quit() from another thread: store quit_, then go on to wakeup().
Quit(t) ==
  /\ pc[t] = "idle"
  /\ quit' = TRUE
  /\ pc' = [pc EXCEPT ![t] = "wakeup"]
  /\ UNCHANGED <<loopPc, inCallback, callingPendingFunctors, pendingFunctors,
                 functors, activeChannels, readable, ready, posted, executed,
                 silent>>

\* wakeup(): write 8 bytes to the eventfd.
Wakeup(t) ==
  /\ pc[t] = "wakeup"
  /\ readable' = TRUE
  /\ pc' = [pc EXCEPT ![t] = "idle"]
  /\ UNCHANGED <<loopPc, inCallback, quit, callingPendingFunctors,
                 pendingFunctors, functors, activeChannels, ready, posted,
                 executed, silent>>

-----------------------------------------------------------------------------
(* Calls made by the loop thread's own code.                               *)

UserCode == loopPc = "outside" \/ inCallback

\* Mutant of LoopQueueInLoop: the wakeup is for other threads only, as if the
\* test of callingPendingFunctors_ were missing.
LoopQueueInLoopNeverWakes(f) ==
  /\ UserCode
  /\ f \notin posted
  /\ pendingFunctors' = Append(pendingFunctors, f)
  /\ posted' = posted \cup {f}
  /\ silent' = IF loopPc = "outside" THEN silent \cup {f} ELSE silent
  /\ UNCHANGED <<loopPc, inCallback, quit, callingPendingFunctors, functors,
                 activeChannels, readable, ready, pc, executed>>

\* queueInLoop on the loop thread wakes the loop only while the functors run.
LoopQueueInLoop(f) ==
  /\ UserCode
  /\ f \notin posted
  /\ pendingFunctors' = Append(pendingFunctors, f)
  /\ posted' = posted \cup {f}
  /\ readable' = (readable \/ callingPendingFunctors)
  /\ silent' = IF loopPc = "outside" THEN silent \cup {f} ELSE silent
  /\ UNCHANGED <<loopPc, inCallback, quit, callingPendingFunctors, functors,
                 activeChannels, ready, pc, executed>>

\* runInLoop on the loop thread calls the functor on the spot.
LoopRunInLoop(f) ==
  /\ UserCode
  /\ f \notin posted
  /\ posted' = posted \cup {f}
  /\ executed' = Append(executed, f)
  /\ UNCHANGED <<loopPc, inCallback, quit, callingPendingFunctors,
                 pendingFunctors, functors, activeChannels, readable, ready,
                 pc, silent>>

\* quit() on the loop thread stores quit_ and does not wake anyone.
LoopQuit ==
  /\ UserCode
  /\ quit' = TRUE
  /\ UNCHANGED <<loopPc, inCallback, callingPendingFunctors, pendingFunctors,
                 functors, activeChannels, readable, ready, pc, posted,
                 executed, silent>>

-----------------------------------------------------------------------------
(* loop().                                                                 *)

\* Entry: quit_ is reset, whatever was stored in it before.
StartLoop ==
  /\ loopPc = "outside"
  /\ loopPc' = "check"
  /\ quit' = FALSE
  /\ UNCHANGED <<inCallback, callingPendingFunctors, pendingFunctors, functors,
                 activeChannels, readable, ready, pc, posted, executed,
                 silent>>

\* while (!quit_)
CheckQuit ==
  /\ loopPc = "check"
  /\ loopPc' = IF quit THEN "outside" ELSE "poll"
  /\ UNCHANGED <<inCallback, quit, callingPendingFunctors, pendingFunctors,
                 functors, activeChannels, readable, ready, pc, posted,
                 executed, silent>>

Reported == ready \cup (IF readable THEN {WakeupChannel} ELSE {})

\* poll() returns because the kernel reports channels.
PollReady ==
  /\ loopPc = "poll"
  /\ Reported # {}
  /\ activeChannels' = Reported
  /\ loopPc' = "events"
  /\ UNCHANGED <<inCallback, quit, callingPendingFunctors, pendingFunctors,
                 functors, readable, ready, pc, posted, executed, silent>>

\* Mutant of PollTimeout: poll() is given an infinite timeout.
PollNeverTimesOut == FALSE

\* poll() returns after kPollTimeMs, or on EINTR, with no channel.
PollTimeout ==
  /\ loopPc = "poll"
  /\ Reported = {}
  /\ activeChannels' = {}
  /\ loopPc' = "events"
  /\ UNCHANGED <<inCallback, quit, callingPendingFunctors, pendingFunctors,
                 functors, readable, ready, pc, posted, executed, silent>>

\* handleRead(): reading the eventfd resets its counter.
HandleWakeup ==
  /\ loopPc = "events" /\ ~inCallback
  /\ WakeupChannel \in activeChannels
  /\ activeChannels' = activeChannels \ {WakeupChannel}
  /\ readable' = FALSE
  /\ UNCHANGED <<loopPc, inCallback, quit, callingPendingFunctors,
                 pendingFunctors, functors, ready, pc, posted, executed,
                 silent>>

\* handleEvent of an I/O channel: its handler is user code.
HandleEvent(c) ==
  /\ loopPc = "events" /\ ~inCallback
  /\ c \in activeChannels
  /\ activeChannels' = activeChannels \ {c}
  /\ ready' = ready \ {c}
  /\ inCallback' = TRUE
  /\ UNCHANGED <<loopPc, quit, callingPendingFunctors, pendingFunctors,
                 functors, readable, pc, posted, executed, silent>>

\* Mutant of SwapFunctors: callingPendingFunctors_ is not set.
SwapFunctorsWithoutFlag ==
  /\ loopPc = "events" /\ ~inCallback
  /\ activeChannels = {}
  /\ functors' = pendingFunctors
  /\ pendingFunctors' = <<>>
  /\ loopPc' = "functors"
  /\ UNCHANGED <<inCallback, quit, callingPendingFunctors, activeChannels,
                 readable, ready, pc, posted, executed, silent>>

\* doPendingFunctors: set the flag and take the whole queue under mutex_.
SwapFunctors ==
  /\ loopPc = "events" /\ ~inCallback
  /\ activeChannels = {}
  /\ callingPendingFunctors' = TRUE
  /\ functors' = pendingFunctors
  /\ pendingFunctors' = <<>>
  /\ loopPc' = "functors"
  /\ UNCHANGED <<inCallback, quit, activeChannels, readable, ready, pc, posted,
                 executed, silent>>

\* Mutant of RunFunctor: the batch is run from its last functor to its first,
\* as a loop that pops from the back of the vector would.
RunFunctorLastFirst ==
  /\ loopPc = "functors" /\ ~inCallback
  /\ functors # <<>>
  /\ executed' = Append(executed, functors[Len(functors)])
  /\ functors' = SubSeq(functors, 1, Len(functors) - 1)
  /\ inCallback' = TRUE
  /\ UNCHANGED <<loopPc, quit, callingPendingFunctors, pendingFunctors,
                 activeChannels, readable, ready, pc, posted, silent>>

\* functors[i]()
RunFunctor ==
  /\ loopPc = "functors" /\ ~inCallback
  /\ functors # <<>>
  /\ executed' = Append(executed, Head(functors))
  /\ functors' = Tail(functors)
  /\ inCallback' = TRUE
  /\ UNCHANGED <<loopPc, quit, callingPendingFunctors, pendingFunctors,
                 activeChannels, readable, ready, pc, posted, silent>>

\* The handler or the functor returns.
EndCallback ==
  /\ inCallback
  /\ inCallback' = FALSE
  /\ UNCHANGED <<loopPc, quit, callingPendingFunctors, pendingFunctors,
                 functors, activeChannels, readable, ready, pc, posted,
                 executed, silent>>

\* The end of doPendingFunctors.
FinishFunctors ==
  /\ loopPc = "functors" /\ ~inCallback
  /\ functors = <<>>
  /\ callingPendingFunctors' = FALSE
  /\ loopPc' = "check"
  /\ UNCHANGED <<inCallback, quit, pendingFunctors, functors, activeChannels,
                 readable, ready, pc, posted, executed, silent>>

\* The kernel has an event for an I/O channel.
ChannelReady(c) ==
  /\ ready' = ready \cup {c}
  /\ UNCHANGED <<loopPc, inCallback, quit, callingPendingFunctors,
                 pendingFunctors, functors, activeChannels, readable, pc,
                 posted, executed, silent>>
-----------------------------------------------------------------------------
Caller(t) == Quit(t) \/ Wakeup(t) \/ \E f \in Functors : QueueInLoop(t, f)

LoopCall ==
  \/ LoopQuit
  \/ \E f \in Functors : LoopQueueInLoop(f) \/ LoopRunInLoop(f)

\* What the loop thread does on its own once it is inside loop().
LoopStep ==
  \/ CheckQuit
  \/ PollReady
  \/ HandleWakeup
  \/ \E c \in Channels : HandleEvent(c)
  \/ SwapFunctors
  \/ RunFunctor
  \/ EndCallback
  \/ FinishFunctors

Next ==
  \/ \E t \in Threads : Caller(t)
  \/ LoopCall
  \/ StartLoop
  \/ LoopStep
  \/ PollTimeout
  \/ \E c \in Channels : ChannelReady(c)

Spec == Init /\ [][Next]_vars

\* Every thread keeps being scheduled and callbacks return, but poll() is
\* not assumed to time out: only a wakeup or an event ends it.
FairSpec ==
  Spec /\ WF_vars(LoopStep) /\ \A t \in Threads : WF_vars(Wakeup(t))
-----------------------------------------------------------------------------
Looping == loopPc # "outside"

\* A wakeup is in the eventfd, or a thread is on its way to write it.
WakeupDue == readable \/ \E t \in Threads : pc[t] = "wakeup"

\* queueInLoop: the loop never sleeps in poll() on a functor that some
\* thread queued, unless a wakeup is due.  The functors the loop thread
\* queued outside loop() are the exception the code has: no wakeup is written
\* for them and they wait for the first poll() to return.
NoLostWakeup ==
  loopPc = "poll" /\ Range(pendingFunctors) \ silent # {} => WakeupDue

\* quit: once quit_ is stored while the loop is inside loop(), loop() returns,
\* even if no event ever arrives and poll() never times out.
QuitEndsLoop == (quit /\ Looping) ~> ~Looping

\* queueInLoop: a functor queued from any thread while the loop runs is run
\* (or the loop is left) even if poll() never times out.
QueuedRunsPromptly ==
  \A f \in Functors :
    (Looping /\ f \in Range(pendingFunctors) \ silent)
      ~> (f \in Range(executed) \/ ~Looping)

\* What makes NoLostWakeup inductive: outside the handling of events, when
\* doPendingFunctors is still ahead, a waiting functor has its wakeup.
WakeupInv ==
  /\ callingPendingFunctors <=> loopPc = "functors"
  /\ inCallback => loopPc \in {"events", "functors"}
  /\ loopPc # "events" /\ Range(pendingFunctors) \ silent # {} => WakeupDue

\* The history is right: what is queued or was run has been posted.
PostedInv ==
  /\ Range(pendingFunctors) \subseteq posted
  /\ Range(functors) \subseteq posted
  /\ Range(executed) \subseteq posted

\* The batch being run followed by the queue behind it is one FIFO queue.
Exec == INSTANCE Executor
          WITH queue <- functors \o pendingFunctors, running <- Looping

\* swap() in doPendingFunctors neither loses, repeats nor reorders functors.
FifoOnce == Exec!Safe

\* If poll() returns after kPollTimeMs, every queued functor is run as long as
\* the loop runs, those that loop()'s thread queued without a wakeup, too.
EveryFunctorRuns == WF_vars(PollTimeout) => Exec!Fair

\* What other threads may count on although poll() need never time out: quit()
\* takes the loop out of loop(), a functor is run (quit, queueInLoop, wakeup).
LoopResponds == QuitEndsLoop /\ QueuedRunsPromptly
=============================================================================
