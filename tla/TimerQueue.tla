----------------------------- MODULE TimerQueue -----------------------------
(***************************************************************************)
(* muduo::net::TimerQueue with Timer, TimerId and the timerfd.             *)
(*                                                                         *)
(* addTimer() and cancel() hop to the loop thread with runInLoop: from     *)
(* another thread they queue a functor, which the loop runs in FIFO order  *)
(* after the events (module EventLoop implements this), from the loop      *)
(* thread's own code they act at once.  Timers live at addresses that the  *)
(* allocator reuses.  Time is counted in ticks of 100 microseconds, the    *)
(* shortest delay howMuchTimeFromNow() gives the timerfd.                  *)
(***************************************************************************)
EXTENDS Integers, Sequences

CONSTANTS
  Addrs,        \* the addresses new Timer may return
  Intervals,    \* the intervals of timers; 0 is a timer that does not repeat
  Expirations,  \* the times timers are set for
  MaxCreated,   \* bound: how many timers are created
  MaxTime,      \* bound: where the wall clock stops
  MaxPending,   \* bound: how many functors wait for the loop
  StepsBack     \* whether the wall clock may be set back

ASSUME TimerAssumption ==
  /\ Intervals \subseteq Nat
  /\ Expirations \subseteq Nat
  /\ MaxCreated \in Nat
  /\ MaxTime \in Nat
  /\ MaxPending \in Nat
  /\ StepsBack \in BOOLEAN

VARIABLES
  wall,                   \* Timestamp::now(), the wall clock
  alarm,                  \* ticks until the timerfd is readable, 0 if it is
  reported,               \* poll() has reported timerfdChannel_
  heap,                   \* the Timer at each address
  created,                \* s_numCreated_
  timers,                 \* timers_: pairs of expiration and address
  activeTimers,           \* activeTimers_: pairs of address and sequence
  callingExpiredTimers,   \* callingExpiredTimers_
  cancelingTimers,        \* cancelingTimers_
  readTime,               \* the local now of handleRead()
  expired,                \* the local expired of handleRead(): addresses
  unrun,                  \* those of them still to be run
  inCallback,             \* a timer's callback is running
  pending,                \* functors of other threads queued in the loop
  ids,                    \* history: the TimerIds addTimer() has returned
  periodic,               \* history: sequences of timers that repeat
  ran,                    \* history: sequences of timers that have run
  cancelled,              \* history: sequences cancelInLoop was called with
  overtaken               \* history: those whose add was still queued then

loopVars == <<timers, activeTimers, callingExpiredTimers, cancelingTimers,
              readTime, expired, unrun, inCallback>>
vars == <<wall, alarm, reported, heap, created, loopVars, pending, ids,
          periodic, ran, cancelled, overtaken>>

Disarmed == -1
NoTimer == [sequence |-> 0, expiration |-> 0, interval |-> 0]

Timers ==
  [sequence : 0 .. MaxCreated, expiration : Nat, interval : Intervals \cup {0}]
TimerIds == Addrs \X (1 .. MaxCreated)
Functors == [op : {"add", "cancel"}, id : TimerIds]

TypeOK ==
  /\ wall \in Nat
  /\ alarm \in Nat \cup {Disarmed}
  /\ reported \in BOOLEAN
  /\ heap \in [Addrs -> Timers]
  /\ created \in 0 .. MaxCreated
  /\ timers \subseteq Nat \X Addrs
  /\ activeTimers \subseteq TimerIds
  /\ callingExpiredTimers \in BOOLEAN
  /\ cancelingTimers \subseteq TimerIds
  /\ readTime \in Nat
  /\ expired \subseteq Addrs
  /\ unrun \subseteq expired
  /\ inCallback \in BOOLEAN
  /\ pending \in Seq(Functors)
  /\ ids \subseteq TimerIds
  /\ periodic \subseteq 1 .. MaxCreated
  /\ ran \subseteq 1 .. MaxCreated
  /\ cancelled \subseteq 1 .. MaxCreated
  /\ overtaken \subseteq cancelled

Init ==
  /\ wall = 1
  /\ alarm = Disarmed
  /\ reported = FALSE
  /\ heap = [a \in Addrs |-> NoTimer]
  /\ created = 0
  /\ timers = {}
  /\ activeTimers = {}
  /\ callingExpiredTimers = FALSE
  /\ cancelingTimers = {}
  /\ readTime = 0
  /\ expired = {}
  /\ unrun = {}
  /\ inCallback = FALSE
  /\ pending = <<>>
  /\ ids = {}
  /\ periodic = {}
  /\ ran = {}
  /\ cancelled = {}
  /\ overtaken = {}

\* The timers whose addTimerInLoop is still queued.
Adding == {pending[i].id : i \in {j \in DOMAIN pending : pending[j].op = "add"}}

Live(a) == heap[a].sequence # 0

\* Mutant of TicksUntil: the shortest delay is not enforced.
TicksUntilUnbounded(when) == when - wall

\* howMuchTimeFromNow: at least one tick, whatever the clock says.
TicksUntil(when) == IF when - wall < 1 THEN 1 ELSE when - wall

\* insert()'s earliestChanged.
IsEarliest(when, S) == \A entry \in S : when < entry[1]

-----------------------------------------------------------------------------
(* addTimer().                                                             *)

\* new Timer: any free address, the next sequence number.  The expiration may
\* be in the past, or the invalid Timestamp 0.
NewTimer(a, when, interval) ==
  /\ created < MaxCreated
  /\ ~Live(a)
  /\ created' = created + 1
  /\ heap' = [heap EXCEPT ![a] = [sequence |-> created + 1,
                                  expiration |-> when,
                                  interval |-> interval]]
  /\ ids' = ids \cup {<<a, created + 1>>}
  /\ periodic' = IF interval > 0 THEN periodic \cup {created + 1} ELSE periodic

\* addTimerInLoop: insert() into both indexes; a new earliest timer resets
\* the timerfd.
AddTimerInLoop(a, when, sequence) ==
  /\ timers' = timers \cup {<<when, a>>}
  /\ activeTimers' = activeTimers \cup {<<a, sequence>>}
  /\ alarm' = IF IsEarliest(when, timers) THEN TicksUntil(when) ELSE alarm

\* addTimer() on another thread queues addTimerInLoop.
AddTimer(a, when, interval) ==
  /\ Len(pending) < MaxPending
  /\ NewTimer(a, when, interval)
  /\ pending' = Append(pending, [op |-> "add", id |-> <<a, created + 1>>])
  /\ UNCHANGED <<wall, alarm, reported, loopVars, ran, cancelled, overtaken>>

\* The loop thread runs user code: the callback of a timer, or anything else
\* outside handleRead().
UserCode == callingExpiredTimers => inCallback

\* addTimer() on the loop thread.
LoopAddTimer(a, when, interval) ==
  /\ UserCode
  /\ NewTimer(a, when, interval)
  /\ AddTimerInLoop(a, when, created + 1)
  /\ UNCHANGED <<wall, reported, callingExpiredTimers, cancelingTimers,
                 readTime, expired, unrun, inCallback, pending, ran, cancelled,
                 overtaken>>

-----------------------------------------------------------------------------
(* cancel().                                                               *)

\* Mutant of CancelInLoop: the timer is looked up by its address alone.
CancelInLoopByAddress(a, sequence) ==
  /\ cancelled' = cancelled \cup {sequence}
  /\ overtaken' = overtaken
  /\ IF \E entry \in timers : entry[2] = a
       THEN /\ timers' = {entry \in timers : entry[2] # a}
            /\ activeTimers' = {id \in activeTimers : id[1] # a}
            /\ heap' = [heap EXCEPT ![a] = NoTimer]
       ELSE UNCHANGED <<timers, activeTimers, heap>>
  /\ UNCHANGED cancelingTimers

\* Mutant of CancelInLoop: a timer that is being called is deleted, too.
CancelInLoopDeletes(a, sequence) ==
  /\ cancelled' = cancelled \cup {sequence}
  /\ overtaken' = overtaken
  /\ timers' = timers \ {<<heap[a].expiration, a>>}
  /\ activeTimers' = activeTimers \ {<<a, sequence>>}
  /\ heap' = IF heap[a].sequence = sequence
               THEN [heap EXCEPT ![a] = NoTimer] ELSE heap
  /\ UNCHANGED cancelingTimers

\* cancelInLoop: a timer in the indexes is erased and deleted; one that is
\* not is remembered, if expired timers are being called.
CancelInLoop(a, sequence) ==
  /\ cancelled' = cancelled \cup {sequence}
  /\ overtaken' = IF <<a, sequence>> \in Adding THEN overtaken \cup {sequence}
                  ELSE overtaken \ {sequence}
  /\ \/ /\ <<a, sequence>> \in activeTimers
        /\ timers' = timers \ {<<heap[a].expiration, a>>}
        /\ activeTimers' = activeTimers \ {<<a, sequence>>}
        /\ heap' = [heap EXCEPT ![a] = NoTimer]
        /\ UNCHANGED cancelingTimers
     \/ /\ <<a, sequence>> \notin activeTimers
        /\ cancelingTimers' = IF callingExpiredTimers
                                THEN cancelingTimers \cup {<<a, sequence>>}
                                ELSE cancelingTimers
        /\ UNCHANGED <<timers, activeTimers, heap>>

\* cancel() on another thread queues cancelInLoop.
Cancel(a, sequence) ==
  /\ Len(pending) < MaxPending
  /\ <<a, sequence>> \in ids
  /\ pending' = Append(pending, [op |-> "cancel", id |-> <<a, sequence>>])
  /\ UNCHANGED <<wall, alarm, reported, heap, created, loopVars, ids, periodic,
                 ran, cancelled, overtaken>>

\* cancel() on the loop thread.
LoopCancel(a, sequence) ==
  /\ UserCode
  /\ <<a, sequence>> \in ids
  /\ CancelInLoop(a, sequence)
  /\ UNCHANGED <<wall, alarm, reported, created, callingExpiredTimers,
                 readTime, expired, unrun, inCallback, pending, ids, periodic,
                 ran>>

-----------------------------------------------------------------------------
(* The loop thread.                                                        *)

\* poll() reports the timerfd.
PollTimerfd ==
  /\ ~callingExpiredTimers
  /\ alarm = 0
  /\ ~reported
  /\ reported' = TRUE
  /\ UNCHANGED <<wall, alarm, heap, created, loopVars, pending, ids, periodic,
                 ran, cancelled, overtaken>>

\* getExpired: the timers due at time t.
Due(t) == {a \in Addrs : \E when \in 0 .. t : <<when, a>> \in timers}

\* Mutant of HandleRead: the expired timers stay in activeTimers_.
HandleReadKeepsActive ==
  /\ reported /\ ~callingExpiredTimers
  /\ reported' = FALSE
  /\ alarm' = IF alarm = 0 THEN Disarmed ELSE alarm
  /\ readTime' = wall
  /\ expired' = Due(wall)
  /\ unrun' = Due(wall)
  /\ timers' = {entry \in timers : entry[1] > wall}
  /\ callingExpiredTimers' = TRUE
  /\ cancelingTimers' = {}
  /\ UNCHANGED <<wall, heap, created, activeTimers, inCallback, pending, ids,
                 periodic, ran, cancelled, overtaken>>

\* handleRead() up to the first callback: readTimerfd() finds something unless
\* another handler of this poll has reset the timerfd; getExpired() moves the
\* due timers out of both indexes.
HandleRead ==
  /\ reported /\ ~callingExpiredTimers
  /\ reported' = FALSE
  /\ alarm' = IF alarm = 0 THEN Disarmed ELSE alarm
  /\ readTime' = wall
  /\ expired' = Due(wall)
  /\ unrun' = Due(wall)
  /\ timers' = {entry \in timers : entry[1] > wall}
  /\ activeTimers' = {id \in activeTimers :
                        ~(id[1] \in Due(wall) /\ heap[id[1]].sequence = id[2])}
  /\ callingExpiredTimers' = TRUE
  /\ cancelingTimers' = {}
  /\ UNCHANGED <<wall, heap, created, inCallback, pending, ids, periodic, ran,
                 cancelled, overtaken>>

\* it->second->run(), in the order of the expirations; the order of addresses
\* among equals is the allocator's.
RunTimer(a) ==
  /\ callingExpiredTimers /\ ~inCallback
  /\ a \in unrun
  /\ \A b \in unrun : heap[a].expiration <= heap[b].expiration
  /\ unrun' = unrun \ {a}
  /\ inCallback' = TRUE
  /\ ran' = ran \cup {heap[a].sequence}
  /\ UNCHANGED <<wall, alarm, reported, heap, created, timers, activeTimers,
                 callingExpiredTimers, cancelingTimers, readTime, expired,
                 pending, ids, periodic, cancelled, overtaken>>

\* The callback returns.
EndCallback ==
  /\ inCallback
  /\ inCallback' = FALSE
  /\ UNCHANGED <<wall, alarm, reported, heap, created, timers, activeTimers,
                 callingExpiredTimers, cancelingTimers, readTime, expired,
                 unrun, pending, ids, periodic, ran, cancelled, overtaken>>

\* The expired timers that reset() restarts.
Restarted ==
  {a \in expired : /\ heap[a].interval > 0
                   /\ <<a, heap[a].sequence>> \notin cancelingTimers}

\* Mutant of Rearm: the timerfd is armed only if some timer was restarted.
RearmIfRestarted(S) ==
  \/ \E first \in S :
       /\ \A entry \in S : first[1] <= entry[1]
       /\ alarm' = IF Restarted # {} THEN TicksUntil(first[1]) ELSE alarm
  \/ S = {} /\ UNCHANGED alarm

\* The end of reset(): the timerfd is armed for the earliest of S, unless its
\* expiration is the invalid Timestamp.
Rearm(S) ==
  \/ \E first \in S :
       /\ \A entry \in S : first[1] <= entry[1]
       /\ alarm' = IF first[1] > 0 THEN TicksUntil(first[1]) ELSE alarm
  \/ S = {} /\ UNCHANGED alarm

\* Timer::restart()
NextExpiration(a) == readTime + heap[a].interval

\* reset(): restart or delete each expired timer, then arm the timerfd.
Reset ==
  /\ callingExpiredTimers /\ ~inCallback
  /\ unrun = {}
  /\ callingExpiredTimers' = FALSE
  /\ expired' = {}
  /\ heap' = [a \in Addrs |->
                IF a \in Restarted
                  THEN [heap[a] EXCEPT !.expiration = NextExpiration(a)]
                ELSE IF a \in expired THEN NoTimer
                ELSE heap[a]]
  /\ timers' = timers \cup {<<NextExpiration(a), a>> : a \in Restarted}
  /\ activeTimers' =
       activeTimers \cup {<<a, heap[a].sequence>> : a \in Restarted}
  /\ Rearm(timers')
  /\ UNCHANGED <<wall, reported, created, cancelingTimers, readTime, unrun,
                 inCallback, pending, ids, periodic, ran, cancelled,
                 overtaken>>

\* doPendingFunctors runs the oldest functor, after the events of this poll.
RunFunctor ==
  /\ ~callingExpiredTimers /\ ~reported
  /\ pending # <<>>
  /\ pending' = Tail(pending)
  /\ LET f == Head(pending)
         a == f.id[1]
         sequence == f.id[2]
     IN \/ /\ f.op = "add"
           /\ AddTimerInLoop(a, heap[a].expiration, sequence)
           /\ UNCHANGED <<heap, cancelingTimers, cancelled, overtaken>>
        \/ /\ f.op = "cancel"
           /\ CancelInLoop(a, sequence)
           /\ UNCHANGED alarm
  /\ UNCHANGED <<wall, reported, created, callingExpiredTimers, readTime,
                 expired, unrun, inCallback, ids, periodic, ran>>

-----------------------------------------------------------------------------
(* The clocks.                                                             *)

\* A tick of both clocks.  The wall clock stops at MaxTime, the timerfd's
\* clock does not.
Tick ==
  /\ wall' = IF wall < MaxTime THEN wall + 1 ELSE wall
  /\ alarm' = IF alarm > 0 THEN alarm - 1 ELSE alarm
  /\ UNCHANGED <<reported, heap, created, loopVars, pending, ids, periodic,
                 ran, cancelled, overtaken>>

\* The wall clock is set back; the timerfd counts on.
StepBack ==
  /\ StepsBack
  /\ wall > 1
  /\ wall' = wall - 1
  /\ UNCHANGED <<alarm, reported, heap, created, loopVars, pending, ids,
                 periodic, ran, cancelled, overtaken>>
-----------------------------------------------------------------------------
\* TimerQueue::handleRead() from its call to its return.
ReadStep ==
  \/ HandleRead
  \/ \E a \in Addrs : RunTimer(a)
  \/ EndCallback
  \/ Reset

LoopStep == PollTimerfd \/ ReadStep \/ RunFunctor

\* Calls of user code, on any thread.
UserCall ==
  \/ \E a \in Addrs, when \in Expirations, interval \in Intervals :
       AddTimer(a, when, interval) \/ LoopAddTimer(a, when, interval)
  \/ \E id \in ids : Cancel(id[1], id[2]) \/ LoopCancel(id[1], id[2])

Next == LoopStep \/ UserCall \/ Tick \/ StepBack

Spec == Init /\ [][Next]_vars

\* The loop thread keeps being scheduled, callbacks return, time passes.  Each
\* turn of loop() polls once and runs one batch of functors, so neither of the
\* two starves the other.
FairSpec ==
  /\ Spec
  /\ WF_vars(PollTimerfd)
  /\ WF_vars(ReadStep)
  /\ WF_vars(RunFunctor)
  /\ WF_vars(Tick)
-----------------------------------------------------------------------------
\* The asserts on timers_.size() == activeTimers_.size() and on every insert
\* and erase, in full: both indexes hold the same timers, each at its current
\* expiration, so that cancelInLoop and getExpired always find what they erase.
IndexesAgree ==
  /\ \A entry \in timers :
       /\ Live(entry[2])
       /\ heap[entry[2]].expiration = entry[1]
       /\ <<entry[2], heap[entry[2]].sequence>> \in activeTimers
  /\ \A id \in activeTimers :
       /\ heap[id[1]].sequence = id[2]
       /\ <<heap[id[1]].expiration, id[1]>> \in timers

\* Raw Timer pointers: what getExpired's vector or a queued addTimerInLoop
\* points to is a live timer that no index holds at the same time.
PointersOwned ==
  /\ \A a \in expired : Live(a) /\ <<a, heap[a].sequence>> \notin activeTimers
  /\ \A id \in Adding : /\ heap[id[1]].sequence = id[2]
                        /\ id \notin activeTimers
                        /\ id[1] \notin expired

\* A timer that was neither cancelled nor run as a one-shot is still queued,
\* indexed or in the batch being called: a TimerId whose address has been
\* reused cancels nothing, and restart() loses nothing.
NoTimerLost ==
  \A id \in ids :
    \/ id[2] \in cancelled \cup (ran \ periodic)
    \/ id \in activeTimers \cup Adding
    \/ id[1] \in expired /\ heap[id[1]].sequence = id[2]

\* Whenever timers wait and handleRead() is not under way, the timerfd fires,
\* and no later than the earliest of them is due.
TimerfdArmed ==
  ~callingExpiredTimers =>
    \A entry \in timers : alarm \in 0 .. TicksUntil(entry[1])

\* A timer that cancelInLoop was called for is in neither index again, repeating
\* or not, whether it was waiting or being called, unless the cancel came before
\* the timer itself.
CancelledStaysOut ==
  \A id \in activeTimers : id[2] \in cancelled => id[2] \in overtaken

\* Every timer the loop has runs or is cancelled.
EveryTimerRuns ==
  \A i \in 1 .. MaxCreated :
    (\E entry \in timers : heap[entry[2]].sequence = i /\ entry[1] <= MaxTime)
      ~> i \in ran \cup cancelled

\* Every timer added is where its state says, and the timerfd is set for it
\* (addTimerInLoop, cancelInLoop, getExpired, reset).
TimersKept == NoTimerLost /\ CancelledStaysOut /\ TimerfdArmed
=============================================================================
