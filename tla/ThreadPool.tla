----------------------------- MODULE ThreadPool -----------------------------
(***************************************************************************)
(* muduo::ThreadPool: threads that call run(), workers, and stop().  A     *)
(* section under mutex_ is one step (BlockingQueue has the lock in full);  *)
(* runInThread() and run() read running_ and threads_ without it.          *)
(***************************************************************************)
EXTENDS Integers, Sequences, FiniteSets, SequencesExt

CONSTANTS
  Workers,     \* the threads start() may create, 1 .. n
  Submitters,  \* threads that call run()
  Tasks,       \* what they submit, each once
  QueueSizes   \* values of maxQueueSize_ to try, 0 for no bound

ASSUME PoolAssumption ==
  /\ IsFiniteSet(Workers) /\ Workers \subseteq Nat
  /\ IsFiniteSet(Submitters)
  /\ QueueSizes \subseteq Nat /\ 0 \in QueueSizes

VARIABLES
  maxQueueSize, \* maxQueueSize_
  running,      \* running_
  workerPc,     \* where each worker is, "none" if it was not created
  submitPc,     \* where each thread that calls run() is
  submits,      \* the task it hands over
  tasks,        \* queue_
  toStart,      \* the workers start() has still to create
  stopPc,       \* stop(): "no", "joining" or "stopped"
  accepted,     \* history: tasks pushed, oldest first
  begun,        \* history: tasks begun by workers, oldest first
  late          \* history: tasks each worker has begun after stop()

poolStateVars ==
  <<maxQueueSize, running, workerPc, submitPc, submits, tasks, toStart, stopPc,
    accepted, begun, late>>

NoTask == "no task"

PoolTypeOK ==
  /\ maxQueueSize \in QueueSizes
  /\ running \in BOOLEAN
  /\ workerPc \in [Workers -> {"none", "loop", "take", "waiting", "task",
                               "ended"}]
  /\ submitPc \in [Submitters -> {"idle", "run", "waiting"}]
  /\ submits \in [Submitters -> Tasks \cup {NoTask}]
  /\ tasks \in Seq(Tasks)
  /\ maxQueueSize > 0 => Len(tasks) <= maxQueueSize
  /\ toStart \subseteq Workers
  /\ stopPc \in {"no", "joining", "stopped"}
  /\ late \in [Workers -> Nat]

PoolInit ==
  /\ maxQueueSize = 0
  /\ running = FALSE
  /\ workerPc = [w \in Workers |-> "none"]
  /\ submitPc = [s \in Submitters |-> "idle"]
  /\ submits = [s \in Submitters |-> NoTask]
  /\ tasks = <<>> /\ accepted = <<>> /\ begun = <<>>
  /\ toStart = {} /\ stopPc = "no"
  /\ late = [w \in Workers |-> 0]

HasThreads == \E w \in Workers : workerPc[w] # "none"
WaitingWorkers == {w \in Workers : workerPc[w] = "waiting"}
WaitingSubmitters == {s \in Submitters : submitPc[s] = "waiting"}
TakingWorkers == {w \in Workers : workerPc[w] = "take"}
RunningSubmitters == {s \in Submitters : submitPc[s] = "run"}

\* notify(): one of those that wait goes on, if there is one.
NotifyWorker ==
  IF WaitingWorkers = {}
    THEN UNCHANGED workerPc
    ELSE \E w \in WaitingWorkers : workerPc' = [workerPc EXCEPT ![w] = "take"]
NotifySubmitter ==
  IF WaitingSubmitters = {}
    THEN UNCHANGED submitPc
    ELSE \E s \in WaitingSubmitters :
           submitPc' = [submitPc EXCEPT ![s] = "run"]

SetMaxQueueSize(n) ==
  /\ ~running /\ stopPc = "no"
  /\ maxQueueSize' = n
  /\ UNCHANGED <<running, workerPc, submitPc, submits, tasks, toStart, stopPc,
                 accepted, begun, late>>

\* start() sets running_ and creates its threads one by one: the first ones may
\* be waiting for tasks by then.
StartPool(n) ==
  /\ ~running /\ stopPc = "no"
  /\ running' = TRUE
  /\ toStart' = {w \in Workers : w <= n}
  /\ UNCHANGED <<maxQueueSize, workerPc, submitPc, submits, tasks, stopPc,
                 accepted, begun, late>>

CreateWorker(w) ==
  /\ w \in toStart
  /\ \A v \in toStart : w <= v
  /\ toStart' = toStart \ {w}
  /\ workerPc' = [workerPc EXCEPT ![w] = "loop"]
  /\ UNCHANGED <<maxQueueSize, running, submitPc, submits, tasks, stopPc,
                 accepted, begun, late>>

\* Mutant of StopPool: one worker is told.
StopPoolNotifiesOne ==
  /\ running /\ toStart = {}
  /\ running' = FALSE
  /\ NotifyWorker
  /\ stopPc' = "joining"
  /\ UNCHANGED <<maxQueueSize, submitPc, submits, toStart, tasks, accepted,
                 begun, late>>

\* stop(), also called by the destructor, up to the joins; start() has returned.
StopPool ==
  /\ running /\ toStart = {}
  /\ running' = FALSE
  /\ workerPc' = [w \in Workers |->
       IF workerPc[w] = "waiting" THEN "take" ELSE workerPc[w]]
  /\ stopPc' = "joining"
  /\ UNCHANGED <<maxQueueSize, submitPc, submits, toStart, tasks, accepted,
                 begun, late>>

JoinWorkers ==
  /\ stopPc = "joining"
  /\ \A w \in Workers : workerPc[w] \in {"none", "ended"}
  /\ stopPc' = "stopped"
  /\ UNCHANGED <<maxQueueSize, running, workerPc, submitPc, submits, toStart,
                 tasks, accepted, begun, late>>

-----------------------------------------------------------------------------
(* run().                                                                  *)

\* A pool without threads runs the task at once; nothing of it remains.
Submit(s, task) ==
  /\ running \/ stopPc # "no"
  /\ toStart = {}
  /\ submitPc[s] = "idle" /\ HasThreads
  /\ task \notin ToSet(accepted) \cup {submits[r] : r \in Submitters}
  /\ submitPc' = [submitPc EXCEPT ![s] = "run"]
  /\ submits' = [submits EXCEPT ![s] = task]
  /\ UNCHANGED <<maxQueueSize, running, workerPc, tasks, toStart, stopPc,
                 accepted, begun, late>>

IsPoolFull == maxQueueSize > 0 /\ Len(tasks) >= maxQueueSize

RunWaits(s) ==
  /\ submitPc[s] = "run" /\ IsPoolFull
  /\ submitPc' = [submitPc EXCEPT ![s] = "waiting"]
  /\ UNCHANGED <<maxQueueSize, running, workerPc, submits, tasks, toStart,
                 stopPc, accepted, begun, late>>

\* Mutant of RunPushes: notEmpty_ is notified only when the queue was empty.
RunPushesNotifiesWhenEmpty(s) ==
  /\ submitPc[s] = "run" /\ ~IsPoolFull
  /\ tasks' = Append(tasks, submits[s])
  /\ accepted' = Append(accepted, submits[s])
  /\ submits' = [submits EXCEPT ![s] = NoTask]
  /\ submitPc' = [submitPc EXCEPT ![s] = "idle"]
  /\ IF tasks = <<>> THEN NotifyWorker ELSE UNCHANGED workerPc
  /\ UNCHANGED <<maxQueueSize, running, toStart, stopPc, begun, late>>

RunPushes(s) ==
  /\ submitPc[s] = "run" /\ ~IsPoolFull
  /\ tasks' = Append(tasks, submits[s])
  /\ accepted' = Append(accepted, submits[s])
  /\ submits' = [submits EXCEPT ![s] = NoTask]
  /\ submitPc' = [submitPc EXCEPT ![s] = "idle"]
  /\ NotifyWorker
  /\ UNCHANGED <<maxQueueSize, running, toStart, stopPc, begun, late>>

-----------------------------------------------------------------------------
(* Workers.                                                                *)

\* The test of running_ in runInThread(), without the lock.
WorkerLoop(w) ==
  /\ workerPc[w] = "loop"
  /\ workerPc' = [workerPc EXCEPT ![w] = IF running THEN "take" ELSE "ended"]
  /\ UNCHANGED <<maxQueueSize, running, submitPc, submits, tasks, toStart,
                 stopPc, accepted, begun, late>>

TakeWaits(w) ==
  /\ workerPc[w] = "take" /\ tasks = <<>> /\ running
  /\ workerPc' = [workerPc EXCEPT ![w] = "waiting"]
  /\ UNCHANGED <<maxQueueSize, running, submitPc, submits, tasks, toStart,
                 stopPc, accepted, begun, late>>

\* take() returns no task: the pool has been stopped and the queue is empty.
TakeNothing(w) ==
  /\ workerPc[w] = "take" /\ tasks = <<>> /\ ~running
  /\ workerPc' = [workerPc EXCEPT ![w] = "loop"]
  /\ UNCHANGED <<maxQueueSize, running, submitPc, submits, tasks, toStart,
                 stopPc, accepted, begun, late>>

\* take() returns a task if there is one, whether the pool has been stopped or
\* not.
TakeTask(w) ==
  /\ workerPc[w] = "take" /\ tasks # <<>>
  /\ tasks' = Tail(tasks)
  /\ begun' = Append(begun, Head(tasks))
  /\ workerPc' = [workerPc EXCEPT ![w] = "task"]
  /\ late' = IF running THEN late ELSE [late EXCEPT ![w] = @ + 1]
  /\ IF maxQueueSize > 0 THEN NotifySubmitter ELSE UNCHANGED submitPc
  /\ UNCHANGED <<maxQueueSize, running, submits, toStart, stopPc, accepted>>

TaskEnds(w) ==
  /\ workerPc[w] = "task"
  /\ workerPc' = [workerPc EXCEPT ![w] = "loop"]
  /\ UNCHANGED <<maxQueueSize, running, submitPc, submits, tasks, toStart,
                 stopPc, accepted, begun, late>>

\* pthread_cond_wait() may return without a notify.
WakeSpuriously ==
  \/ /\ \E w \in WaitingWorkers : workerPc' = [workerPc EXCEPT ![w] = "take"]
     /\ UNCHANGED <<maxQueueSize, running, submitPc, submits, tasks, toStart,
                    stopPc, accepted, begun, late>>
  \/ /\ \E s \in WaitingSubmitters :
          submitPc' = [submitPc EXCEPT ![s] = "run"]
     /\ UNCHANGED <<maxQueueSize, running, workerPc, submits, tasks, toStart,
                    stopPc, accepted, begun, late>>

WorkerStep(w) ==
  WorkerLoop(w) \/ TakeWaits(w) \/ TakeNothing(w) \/ TakeTask(w) \/ TaskEnds(w)
SubmitStep(s) == RunWaits(s) \/ RunPushes(s)

PoolNext ==
  \/ \E n \in QueueSizes : SetMaxQueueSize(n)
  \/ \E n \in {0} \cup Workers : StartPool(n)
  \/ \E w \in Workers : CreateWorker(w)
  \/ StopPool \/ JoinWorkers
  \/ \E s \in Submitters : SubmitStep(s) \/ \E task \in Tasks : Submit(s, task)
  \/ \E w \in Workers : WorkerStep(w)
  \/ WakeSpuriously

PoolSpec == PoolInit /\ [][PoolNext]_poolStateVars

-----------------------------------------------------------------------------
(* Properties                                                              *)

\* One notify() per push and per take is enough, whichever thread it wakes and
\* whoever comes first (ThreadPool.cc:73, :88).
PoolWakes ==
  /\ running /\ WaitingWorkers # {} =>
       Cardinality(TakingWorkers) >= Len(tasks)
  /\ WaitingSubmitters # {} =>
       Cardinality(RunningSubmitters) >= maxQueueSize - Len(tasks)

\* Workers begin the tasks in the order in which run() accepted them, each
\* once.  take() looks at the queue before it looks at running_, so a worker may
\* begin a task after the pool was stopped, but it tests running_ before the
\* next one and begins no second (ThreadPool.cc:80-86, :104); what is left in
\* the queue then is not begun at all.
PoolSound ==
  /\ PoolWakes
  /\ accepted = begun \o tasks
  /\ \A w \in Workers : late[w] <= 1

\* stop() returns although workers wait, and while the pool runs every task
\* is begun and no caller of run() is left waiting; those that wait when it is
\* stopped are (stop() does not notify notFull_, ThreadPool.cc:50).
PoolServes ==
  /\ stopPc = "joining" ~> stopPc = "stopped"
  /\ \A task \in Tasks :
       task \in ToSet(tasks) ~> (task \in ToSet(begun) \/ ~running)
  /\ \A s \in Submitters :
       submitPc[s] = "waiting" ~> (submitPc[s] # "waiting" \/ ~running)
=============================================================================
