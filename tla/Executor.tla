------------------------------ MODULE Executor ------------------------------
(***************************************************************************)
(* What an EventLoop promises about the functors handed to it: they run    *)
(* one at a time, each at most once, and those that are queued run in the  *)
(* order in which they were queued.  A functor handed over by the loop     *)
(* thread itself may run at once, ahead of the queue.  While the loop is   *)
(* running it owes every queued functor a run; once it has returned from   *)
(* loop() it owes nothing, and the queue simply stays.                     *)
(***************************************************************************)
EXTENDS Sequences, Functions

CONSTANT Functors

VARIABLES
  queue,     \* functors handed over and not yet run, oldest first
  executed,  \* functors run so far, oldest first
  running    \* the loop is inside loop()

vars == <<queue, executed, running>>

TypeOK ==
  /\ queue \in Seq(Functors)
  /\ executed \in Seq(Functors)
  /\ running \in BOOLEAN

Init ==
  /\ queue = <<>>
  /\ executed = <<>>
  /\ running = FALSE

Fresh(f) == f \notin Range(queue) \cup Range(executed)

Submit(f) ==
  /\ Fresh(f)
  /\ queue' = Append(queue, f)
  /\ UNCHANGED <<executed, running>>

\* The oldest queued functor runs.
RunHead ==
  /\ running
  /\ queue # <<>>
  /\ executed' = Append(executed, Head(queue))
  /\ queue' = Tail(queue)
  /\ UNCHANGED running

\* A functor of the loop thread runs at once.
RunNow(f) ==
  /\ Fresh(f)
  /\ executed' = Append(executed, f)
  /\ UNCHANGED <<queue, running>>

\* loop() is entered or left.
Switch == running' = ~running /\ UNCHANGED <<queue, executed>>

Next ==
  \/ \E f \in Functors : Submit(f) \/ RunNow(f)
  \/ RunHead
  \/ Switch

Safe == Init /\ [][Next]_vars

\* A functor that waits while the loop runs is run in the end.
Fair == WF_vars(RunHead)
=============================================================================
