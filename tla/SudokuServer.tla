---------------------------- MODULE SudokuServer ----------------------------
(***************************************************************************)
(* The servers in front of the solver, on one client's connection:         *)
(* server_basic solves within onMessage(), server_threadpool hands the     *)
(* boards to a pool with a bounded queue, whose threads send the answers.  *)
(* A request is as many units as it is long, the last one its CRLF.        *)
(***************************************************************************)
EXTENDS Integers, Sequences, FiniteSets, SequencesExt

CONSTANTS
  BoardLen,   \* kCells + 2
  MaxDataLen, \* MAX_DATA_LEN
  Solvers,    \* threads of the pool; its queue has as many places
  MaxAsked    \* bound: requests of the client

ASSUME SolverAssumption == {BoardLen, MaxDataLen, MaxAsked} \subseteq Nat

VARIABLES
  pooled,   \* the program is server_threadpool
  asked,    \* what the client sends: where each request ends, and whether it
            \* is good
  sent,     \* units of it that have arrived
  unread,   \* units in the input buffer
  lenAtStart, \* len of the onMessage() that runs, or Absent
  sudokuConn, \* "kConnected", "kDisconnecting", "kDisconnected", "removed" from
              \* the server's map, "destroyed"
  boards,   \* queue_ of the pool
  solving,  \* what each thread of the pool works on, 0 for nothing
  sending,  \* threads that have seen the connection connected
  sendings, \* functors of the loop: answers to be sent, 0 for connectDestroyed()
  answers,  \* history: answers sent, by request, 0 for "Bad request!"
  burst,    \* history: MAX_DATA_LEN units were there at once
  goneEarly, \* history: the client went when a thread had seen it connected
  lostConn  \* history: a functor found its connection deleted

solverVars ==
  <<pooled, asked, sent, unread, lenAtStart, sudokuConn, boards, solving,
    sending, sendings, answers, burst, goneEarly, lostConn>>

Absent == -1
Wanted == 1..Len(asked)

\* Units of the stream before the end of request i.
EndOf(i) == IF i = 0 THEN 0 ELSE asked[i].end

\* Sizes of requests: a good one may have an id in front.
Sizes(good) == IF good THEN {BoardLen, BoardLen + 1} ELSE {1, BoardLen + 1}

\* Up to n requests, one behind the other.
Askings(n) ==
  {r \in UNION {[1..k -> [end : 1..n * (BoardLen + 1), good : BOOLEAN]] : k \in 1..n} :
     /\ \A i, j \in DOMAIN r : i < j => r[i].end < r[j].end
     /\ \A i \in DOMAIN r :
          r[i].end - (IF i = 1 THEN 0 ELSE r[i - 1].end) \in Sizes(r[i].good)}

SolverTypeOK ==
  /\ pooled \in BOOLEAN /\ asked \in Askings(MaxAsked)
  /\ sent \in 0..EndOf(Len(asked)) /\ unread \in 0..sent
  /\ lenAtStart \in {Absent} \cup 0..EndOf(Len(asked))
  /\ sudokuConn \in {"kConnected", "kDisconnecting", "kDisconnected", "removed",
                     "destroyed"}
  /\ boards \in Seq(Wanted) /\ sendings \in Seq(0..Len(asked))
  /\ solving \in [Solvers -> 0..Len(asked)] /\ sending \subseteq Solvers
  /\ answers \in Seq(0..Len(asked))
  /\ {burst, goneEarly, lostConn} \subseteq BOOLEAN

SolverInit ==
  /\ pooled \in BOOLEAN
  /\ asked \in Askings(MaxAsked)
  /\ sent = 0 /\ unread = 0 /\ lenAtStart = Absent
  /\ sudokuConn = "kConnected"
  /\ boards = <<>> /\ solving = [s \in Solvers |-> 0] /\ sending = {}
  /\ sendings = <<>> /\ answers = <<>>
  /\ burst = FALSE /\ goneEarly = FALSE /\ lostConn = FALSE

-----------------------------------------------------------------------------
(* onMessage().                                                            *)

\* The request that the input buffer begins with.
FirstUnread == CHOOSE i \in Wanted :
  EndOf(i - 1) <= sent - unread /\ sent - unread < EndOf(i)

\* findCRLF() finds one.
HasCRLF == unread > 0 /\ EndOf(FirstUnread) <= sent

\* A read event may come.
Alive == lenAtStart = Absent /\ sudokuConn \in {"kConnected", "kDisconnecting"}

Receive(n) ==
  /\ Alive
  /\ sent + n <= EndOf(Len(asked)) /\ sent' = sent + n
  /\ unread' = unread + n
  /\ lenAtStart' = unread'
  /\ burst' = (burst \/ unread' >= MaxDataLen)
  /\ UNCHANGED <<pooled, asked, sudokuConn, boards, solving, sending, sendings,
                 answers, goneEarly, lostConn>>

\* The condition of the while: of the length before the first round.
Continues == lenAtStart >= BoardLen

\* send() on the connection's own loop.
SendNow(answer) ==
  answers' = IF sudokuConn = "kConnected"
               THEN Append(answers, answer) ELSE answers

ShuttingDown(conn) == IF conn = "kConnected" THEN "kDisconnecting" ELSE conn

\* A good request.
AskSolver ==
  /\ lenAtStart # Absent /\ Continues /\ HasCRLF /\ asked[FirstUnread].good
  /\ unread' = sent - EndOf(FirstUnread)
  /\ IF pooled
       THEN /\ Len(boards) < Cardinality(Solvers)
            /\ boards' = Append(boards, FirstUnread)
            /\ UNCHANGED answers
       ELSE SendNow(FirstUnread) /\ UNCHANGED boards
  /\ UNCHANGED <<pooled, asked, sent, lenAtStart, sudokuConn, solving, sending,
                 sendings, burst, goneEarly, lostConn>>

Refuse ==
  /\ lenAtStart # Absent /\ Continues /\ HasCRLF /\ ~asked[FirstUnread].good
  /\ unread' = sent - EndOf(FirstUnread)
  /\ SendNow(0)
  /\ sudokuConn' = ShuttingDown(sudokuConn)
  /\ UNCHANGED <<pooled, asked, sent, lenAtStart, boards, solving, sending,
                 sendings, burst, goneEarly, lostConn>>

\* There is no request, or no whole one: a length that was big is taken for
\* that of a request.
StopReading ==
  /\ lenAtStart # Absent /\ ~(Continues /\ HasCRLF)
  /\ sudokuConn' = IF Continues /\ lenAtStart >= MaxDataLen
                     THEN ShuttingDown(sudokuConn) ELSE sudokuConn
  /\ lenAtStart' = Absent
  /\ UNCHANGED <<pooled, asked, sent, unread, boards, solving, sending,
                 sendings, answers, burst, goneEarly, lostConn>>

-----------------------------------------------------------------------------
(* resolve() on a thread of the pool, the loop, and the client's end.      *)

TakeBoard(s) ==
  /\ solving[s] = 0 /\ boards # <<>>
  /\ solving' = [solving EXCEPT ![s] = Head(boards)]
  /\ boards' = Tail(boards)
  /\ UNCHANGED <<pooled, asked, sent, unread, lenAtStart, sudokuConn, sending,
                 sendings, answers, burst, goneEarly, lostConn>>

\* connected(), and the test in send().
SolvedBoard(s) ==
  /\ solving[s] # 0 /\ s \notin sending
  /\ IF sudokuConn = "kConnected"
       THEN sending' = sending \cup {s} /\ UNCHANGED solving
       ELSE solving' = [solving EXCEPT ![s] = 0] /\ UNCHANGED sending
  /\ UNCHANGED <<pooled, asked, sent, unread, lenAtStart, sudokuConn, boards,
                 sendings, answers, burst, goneEarly, lostConn>>

SendSolved(s) ==
  /\ s \in sending
  /\ sendings' = Append(sendings, solving[s])
  /\ sending' = sending \ {s}
  /\ solving' = [solving EXCEPT ![s] = 0]
  /\ UNCHANGED <<pooled, asked, sent, unread, lenAtStart, sudokuConn, boards,
                 answers, burst, goneEarly, lostConn>>

\* Nothing refers to the connection any more.
ConnDeleted ==
  /\ sudokuConn = "destroyed" /\ boards = <<>>
  /\ \A s \in Solvers : solving[s] = 0

\* sendInLoop(), by a raw address; once shutdown() was called it depends on
\* whether shutdownWrite() still waits for output.
RunSending ==
  /\ lenAtStart = Absent /\ sendings # <<>> /\ Head(sendings) # 0
  /\ sendings' = Tail(sendings)
  /\ lostConn' = (lostConn \/ ConnDeleted)
  /\ \/ SendNow(Head(sendings))
     \/ /\ sudokuConn = "kDisconnecting"
        /\ answers' = Append(answers, Head(sendings))
  /\ UNCHANGED <<pooled, asked, sent, unread, lenAtStart, sudokuConn, boards,
                 solving, sending, burst, goneEarly>>

ClientGone ==
  /\ Alive
  /\ sudokuConn' = "kDisconnected"
  /\ goneEarly' = (sending # {})
  /\ UNCHANGED <<pooled, asked, sent, unread, lenAtStart, boards, solving,
                 sending, sendings, answers, burst, lostConn>>

\* removeConnectionInLoop() on the server's loop.
ConnRemoved ==
  /\ sudokuConn = "kDisconnected"
  /\ sudokuConn' = "removed"
  /\ sendings' = Append(sendings, 0)
  /\ UNCHANGED <<pooled, asked, sent, unread, lenAtStart, boards, solving,
                 sending, answers, burst, goneEarly, lostConn>>

ConnDestroyed ==
  /\ lenAtStart = Absent /\ sendings # <<>> /\ Head(sendings) = 0
  /\ sendings' = Tail(sendings)
  /\ sudokuConn' = "destroyed"
  /\ UNCHANGED <<pooled, asked, sent, unread, lenAtStart, boards, solving,
                 sending, answers, burst, goneEarly, lostConn>>

SolverNext ==
  \/ \E n \in 1..EndOf(Len(asked)) : Receive(n)
  \/ AskSolver \/ Refuse \/ StopReading
  \/ \E s \in Solvers : TakeBoard(s) \/ SolvedBoard(s) \/ SendSolved(s)
  \/ RunSending \/ ClientGone \/ ConnRemoved \/ ConnDestroyed

SolverSpec == SolverInit /\ [][SolverNext]_solverVars

-----------------------------------------------------------------------------
(* Properties                                                              *)

\* Each good request is answered once, on one thread in order, and as long as
\* the server has not refused one of the client's it has answered all that
\* arrived, when nothing is under way.  It turns away only who sent a bad one
\* or so much at once that len, which is not counted again for the rest of
\* the buffer, reaches MAX_DATA_LEN (server_threadpool.cpp:43, :48).  A queued
\* answer finds its connection unless the client went between connected() and
\* the push (TcpConnection.cc:127).
SolverServes ==
  LET given == {answers[j] : j \in DOMAIN answers} \ {0}
      whole == {i \in Wanted : EndOf(i) <= sent}
      quiet == /\ lenAtStart = Absent /\ boards = <<>> /\ sendings = <<>>
               /\ \A s \in Solvers : solving[s] = 0
  IN /\ \A j, k \in DOMAIN answers :
          j < k /\ answers[j] # 0 /\ answers[k] # 0 =>
            /\ answers[j] # answers[k]
            /\ ~pooled => answers[j] < answers[k]
     /\ given \subseteq {i \in whole : asked[i].good}
     /\ sudokuConn = "kConnected" /\ quiet => given = {i \in whole : asked[i].good}
     /\ sudokuConn = "kDisconnecting" =>
          burst \/ \E i \in whole : ~asked[i].good
     /\ lostConn => pooled /\ goneEarly
=============================================================================
