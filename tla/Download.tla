------------------------------ MODULE Download ------------------------------
(***************************************************************************)
(* Servers that send more than fits into one write: download sends a file  *)
(* at once, download2 and download3 a chunk at a time, the next one when   *)
(* the last has gone, and chargen lines in the same way.  One loop runs    *)
(* all connections; what it queues runs in order.                          *)
(***************************************************************************)
EXTENDS Integers, Sequences, FiniteSets, SequencesExt

CONSTANTS
  MaxDownloads, \* bound: connections
  ChunkSize,    \* kSize
  FileSizes,    \* bound: sizes of the file
  LineLen       \* LINE_LEN: lines that chargen has, of ChunkSize each

ASSUME DownloadAssumption ==
  /\ MaxDownloads \in Nat /\ FileSizes \subseteq Nat
  /\ ChunkSize \in Nat \ {0} /\ LineLen \in Nat \ {0}

VARIABLES
  program,   \* which of the four
  fileSize,  \* the size of the file, of all lines
  down,      \* state of each connection, "new" before, "destroyed" after
  file,      \* its FILE: "none", "open", "closed"
  fileContext, \* its context: "empty", "FILE", "NULL"
  position,  \* how far its FILE has been read
  message,   \* msgTranffered_, of all connections
  output,    \* output buffer
  delivered, \* history: what has been written to the socket
  fin,       \* shutdownWrite() was called
  completions, \* pendingFunctors_ of the loop: a function and its connection
  undefined  \* what the program has done that C++ does not define, or "no"

downloadVars ==
  <<program, fileSize, down, file, fileContext, position, message, output,
    delivered, fin, completions, undefined>>

Downloads == 1..MaxDownloads
Chunked == program \in {"download2", "download3"}

DownloadTypeOK ==
  /\ program \in {"download", "download2", "download3", "chargen"}
  /\ down \in [Downloads -> {"new", "kConnected", "kDisconnecting",
                             "kDisconnected", "destroyed"}]
  /\ file \in [Downloads -> {"none", "open", "closed"}]
  /\ fileContext \in [Downloads -> {"empty", "FILE", "NULL"}]
  /\ position \in [Downloads -> 0..fileSize]
  /\ undefined \in {"no", "closed FILE", "no such line"}

DownloadInit ==
  /\ program \in {"download", "download2", "download3", "chargen"}
  /\ fileSize \in IF program = "chargen" THEN {LineLen * ChunkSize}
                                        ELSE FileSizes
  /\ down = [c \in Downloads |-> "new"]
  /\ file = [c \in Downloads |-> "none"]
  /\ fileContext = [c \in Downloads |-> "empty"]
  /\ position = [c \in Downloads |-> 0]
  /\ message = 0
  /\ output = [c \in Downloads |-> <<>>]
  /\ delivered = [c \in Downloads |-> <<>>]
  /\ fin = [c \in Downloads |-> FALSE]
  /\ completions = <<>>
  /\ undefined = "no"

\* The file, or the lines.
Content == [i \in 1..fileSize |-> i]

\* fread(): what it returns of a file read up to p.
Chunk(p) ==
  SubSeq(Content, p + 1, Min({p + ChunkSize, fileSize}))

\* message_[n]
Line(n) == SubSeq(Content, n * ChunkSize + 1, (n + 1) * ChunkSize)

\* queueInLoop(writeCompleteCallback_); download has none.
Completed(c) ==
  IF program = "download" THEN <<>> ELSE <<<<"onWriteComplete", c>>>>

\* sendInLoop() with that queue: the socket takes a part if nothing waits
\* before it.  A write that fails is the connection's end and left to it.
SendInLoop(c, data, queue) ==
  \E k \in 0..Len(data) :
    /\ output[c] # <<>> => k = 0
    /\ delivered' = [delivered EXCEPT ![c] = @ \o SubSeq(data, 1, k)]
    /\ output' = [output EXCEPT ![c] = @ \o SubSeq(data, k + 1, Len(data))]
    /\ completions' = IF output[c] = <<>> /\ k = Len(data)
                        THEN queue \o Completed(c) ELSE queue

\* send() from a functor, of which the rest of the queue is left.
SendFrom(c, data) ==
  IF down[c] = "kConnected"
    THEN SendInLoop(c, data, Tail(completions))
    ELSE completions' = Tail(completions) /\ UNCHANGED <<output, delivered>>

\* shutdown() after what is sent in the same step.
ShutDown(c) ==
  /\ down' = [down EXCEPT ![c] = IF @ \in {"new", "kConnected"}
                                   THEN "kDisconnecting" ELSE @]
  /\ fin' = [fin EXCEPT ![c] =
               @ \/ (down[c] \in {"new", "kConnected"} /\ output'[c] = <<>>)]

-----------------------------------------------------------------------------
(* onConnection(), connected.                                              *)

Accepted(c) ==
  /\ undefined = "no"
  /\ down[c] = "new" /\ \A d \in 1..c - 1 : down[d] # "new"

\* download: send() of all, shutdown().
DownloadAll(c) ==
  /\ program = "download" /\ Accepted(c)
  /\ SendInLoop(c, Content, completions)
  /\ ShutDown(c)
  /\ UNCHANGED <<program, fileSize, file, fileContext, position, message,
                 undefined>>

\* fopen() fails.
OpenFails(c) ==
  /\ Chunked /\ Accepted(c)
  /\ UNCHANGED <<output, delivered, completions>>
  /\ ShutDown(c)
  /\ UNCHANGED <<program, fileSize, file, fileContext, position, message,
                 undefined>>

\* The first chunk.
OpenAndSend(c) ==
  /\ Chunked /\ Accepted(c)
  /\ file' = [file EXCEPT ![c] = "open"]
  /\ fileContext' = [fileContext EXCEPT ![c] = "FILE"]
  /\ position' = [position EXCEPT ![c] = Len(Chunk(0))]
  /\ SendInLoop(c, Chunk(0), completions)
  /\ down' = [down EXCEPT ![c] = "kConnected"]
  /\ UNCHANGED <<program, fileSize, message, fin, undefined>>

\* chargen: the next line, as far as there is one.
SendFirstLine(c) ==
  /\ program = "chargen" /\ Accepted(c)
  /\ down' = [down EXCEPT ![c] = "kConnected"]
  /\ IF message < LineLen
       THEN /\ message' = message + 1
            /\ SendInLoop(c, Line(message), completions)
            /\ UNCHANGED undefined
       ELSE /\ undefined' = "no such line"
            /\ UNCHANGED <<message, output, delivered, completions>>
  /\ UNCHANGED <<program, fileSize, file, fileContext, position, fin>>

-----------------------------------------------------------------------------
(* onWriteComplete().                                                      *)

CallsBack(c) ==
  /\ undefined = "no"
  /\ completions # <<>> /\ Head(completions) = <<"onWriteComplete", c>>

NextChunk(c) ==
  /\ Chunked /\ fileContext[c] = "FILE" /\ file[c] = "open"
  /\ Chunk(position[c]) # <<>>
  /\ position' = [position EXCEPT ![c] = @ + Len(Chunk(@))]
  /\ SendFrom(c, Chunk(position[c]))
  /\ UNCHANGED <<down, file, fileContext, message, fin, undefined>>

\* fread() returns 0.
FileDone(c) == Chunk(position[c]) = <<>>

FileEnds(c) ==
  /\ Chunked /\ fileContext[c] = "FILE" /\ file[c] = "open"
  /\ FileDone(c)
  /\ completions' = Tail(completions) /\ UNCHANGED <<output, delivered>>
  /\ IF program = "download2"
       THEN /\ file' = [file EXCEPT ![c] = "closed"]
            /\ fileContext' = [fileContext EXCEPT ![c] = "NULL"]
       ELSE UNCHANGED <<file, fileContext>>
  /\ ShutDown(c)
  /\ UNCHANGED <<position, message, undefined>>

\* download2: fread() of the FILE that onConnection() has closed.
ReadClosed(c) ==
  /\ Chunked /\ fileContext[c] = "FILE" /\ file[c] = "closed"
  /\ undefined' = "closed FILE"
  /\ UNCHANGED <<down, file, fileContext, position, message, output, delivered,
                 fin, completions>>

NextLine(c) ==
  /\ program = "chargen" /\ message # LineLen
  /\ message' = message + 1
  /\ SendFrom(c, Line(message))
  /\ UNCHANGED <<down, file, fileContext, position, fin, undefined>>

LinesEnd(c) ==
  /\ program = "chargen" /\ message = LineLen
  /\ completions' = Tail(completions) /\ UNCHANGED <<output, delivered>>
  /\ ShutDown(c)
  /\ UNCHANGED <<file, fileContext, position, message, undefined>>

OnWriteComplete(c) ==
  /\ CallsBack(c)
  /\ \/ NextChunk(c) \/ FileEnds(c) \/ ReadClosed(c)
     \/ NextLine(c) \/ LinesEnd(c)
  /\ UNCHANGED <<program, fileSize>>

-----------------------------------------------------------------------------
(* The connection.                                                         *)

HandleWriteOf(c) ==
  /\ undefined = "no"
  /\ down[c] \in {"kConnected", "kDisconnecting"} /\ output[c] # <<>>
  /\ \E k \in 1..Len(output[c]) :
       LET empty == k = Len(output[c])
       IN /\ delivered' = [delivered EXCEPT ![c] = @ \o SubSeq(output[c], 1, k)]
          /\ output' = [output EXCEPT ![c] = SubSeq(@, k + 1, Len(@))]
          /\ completions' =
               IF empty THEN completions \o Completed(c) ELSE completions
          /\ fin' = [fin EXCEPT ![c] =
                       @ \/ (empty /\ down[c] = "kDisconnecting")]
  /\ UNCHANGED <<program, fileSize, down, file, fileContext, position, message,
                 undefined>>

\* handleClose(): onConnection(), not connected, and removeConnection().
DownloadDown(c) ==
  /\ undefined = "no"
  /\ down[c] \in {"kConnected", "kDisconnecting"}
  /\ down' = [down EXCEPT ![c] = "kDisconnected"]
  /\ file' = IF program = "download2" /\ fileContext[c] = "FILE"
               THEN [file EXCEPT ![c] = "closed"] ELSE file
  /\ completions' = Append(completions, <<"connectDestroyed", c>>)
  /\ UNCHANGED <<program, fileSize, fileContext, position, message, output,
                 delivered, fin, undefined>>

\* The last functor lets go of the connection and with it of its context.
DownloadDestroyed(c) ==
  /\ undefined = "no"
  /\ completions # <<>> /\ Head(completions) = <<"connectDestroyed", c>>
  /\ completions' = Tail(completions)
  /\ down' = [down EXCEPT ![c] = "destroyed"]
  /\ file' = IF program = "download3" /\ fileContext[c] = "FILE"
               THEN [file EXCEPT ![c] = "closed"] ELSE file
  /\ UNCHANGED <<program, fileSize, fileContext, position, message, output,
                 delivered, fin, undefined>>

DownloadNext ==
  \E c \in Downloads :
    \/ DownloadAll(c) \/ OpenFails(c) \/ OpenAndSend(c) \/ SendFirstLine(c)
    \/ OnWriteComplete(c)
    \/ HandleWriteOf(c) \/ DownloadDown(c) \/ DownloadDestroyed(c)

DownloadSpec == DownloadInit /\ [][DownloadNext]_downloadVars

-----------------------------------------------------------------------------
(* Properties                                                              *)

\* Whatever the socket takes at a time, a client gets the beginning of the
\* content and the end of the stream after the whole of it; as long as it is
\* connected something waits for the socket or a write completion is under
\* way; no more than a chunk waits; no FILE stays open.  A closed FILE is read
\* only if the client went while a completion was queued (download2.cpp:53,
\* :73); chargen's lines are one connection's only (simple_chargen.cpp:71).
DownloadRight ==
  LET alone == program = "chargen" =>
        Cardinality({c \in Downloads : down[c] # "new"}) <= 1
  IN /\ \A c \in Downloads :
          /\ alone => IsPrefix(delivered[c] \o output[c], Content)
          /\ alone /\ fin[c] /\ (Chunked => file[c] # "none") =>
               delivered[c] = Content
          /\ down[c] = "kConnected" /\ undefined = "no" =>
               \/ output[c] # <<>>
               \/ <<"onWriteComplete", c>> \in ToSet(completions)
          /\ Chunked => Len(output[c]) <= ChunkSize
          /\ down[c] = "destroyed" => file[c] # "open"
     /\ undefined = "closed FILE" =>
          /\ program = "download2"
          /\ \E c \in Downloads : down[c] = "kDisconnected"
     /\ undefined = "no such line" => ~alone
=============================================================================
