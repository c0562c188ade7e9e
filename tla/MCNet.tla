-------------------------------- MODULE MCNet --------------------------------
(* Parts of the network library and of the programs built on it that share *)
(* no state: a run takes one.                                              *)
EXTENDS TcpServer, Poller, Buffer, Codecs, Http, Rpc, TimingWheel, Sudoku,
        Messages, Multiplexer, Socks4a, Chat, Download, SudokuServer

VARIABLE part  \* the part that runs

netVars == <<part, serverVars, pollerVars, bufferedVars, codecVars, httpVars, rpcVars,
             wheelVars, sudokuVars, messageVars, muxVars, socksVars, chatVars,
             downloadVars, solverVars>>

\* Boards with six givens at most, and a full one.
Givens == {g \in [{0, 3, 6, 9, 12, 15} -> 0..3] :
             g[0] = 1 /\ g[3] \in {0, 2} /\ g[9] \in {1, 3} /\ g[15] \in {0, 2}}
FullBoard == [i \in 0..15 |-> ((i + 2 * (i \div 4) + (i \div 8)) % 4) + 1]
MCPuzzles ==
  {FullBoard} \cup {[i \in 0..15 |-> IF i \in DOMAIN g THEN g[i] ELSE 0] : g \in Givens}

\* A client that asks once.
OneBoard == <<[end |-> BoardLen, good |-> TRUE]>>

\* The parts that do not run have nothing to do.
Init ==
  /\ part \in {"server", "poller", "buffer", "codec", "http", "rpc", "wheel",
               "sudoku", "messages", "mux", "socks", "chat", "download", "solver"}
  /\ part = "sudoku" \/ (part # "sudoku" /\ puzzle = FullBoard)
  /\ part = "codec" \/ (part # "codec" /\ codec = "lite" /\ frames = <<>>)
  /\ SudokuInit /\ CodecInit /\ HttpInit
  /\ ServerInit /\ PollerInit /\ BufferInit /\ RpcInit /\ WheelInit /\ MessagesInit
  /\ part = "rpc" \/ services
  /\ part = "messages" \/ msg[1].type = "Query"
  /\ MuxInit /\ SocksInit /\ ChatInit
  /\ part = "socks" \/ requestOk
  /\ part = "chat" \/ (part # "chat" /\ hp /\ limit = 1)
  /\ DownloadInit /\ SolverInit
  /\ part = "download" \/ (part # "download" /\ program = "chargen")
  /\ part = "solver" \/ (part # "solver" /\ pooled /\ asked = OneBoard)

\* Each part keeps its types.
TypeOK ==
  /\ ServerTypeOK /\ PollerTypeOK /\ BufferTypeOK /\ CodecTypeOK /\ HttpTypeOK
  /\ RpcTypeOK /\ WheelTypeOK /\ SudokuTypeOK /\ MessagesTypeOK
  /\ MuxTypeOK /\ SocksTypeOK /\ ChatTypeOK /\ DownloadTypeOK /\ SolverTypeOK

Only(p) == part = p /\ UNCHANGED part

\* The part given to the left; the others' variables stay.
Next ==
  \/ /\ Only("server") /\ ServerNext
     /\ UNCHANGED <<pollerVars, bufferedVars, codecVars, httpVars, rpcVars,
                    wheelVars, sudokuVars, messageVars, muxVars, socksVars,
                    chatVars, downloadVars, solverVars>>
  \/ /\ Only("poller") /\ PollerNext
     /\ UNCHANGED <<serverVars, bufferedVars, codecVars, httpVars, rpcVars,
                    wheelVars, sudokuVars, messageVars, muxVars, socksVars,
                    chatVars, downloadVars, solverVars>>
  \/ /\ Only("buffer") /\ BufferNext
     /\ UNCHANGED <<serverVars, pollerVars, codecVars, httpVars, rpcVars,
                    wheelVars, sudokuVars, messageVars, muxVars, socksVars,
                    chatVars, downloadVars, solverVars>>
  \/ /\ Only("codec") /\ CodecNext
     /\ UNCHANGED <<serverVars, pollerVars, bufferedVars, httpVars, rpcVars,
                    wheelVars, sudokuVars, messageVars, muxVars, socksVars,
                    chatVars, downloadVars, solverVars>>
  \/ /\ Only("http") /\ HttpNext
     /\ UNCHANGED <<serverVars, pollerVars, bufferedVars, codecVars, rpcVars,
                    wheelVars, sudokuVars, messageVars, muxVars, socksVars,
                    chatVars, downloadVars, solverVars>>
  \/ /\ Only("rpc") /\ RpcNext
     /\ UNCHANGED <<serverVars, pollerVars, bufferedVars, codecVars, httpVars,
                    wheelVars, sudokuVars, messageVars, muxVars, socksVars,
                    chatVars, downloadVars, solverVars>>
  \/ /\ Only("wheel") /\ WheelNext
     /\ UNCHANGED <<serverVars, pollerVars, bufferedVars, codecVars, httpVars,
                    rpcVars, sudokuVars, messageVars, muxVars, socksVars,
                    chatVars, downloadVars, solverVars>>
  \/ /\ Only("sudoku") /\ SudokuNext
     /\ UNCHANGED <<serverVars, pollerVars, bufferedVars, codecVars, httpVars,
                    rpcVars, wheelVars, messageVars, muxVars, socksVars,
                    chatVars, downloadVars, solverVars>>
  \/ /\ Only("messages") /\ MessagesNext
     /\ UNCHANGED <<serverVars, pollerVars, bufferedVars, codecVars, httpVars,
                    rpcVars, wheelVars, sudokuVars, muxVars, socksVars,
                    chatVars, downloadVars, solverVars>>
  \/ /\ Only("mux") /\ MuxNext
     /\ UNCHANGED <<serverVars, pollerVars, bufferedVars, codecVars, httpVars,
                    rpcVars, wheelVars, sudokuVars, messageVars, socksVars,
                    chatVars, downloadVars, solverVars>>
  \/ /\ Only("socks") /\ SocksNext
     /\ UNCHANGED <<serverVars, pollerVars, bufferedVars, codecVars, httpVars,
                    rpcVars, wheelVars, sudokuVars, messageVars, muxVars,
                    chatVars, downloadVars, solverVars>>
  \/ /\ Only("chat") /\ ChatNext
     /\ UNCHANGED <<serverVars, pollerVars, bufferedVars, codecVars, httpVars,
                    rpcVars, wheelVars, sudokuVars, messageVars, muxVars,
                    socksVars, downloadVars, solverVars>>
  \/ /\ Only("download") /\ DownloadNext
     /\ UNCHANGED <<serverVars, pollerVars, bufferedVars, codecVars, httpVars,
                    rpcVars, wheelVars, sudokuVars, messageVars, muxVars,
                    socksVars, chatVars, solverVars>>
  \/ /\ Only("solver") /\ SolverNext
     /\ UNCHANGED <<serverVars, pollerVars, bufferedVars, codecVars, httpVars,
                    rpcVars, wheelVars, sudokuVars, messageVars, muxVars,
                    socksVars, chatVars, downloadVars>>

\* Loops and their threads run; clients and other threads need not.
Fairness ==
  /\ WF_serverVars(Only("server") /\ HandleRead)
  /\ WF_serverVars(Only("server") /\ Dying)
  /\ \A l \in Loops : SF_serverVars(Only("server") /\ RunFunctor(l))

\* The programs that pass on what they receive (Multiplexer.cpp:68,
\* Sock4aServer.cpp:51, ChatServer.cpp:43, ChatServerHp.cpp:50), that send
\* piece by piece (download2.cpp:68) and that answer from other threads
\* (server_threadpool.cpp:65).
ProgramsRight ==
  MuxRight /\ SocksRight /\ ChatRight /\ DownloadRight /\ SolverServes

Spec == Init /\ [][Next]_netVars /\ Fairness
=============================================================================
