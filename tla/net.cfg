\* Up to two io loops, three clients, three descriptors; three channels on two
\* descriptors, one of them 0; small buffers, frames, requests and boards;
\* three clients for two ids; three bytes each way behind a request;
\* two clients on two loops with two messages; two downloads of two chunks;
\* two requests for two threads.
CONSTANTS
  MaxThreads = 2
  MaxClients = 3
  MaxFds = 3
  Channels = {c1, c2, c3}
  Fds = {0, 1}
  CheapPrepend = 2
  InitialSize = 2
  ExtraSize = 3
  Radix = 2
  IntSize = 2
  MaxSize = 7
  LenBytes = 1
  MaxLen = 4
  MaxFrames = 2
  MaxRequests = 2
  MaxHeaders = 2
  Callers = {t1, t2}
  MaxCalls = 3
  WheelConns = {w1, w2}
  Slots = 4
  SizeMod = 16
  Box = 2
  Puzzles <- MCPuzzles
  Ints = {0, 1, 2}
  Int32Mod = 2
  MaxExtra = 1
  MaxMuxClients = 3
  MaxConns = 2
  MaxFlight = 1
  Nobody = nobody
  MaxData = 3
  MaxHead = 4
  MaxBuffer = 2
  MaxChatConns = 2
  Limits = {1, 2}
  MaxSaid = 2
  MaxDownloads = 2
  ChunkSize = 2
  FileSizes = {0, 3, 4}
  LineLen = 2
  BoardLen = 2
  MaxDataLen = 4
  Solvers = {s1, s2}
  MaxAsked = 2
SPECIFICATION Spec
CHECK_DEADLOCK FALSE
INVARIANTS
  TypeOK
  ConnectionsSound
  BufferRight
  MessagesCut
  HttpRight
  CallsRight
  IdleKicked
  SudokuRight
  MessagesRight
  ProgramsRight
PROPERTIES
  PollersRight
  ServerServes
