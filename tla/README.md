# A TLA+ verification of muduo

This directory specifies, model-checks and partly proves the C++ network library under
`src/muduo` (reactor, timers, connections), the utilities it rests on, and the programs under
`src/examples` that keep state of their own. Every definition is
translated from the code; the source lines each one stands for are in `PROJECT.json` under `map`.

## 1. The system

muduo is a one-loop-per-thread reactor. An `EventLoop` belongs to one thread; everything that
touches a loop's channels, timers or connections must run on that thread, and other threads hand it
functors (`runInLoop`, `queueInLoop`). A `TcpServer` accepts on one loop and spreads connections over
the loops of an `EventLoopThreadPool`.

| component (source) | state | operations | interacts with |
| --- | --- | --- | --- |
| EventLoop (`net/EventLoop.*`) | `quit_`, `callingPendingFunctors_`, `pendingFunctors_` (mutex), active channels, the eventfd | `loop`, `quit`, `runInLoop`, `queueInLoop`, `doPendingFunctors` | every other component, by functors and callbacks |
| EventLoopThread, pool (`net/EventLoopThread*.{h,cc}`) | `loop_`, the thread, `next_` | `startLoop`, destructor, `getNextLoop` | publishes a loop to its owner |
| TimerQueue, Timer, TimerId (`net/Timer*`) | `timers_`, `activeTimers_`, `cancelingTimers_`, the timerfd | `addTimer`, `cancel`, `handleRead`, `reset` | runs user callbacks, hops to the loop by functors |
| Poller, Channel (`net/Poller.*`, `net/poller/*`, `net/Channel.*`) | channel map, epoll set or pollfd array, `index_`, `events_`, `tie_` | `updateChannel`, `removeChannel`, `poll`, `handleEvent` | the kernel |
| TcpConnection, Buffer (`net/TcpConnection.*`, `net/Buffer.*`) | `state_`, `reading_`, input and output buffers, the callbacks | `send`, `shutdown`, `forceClose`, `startRead`, `stopRead`, `handleRead/Write/Close`, `connectEstablished/Destroyed` | EventLoop, Channel, the peer |
| TcpServer, Acceptor (`net/TcpServer.*`, `net/Acceptor.*`) | connection map, `nextConnId_`, `started_`, `idleFd_` | `start`, `newConnection`, `removeConnection(InLoop)` | TcpConnection across loops |
| Connector, TcpClient (`net/Connector.*`, `net/TcpClient.*`) | `connect_`, `state_`, `retryDelayMs_`, `connection_` (mutex), `retry_` | `start`, `stop`, `restart`, `retry`, `connect`, `disconnect` | timers, Channel, TcpConnection |
| Thread, Mutex, Condition, CountDownLatch, CurrentThread (`base/`) | start latch, joined flag, `holder_`, cached tid | `start`, `join`, `wait`, `countDown`, fork | everything threaded |
| ThreadPool, BlockingQueue, BoundedBlockingQueue (`base/`) | bounded task queue, `running_` | `start`, `run`, `take`, `stop` | user tasks |
| Logging, AsyncLogging, LogFile, LogStream (`base/`) | the line of a statement, the cached time; double buffers, buffer list, roll counters | `operator<<`, `~Logger`, `append`, `threadFunc`, `rollFile` | a writer thread, files |
| Date, TimeZone (`base/`) | a zone's transitions | Julian day, `toLocalTime`, `fromLocalTime`, `toUtcTime` | log stamps |
| Http, inspect (`net/http`, `net/inspect`) | parser state per connection | `parseRequest`, `onRequest` | TcpServer |
| Protobuf codec, RpcChannel (`net/protobuf`, `net/protorpc`) | outstanding calls (mutex), id counter | `CallMethod`, `onRpcMessage` | TcpConnection, Buffer |
| Examples (`examples/`) | multiplexer: the pool of ids; timing wheel: buckets; socks4a: two linked connections; chat: sets of connections; sudoku: dancing links; protobuf: messages and their codec | see the sources | the library |

### What is hard

- *Functors and wakeups*: the push under `mutex_` and the eventfd write are separate, and so are the
  swap and the run of the batch.
- *Loop-thread calls run inline, foreign calls are queued*: `runInLoop` on the loop thread overtakes
  what another thread has queued (timer add and cancel, send and shutdown).
- *State read off the loop thread*: `TcpConnection::state_`, `EventLoopThread::loop_`,
  `Connector::connect_` are tested by one thread and changed by another.
- *Self-modification inside callbacks*: a timer callback that cancels itself, a close callback that
  destroys its connection, a functor that queues functors.
- *Object lifetime*: raw `this` in functors, `TimerId` with an address that is reused, a channel
  handled after its owner is gone.
- *Timeouts and retries*: the timerfd re-armed only under conditions, the connector's back-off.

### What makes each component correct

- EventLoop: no lost wakeup; functors run once, in order; `quit()` ends the loop.
- EventLoopThread: `loop_` always usable when published; the destructor ends the thread.
- TimerQueue: both indexes agree; the timerfd is armed whenever a timer waits; a cancelled timer does
  not come back; a stale `TimerId` cancels nothing.
- TcpConnection: callbacks up and down once each, in order; bytes leave in the order of `send`; no
  write after shutdown; no event is waited for in vain (writing registered iff output is pending).
- TcpServer: a connection leaves the map once and is destroyed on its own loop.
- Connector/TcpClient: at most one attempt in flight; `stop()` ends the retries.
- Poller: whoever is interested is reported, nobody who is gone is; `index_` is a channel's own.
- Buffer, codecs, HTTP: what is cut out of a stream does not depend on the pieces it came in.
- RpcChannel: a response finds its call; a closure is run or deleted, once.
- Thread, queues, ThreadPool: tasks run once, in order, nobody waits for ever; one `notify()` is
  enough; a `Thread` object outlives its thread's use of it.
- Logging, AsyncLogging, LogFile: a statement gives one line with its own time; lines keep their order;
  the writer always has two spare buffers; what is dropped is accounted for.
- Date, TimeZone: both directions of a conversion agree with the calendar and with each other.
- Examples: ids are owned once; idle connections are closed in time; bytes and messages are passed on
  whole, once, in order; the solver finds a completion exactly if there is one.
## 2. The modules

| module | models | composed of |
| --- | --- | --- |
| `Executor` | abstract: what a loop promises about functors | |
| `EventLoop` | `EventLoop.cc`: the loop thread, its handlers and its callers | implements `Executor` |
| `EventLoopThread` | `startLoop`, `threadFunc`, the destructor | extends `EventLoop` with the thread and its owner |
| `TimerQueue` | `TimerQueue.cc`, `Timer.*`, `TimerId.h`, the timerfd | queued calls as `Executor` promises |
| `OutputStream` | abstract: what a connection promises about the bytes it is given | |
| `TcpConnection` | `TcpConnection.cc`, its channel in either poller, its entry in the `TcpServer` | implements `OutputStream`; queued calls as `Executor` promises |
| `TcpClient` | `TcpClient.cc` and `Connector.cc` | each connection abstracted to none, up, closed |
| `TcpServer` | `TcpServer.cc`, `Acceptor.cc`, `EventLoopThreadPool.cc`, several connections each reduced to its states | queued calls as `Executor` promises |
| `Poller` | `EPollPoller.cc`, `PollPoller.cc`, `Channel`'s interest, side by side | |
| `Buffer` | `Buffer.h`, `Buffer.cc`, `Endian.h` | |
| `Codecs` | `ProtobufCodecLite.cc`, `examples/protobuf/Codec.cpp`, the asio chat codec | the input buffer as a sequence |
| `Http` | `HttpServer.cc`, `HttpContext.cc`, `HttpRequest.h`, `HttpResponse.cc` | the input buffer as a sequence |
| `Rpc` | `RpcChannel.cc`, `RpcServer.cc` | frames whole and in order, as `Codecs` has them |
| `BlockingQueue` | `BlockingQueue.h`, `BoundedBlockingQueue.h`, `Mutex.h`, `Condition.h` | |
| `ThreadPool` | `ThreadPool.cc` | sections under the lock in one step, as `BlockingQueue` shows |
| `Thread` | `Thread.cc`, `CountDownLatch.cc`, `CurrentThread` | |
| `LogFile`, `AsyncLogging` | `LogFile.cc`, `FileUtil.cc`; `AsyncLogging.cc` | `AsyncLogging` extends `LogFile` |
| `LogStream` | `LogStream.cc`, `Logging.cc`: one statement | |
| `Date`, `TimeZone` | `Date.cc`, `TimeZone.cc` | `TimeZone` extends `Date` |
| `TimingWheel`, `Multiplexer`, `Socks4a`, `Chat` | the idle server, the multiplexer, the socks4a relay, the two asio chat servers | connections reduced to what the program sees |
| `Download` | the servers download, download2, download3 and chargen | |
| `SudokuServer` | server_basic and server_threadpool on one connection | the solver as one step, the pool as a bounded queue |
| `Sudoku`, `Messages` | the solver with dancing links; the generated `Query`, `Answer`, `Empty` | |
| `SequenceLemmas` | facts about `Append`, `Tail` and concatenation, and inductions, that the proofs cite | |
| `EventLoopProofs`, `TimerQueueProofs`, `TcpConnectionProofs`, `TcpClientProofs` | the theorems of section 6 | each extends the module it is named after; `EventLoopProofs` extends `EventLoopThread` |
| `NetProofs` | those about TcpServer, Rpc, Poller, Buffer, Messages, Codecs and Http | extends these modules |
| `ProgramProofs` | those about TimingWheel, Multiplexer, Socks4a, Download, Chat and SudokuServer, and the programs of `MCNet` together | extends `MCNet` |
| `BaseProofs` | those about Thread, BlockingQueue, ThreadPool, AsyncLogging, LogStream, Date and TimeZone | extends `MCBase` |
| `MC...` | what TLC needs besides: symmetry, message sizes | extend the module they name |
| `MCNet`, `MCBase` | parts that share no state; a run takes one of them at its start | extend the modules of `net` and above, and of `base` |

A module's variables carry the names of the members they stand for; a variable whose comment says
*history* exists for the properties only. A definition in a module that `PROJECT.json` does not map
and whose comment begins with "Mutant of" is a plausible bug, against which the properties are tried.

### State and actions against the code

**EventLoop.** `loopPc` is the place in `loop()` (outside, the test of `quit_`, `poll()`, the handling
of `activeChannels_`, `doPendingFunctors`); `inCallback` marks a handler or functor of the user.
`queueInLoop` is two steps of the caller: the push under `mutex_` (`QueueInLoop`), which also decides
on the wakeup, and the write of the eventfd (`Wakeup`), so that the loop moves in between; likewise
`quit()` (`Quit`, `Wakeup`). The loop thread's own calls are `LoopQueueInLoop`, `LoopRunInLoop` and
`LoopQuit`. `PollReady`, `PollTimeout`, `HandleWakeup`, `HandleEvent`, `SwapFunctors`, `RunFunctor`,
`EndCallback` and `FinishFunctors` follow `loop()` line by line.

**EventLoopThread.** `threadPc` follows `threadFunc` (construct, callback, publish under `mutex_`,
`loop()`, clear, destruct), `ownerPc` follows `startLoop` and the destructor, whose unlocked reads of
`loop_` and whose `quit()` on a loop that may have ended are steps of their own. The wait in `startLoop`
and its `return loop_`, which reads the member again without the lock, are two steps, so that it may
return NULL (`ownerPc = "null"`). A call on a destroyed loop leads to `ownerPc = "fault"`.

**TimerQueue.** `heap` gives the `Timer` at each address; addresses are reused after `delete`, and a
`TimerId` is a pair of address and sequence, as in the code. `HandleRead` reads the timerfd, takes the
expired timers and leaves them in `expired`; `RunTimer` and `EndCallback` bracket each callback, in
which `LoopAddTimer` and `LoopCancel` act at once; `Reset` restarts, deletes and re-arms. Time is in
ticks of 100 microseconds, the least delay `howMuchTimeFromNow` arms; `wall` may step back, the
timerfd counts on its own clock.

**TcpConnection.** `Poll(out)` chooses what the poller reports (`revents`); `DispatchHup`,
`HandleRead`, `HandleWrite` consume it in the order of `Channel::handleEventWithGuard`; a user
callback is a place (`loopPc`) in which the `Loop...` actions may be taken. A call on another thread is
up to three steps: the unlocked test of `state_`, its unlocked store (`shutdown`, `forceClose`,
`forceCloseWithDelay`), and the push of a functor. `Update` is `EPollPoller::updateChannel` or
`PollPoller::updateChannel` for this channel, including the branch that puts a channel with no
interest back into epoll. The output buffer holds the messages' bytes, told apart by message; the input
buffer is abstracted to how many reads it takes to empty the socket.

**TcpClient.** `StartInLoop` is `startInLoop` with the whole of `connect()`: the attempt goes on, is
retried, or is given up for good, by errno class. `HandleAttempt` is `handleWrite`/`handleError`
(failure, self-connection, connected, connected after a stop). `resetChannel` is queued, as in the
code. `removeConnection` and `Connector::restart()` are split where a store of `connect_` by another
thread can come between. The destructor's two branches are `Destroy`, the timer that keeps the connector
a second longer is `FreeConnector`.

**TcpServer.** Every loop has its queue of functors; `connectEstablished`, `removeConnectionInLoop` and
`connectDestroyed` go through it unless the caller is on that loop. `NewConnection` is the whole of
`handleRead`, `newConnection` and the round robin. When descriptors run out (`NoDescriptor`) each
system call of the EMFILE branch is a step, with other threads that open and close files in between.
`Shutdown` half-closes a connection at any time; `connectDestroyed` (`Destroyed`) ends one only if it is
still kConnected, as the code tests.
`Dying` is the destructor: it resets the connections, tells the io loops to quit and joins them, while
what they have not yet run is lost with them.

**Poller.** A channel has two indexes, one per poller, and each call updates both. `epollSet` and
`pollfds` are what the kernel is told; `EPollActive` and `PollActive` are `fillActiveChannels` for a
set of descriptors that became ready. Descriptors start from 0, since `PollPoller` stores `-fd - 1`.

**Buffer.** `store`, `readerIndex`, `writerIndex` are the members; `content` is the plain sequence of
bytes the operations promise. Integers are digits of base `Radix` in network order.

**Codecs.** The peer sends a frame at a time (`PeerSends`), the stream arrives in any pieces, and
`onMessage` then loops. A unit of a frame knows its frame and its place in it. What a message says is
abstracted to which branch of the codec it takes.

**Http.** The client sends a request at a time (`ClientAsks`), as lines; any number of them, or a part of
one, arrive together (`OnHttpMessage`). `parseRequest` is then a step per round of its loop
(`TakeRequestLine`, `TakeHeader`, `BadRequestLine`, `GotAll`, and `NoLine` where `findCRLF` finds none),
the last ones with the answer of `onMessage` behind them.

**Rpc.** `CallMethod` is three steps (the id, the entry under the lock, the send), so that the answer
may come before the caller goes on and other threads between. Services answer when they like.

**BlockingQueue, ThreadPool, Thread.** `MutexLock::lock` is the pthread call and then the store of
`holder_`; `Condition::wait` gives the holder back before it waits and may end without a notify.
`ThreadPool` reads `running_` and `threads_` without the lock as the code does; `start()` sets `running_`
(`StartPool`) and creates its threads one by one (`CreateWorker`), the first ones running by then. `Thread` has the steps of
`startThread`, of `runInThread` and of `~Thread`, and the child of a `fork()`.

**AsyncLogging, LogFile.** `writerPc` follows `threadFunc`. Lines are numbers; 0 stands for the message
about dropped buffers. `LogFile` is what one round writes: the roll by size, the check every
`checkEveryN_` appends, the flush; what is in stdio and what is on disk are kept apart.

**LogStream.** The buffer of a thread's open `Logger` is the sequence of the pieces that were kept, and how
far `cur_` is; numbers keep their digits. What `~Logger` would print is computed in every state.

**Date, TimeZone.** A clock is turned over month by month, and every day of the month is checked
against `getJulianDayNumber`, `getYearMonthDay` and `timegm`'s arithmetic. A zone is what
`readTimeZoneFile` leaves: transitions, offsets and the flag for summer time.

**The programs.** `TimingWheel`: an entry lives while a slot holds it; the second is a tick. `Sudoku`:
one step per call, row or return of `solve()`; the links are the nodes' fields. `Messages`: the tables
say per function of the generated code what it does with each field; two messages are changed, merged,
written and read. `Multiplexer`, `Socks4a`: one loop, one step per callback, frames or bytes in transit
between the peers. `Chat`: two loops; a message handed on is sent to one connection per step, so the
sets may change meanwhile as the locks and the copy on write allow. `Download`: the loop's queue holds
write completions and `connectDestroyed` in order; `context` and FILE of a connection are apart, so that
one may outlive the other. `SudokuServer`: `lenAtStart` is `len` of the `onMessage()` that runs, each
request one round of its loop; `resolve()` is split at `connected()` and at the push of the answer.

## 3. The runs

Every passing run fires every action of its next-state relation that its constants allow, and each of
its properties is violated by at least one mutant of the code under the same bounds.

| run | instance | shows |
| --- | --- | --- |
| `eventloop` | two foreign threads, three functors, one I/O channel, `poll()` never obliged to time out | `NoLostWakeup`, `FifoOnce` (refinement), `LoopResponds`, `EveryFunctorRuns` |
| `loopthread` | one owner, two functors, the loop's callbacks may quit it | `LoopShared`, `OutlivesThreadFunc`, `StartAndStopEnd` |
| `loopthread_quit_early` | one owner, one functor | violated: `DestructorReturns` (finding 1) |
| `timerqueue_safety` | three timers, two addresses, clock may step back | `IndexesAgree`, `PointersOwned`, `TimersKept` |
| `timerqueue_live` | two timers, two addresses, clock runs forward | `EveryTimerRuns` |
| `tcpconnection_safety` | two sending threads, all loop-thread calls but `stopRead`, three messages of two bytes | `CallbacksOnce`, `ChannelInStep`, `StreamSafe` (refinement) |
| `tcpconnection_server` | the server dies; the loop and a thread stop and start reading | `DestroyedClean` |
| `tcpconnection_live` | one thread shuts down while the loop sends and force-closes | `EndsComplete` |
| `tcpconnection_second_close` | `stopRead`, then `forceClose`, no thread | violated: `CallbacksOnce` (finding 2) |
| `tcpclient` | two calling threads, delays 2, 4, 5, retry enabled | `OneOwnedAttempt`, `KeepsTrying`, `StopIsFinal` |
| `net` | a part of the network library or one of the programs (below) | `ConnectionsSound`, `ServerServes`, `PollersRight`, `BufferRight`, `MessagesCut`, `HttpRight`, `CallsRight`, `IdleKicked`, `SudokuRight`, `MessagesRight`, `ProgramsRight` |
| `base` | a part of `muduo/base` (below) | `QueueSound`, `PoolSound`, `StartHandsOver`, `LinesKept`, `TextRight`, `WorkServed` |

Where a property is a conjunction of named parts, its parts and their comments say what each is about:
`TimersKept` is `NoTimerLost`, `CancelledStaysOut` and `TimerfdArmed`; `ConnectionsSound` is
`LoopsBalanced`, `FunctorsFit`, `NoneLeaked`, `DeadServerUnused` and `ReserveKept`; and so on.

`net` and `base` each hold several parts that share no variable. The variable `part` is chosen in the
initial state and decides which of them moves; the reachable states are the disjoint union of the parts',
never their product, so that each part is explored as it would be alone. The parts are put together
here because each is a question of the same size, not because they interact; those that interact share
a module (`TcpServer` its pool and acceptor, `AsyncLogging` its file, `Rpc` both ends).

Each module's type invariant is checked in its first run.

### Bounds, and why they are enough

- *Threads.* Threads other than the loop's are interchangeable. What two of them can do to each other
  goes through one queue or one flag; the second lets one's push or store fall between the steps of
  another.
- *Functors, messages* are used once each. Three functors give a batch of two with one queued behind it,
  or one in each of batch, queue and caller; three messages give one in the buffer, one queued and one
  about to be.
- *Size = 2, HighWaterMark = 3.* A write takes none, a part or all of a message; two messages cross the
  mark, one does not.
- *MaxCreated = 3, two addresses.* The third timer reuses an address while a stale `TimerId` of it is
  held and another timer is in the batch. *MaxTime*, *Expirations* and *Intervals* let timers be past,
  due together and due apart, with a repeating one among them; 0 in *Expirations* is the invalid
  `Timestamp`.
- *MaxPending, MaxQueue* bound the functors that user calls pile up; the functors the code queues
  itself are never refused. *MaxReceived = 1* distinguishes data before the end of the stream from none.
- *Delays 2, 4, 5* are the initial delay, one doubling, and the cap that is not a power of two times
  the first.

- *TcpServer: two io loops, three clients, three descriptors.* Two loops cross each other's functors
  through the base loop; three clients go round the loops once and begin again; the third of them meets
  EMFILE.
- *Poller: three channels on the descriptors 0 and 1.* A channel is first, last or alone in the array, and
  a descriptor is used again by another object. 0 is the one whose negation is not itself negative.
- *Buffer: header 2, initially 2, extra 3, at most 7 bytes, base 2.* Room is exact, one short or one too
  much; bytes are moved, the vector grows, and `readFd` spills into the extra buffer and not.
- *Codecs, Http: two frames or requests,* each of every kind, cut at every place: an error before and after
  a good one. A request has up to two headers, so that one replaces another; two requests have no more
  between them, so that both have one or only one has two.
- *Rpc: two threads, three calls,* one answered while another is made; services or none.
- *TimingWheel: four slots, two connections, counters modulo 16* in the place of 2^64.
- *Sudoku: boxes of two,* boards that have none, one or many completions; the search goes back several
  levels. A board of 9 by 9 has the same node types and ring structure; its search is out of reach.
- *Messages: integers to 2, an int32 keeping half of them, one element or unknown field more.*
- *Multiplexer: three clients for two ids. Socks4a: three bytes behind a request of up to four units, a
  high-water mark of two. Chat: two clients on two loops, two messages, limits of one and two.* In each
  the limit is met, passed and left again.
- *Download: two connections, files of no, one and a half and two chunks, two lines of chargen.* The last
  chunk is full or not; a client goes while its completion is queued; a second one finds no line.
- *SudokuServer: two requests, good and bad, with and without an id, two solvers; MAX_DATA_LEN is two
  boards.* Answers overtake each other; `len` is that of two requests when one is left.
- *BlockingQueue: three threads, one place.* Takers and putters wait, one of several is woken. *ThreadPool:
  two workers, two callers, three tasks,* bounds of 0, 1 and 2. *Thread: two objects.*
- *AsyncLogging: buffers of one line, four of them are too many, four lines, one short write, a clock
  of three seconds that may be set back.* Both spare buffers are used up, `append` must allocate, a
  backlog is dropped, a file rolls within its second and into the next.
- *LogStream: one thread, two operands, a buffer of 16 with a header of 5 or 6.* Threads share only the
  level and the zone, which change at any time. Either operand may be left out, or the line's end.
- *Date: 1900 to 2500.* Every rule of the Gregorian calendar and each exception of it. *TimeZone:* fixed
  zones, zones that begin with and without summer time, changed offsets, with hours of four seconds
  (`Sixty` is 2).

### Deadlock

It is checked in `eventloop`, the `timerqueue` runs and `tcpclient`. The thread runs end when the
destructor has returned, the connection runs when the connection is destroyed and every message is
used; the parts of `net` and `base` stop when what their bounds allow has been done.

## 4. Fairness

- The loop thread is scheduled and user callbacks return: weak fairness of the loop's steps.
- A call that a thread has begun ends: weak fairness of its remaining steps. Nothing obliges a thread
  to call.
- `poll()` returns if something is ready. Its timeout of ten seconds is *not* assumed, except in
  `EveryFunctorRuns`, where it is the premise: a functor that the loop's own thread queues before
  `loop()` gets no wakeup and waits for it.
- TimerQueue: each turn of `loop()` polls once and runs one batch, so that polling and running functors
  are fair apart; time passes.
- TcpConnection: poll is level triggered, so an event that stays is reported again and again
  (strong fairness of the steps that are enabled and disabled by other events in between); `read()`
  comes to the end of the stream after its data, and the kernel sends what it is given while the peer
  is there. The peer owes nothing: it may neither read nor close, and the properties do not depend on it
  except where they say so.
- TcpServer: the base loop handles what is readable and its destructor goes on (weak fairness), and each
  loop runs its functors (strong, since the steps of the acceptor and of the destructor take the base
  loop away for a while). Clients, other threads and `accept()`'s timing owe nothing.
- ThreadPool: workers and callers of `run()` go on when they can; a thread that finds the lock free again
  and again gets it (strong fairness of the sections).
- AsyncLogging: the writer thread goes on and its wait of `flushInterval_` seconds ends; so does `stop()`
  once it was called. `append()` is never obliged.
- EventLoopThread: the mutex and the condition variable are fair to two threads that each take it
  once.

## 5. Findings

1. `EventLoop.cc:108`: `quit()` between the publication of the loop and its entry into `loop()` is
   erased, and `~EventLoopThread` joins for ever (`loopthread_quit_early`).
2. `EPollPoller.cc:113`: `disableAll()` of a channel that has stopped reading puts its socket into
   epoll with no interest; a POLLHUP closes the connection a second time
   (`tcpconnection_second_close`).

Asserts are compiled out under `NDEBUG`: the models go on where an assert fails
and treat it as a statement about the program.

Seen while modelling, without a run of their own:

- `TimerQueue.cc:129`: `cancel()` on the loop thread acts at once and overtakes an add that another
  thread has queued; the timer then stays (`CancelledStaysOut` names the case in `overtaken`).
- `TcpConnection.cc:244`: `forceClose()` on another thread tests `state_` and stores it unlocked;
  a store that comes after `handleClose` makes a disconnected connection kDisconnecting again, and
  `handleClose` runs twice. `tcpconnection_safety` therefore lets other threads only send.
- `TcpConnection.cc:310`, `:318`: `startRead`/`stopRead` that run after `connectDestroyed` register the
  removed channel again. `CarefulReads` keeps users from calling them once the connection is down.
- `Connector.cc:122`: `restart()` stores `connect_ = true`, which can undo a `stop()` of another
  thread, though `Connector.h:41` says it "can be called in any thread". `StopIsFinal` exempts a
  stop that overlaps a restart.
- `TcpClient.cc:106`: a second `connect()`, or one after `stop()`, may meet the asserts of
  `Connector.cc:49` and `:131`; the code says "FIXME: check state". The model connects once.
- `TcpClient.cc:115`: `disconnect()` before the connection exists does not stop the attempt.
- `TcpServer.cc:61`: `start()` is documented as thread safe, `EventLoopThreadPool::start` asserts
  the base loop's thread.
- `TimerQueue.cc:157`: a callback that cancels another timer of the same expired batch keeps it from
  being restarted, but it is still called in this round.
- `TcpConnection.cc:337`: when the server dies, `connectDestroyed` of a half-closed connection removes a
  channel that still has its interest (the assert of `Channel.cc:61` fails) and leaves the connection
  kDisconnecting (that of its destructor, `:71`, too); and the functor of a `forceClose()` that is queued
  behind it puts the destroyed channel back. `DestroyedClean` and `NoneLeaked` exempt these by name:
  `NoneLeaked` allows such a connection after the server's end only.
- `EventLoopThread.cc:52`: `return loop_` reads the member after the lock is given back; `startLoop()` returns
  NULL if a callback has quit the loop meanwhile, and waits for ever if that was before it woke up.
  `OutlivesThreadFunc` says that nothing else brings this about.
- `TcpConnection.cc:127`: `send()` on another thread binds the raw `this` ("FIXME"); a connection that ends
  between the test of its state and the push is used after its end (`dangling` in `Chat`, which exempts
  exactly that).
- `TcpServer.cc:96`: the close callback holds the raw server; a server with threads that is destroyed while
  a connection closes on an io loop is used after its end. `DeadServerUnused` and `NoneLeaked` therefore
  speak of a server that lives or has no threads.
- `EPollPoller.cc:95`, `EventLoop.cc:214`: a channel must not be removed by another's callback in the round
  that reported both, which an assert states. `Poller` speaks of what is reported at one moment only.
- `PollPoller.cc:124`: removing a channel that never asked for anything meets an assert.
- `ThreadPool.cc:50`: `stop()` does not notify `notFull_`; callers of `run()` that wait then wait for ever.
- `ThreadPool.cc:80`: `take()` looks at the queue before `running_`, so that a worker may begin a task after
  `stop()`; at most one each, which `PoolSound` says. The tasks left in the queue are dropped.
- `HttpServer.cc:78`: one request is parsed for each read; a second one that came with it waits for more
  bytes (`HttpRight` exempts a client that pipelines).
- `AsyncLogging.cc:87`: a backlog over 25 buffers is dropped down to two.
- `LogFile.cc:95`: after the clock was set back, or twice in a second, `rollFile` does nothing and the
  file grows past `rollSize_`.
- `HttpRequest.h:55`: `setMethod` asserts that no method was set; a bad request line is answered and the
  connection shut down, but stays in the buffer and is parsed again when more arrives.
- `Multiplexer.cpp:68`, `:211`: after the backend has dropped a client its id is returned to the pool, and
  again when the client goes down: it is in the pool twice, and two clients may share it. A packet of the
  full length meets `assert(len <= MAX_PACKET_LEN)`.
- `examples/protobuf/Codec.h:54`: the constructor never stores the error callback, so that the first error
  throws (`Codec.cpp:57`, `:65`); the branch at `:57` has no `break` either, and would not end.
- `RpcServer.cc:56`: the channel is freed with the connection while a service may hold a closure of it.
- `Sock4aServer.cpp:51`: bytes that came before the target was connected wait for the next ones; `:105` uses
  the connection of a target that has ended; the high-water callback stops the wrong side; a failed
  connect is never reported to the client.
- `DiscardServer.cpp:42`: one `lastUpdate_` for all connections: of two that speak in the same second only
  the first is noticed (`missed`).
- `download2.cpp:73`: a write completion that was queued when the client went reads the FILE that
  `onConnection` has closed (`:53`); download3, whose context owns the FILE, does not.
- `simple_chargen.cpp:71`: `msgTranffered_` is shared by all connections; a connection that comes when all
  lines have been sent reads past the last one.
- `server_basic.cpp:17`, `server_threadpool.cpp:43`: `len` is not counted again, so an incomplete request
  behind enough good ones is taken for a big illegal one; after a bad request the answers that the pool
  still works on are dropped.
- `Logging.cc:134`: the text of the time is kept per second, so that after `setTimeZone` a thread's lines show
  the old zone's time for the rest of the second; `LogStream.h:39`: what does not fit is left out, at
  times the line's end only.
- `Inspector.cc:175`: a command is looked up without the lock that `add` and `remove` hold.
- `TimeZone.cc:310`: local times in the hour that a transition repeats or skips are ambiguous, and the code
  assumes that summer time is one hour; `readTimeZoneFile` returns true for a file that is missing.

## 6. What is proved

A theorem holds for every value of the constants under the named assumptions of its module; a run shows
the same property on one instance. The parts of `net` and `base` are proved about their own
specifications (`ServerSpec`, `RpcSpec`, ...), whose steps are those `MCNet` and `MCBase` take;
`ProgramsAlwaysRight`, `TextAlwaysRight` and `PartsAlwaysTyped` bring them back to the specifications of `MCNet`
and `MCBase`, each of whose steps is one of a part's or leaves the part alone.

| theorem | of | establishes |
| --- | --- | --- |
| `EventLoopProofs!TypeCorrect`, `WakeupInvariant`, `WakeupNeverLost` | EventLoop | `TypeOK`; the inductive invariant `WakeupInv`; `NoLostWakeup` |
| `EventLoopProofs!ImplementsExecutor` | EventLoop | `FifoOnce`: it implements `Executor!Safe` |
| `EventLoopProofs!ThreadImplementsEventLoop`, `OwnerIsServed` | EventLoopThread | its steps are steps of EventLoop or none; so the owner's functors have `FifoOnce` and `NoLostWakeup` |
| `EventLoopProofs!LoopAlwaysShared`, `ThreadFuncAlwaysOutlived` | EventLoopThread | `LoopShared`, `OutlivesThreadFunc` |
| `TimerQueueProofs!TimersTyped`, `IndexesAlwaysAgree`, `PointersAlwaysOwned` | TimerQueue | `TypeOK` (what is called is live), `IndexesAgree`, `PointersOwned` |
| `TimerQueueProofs!TimersAlwaysKept` | TimerQueue | `TimersKept`: `NoTimerLost`, `CancelledStaysOut`, `TimerfdArmed` |
| `TcpConnectionProofs!AlwaysDestroyedClean` | TcpConnection | `DestroyedClean`, with `CarefulUse` |
| `TcpConnectionProofs!ChannelAlwaysInStep` | TcpConnection | `ChannelInStep`, with `SendingThreads` |
| `TcpConnectionProofs!CallbacksAlwaysOnce` | TcpConnection | `CallbacksOnce`, with `StaysInPoller` |
| `TcpConnectionProofs!StreamAlwaysSafe` | TcpConnection | `StreamSafe`: it implements `OutputStream`, with `CarefulUse` |
| `TcpClientProofs!ClientInvariant`, `OneAlwaysOwned`, `AlwaysKeepsTrying` | TcpClient | `ClientInv`, `OneOwnedAttempt`, `KeepsTrying` |
| `NetProofs!ServerInvariant`, `ConnectionsAlwaysSound` | TcpServer | `ServerInv`, `ConnectionsSound` |
| `NetProofs!PollersAlwaysRight` | Poller | `PollersRight` of both pollers |
| `NetProofs!ContentAlwaysKept`, `IntegersKept` | Buffer | the two parts of `BufferRight`: `ContentKept`; an integer's bytes give it back |
| `NetProofs!BufferAlwaysTyped`, `BufferAlwaysRight` | Buffer | `BufferTypeOK`, `BufferRight` |
| `NetProofs!MessagesAlwaysTyped`, `MessagesAlwaysRight` | Messages | `MessagesTypeOK`, `MessagesRight` |
| `NetProofs!MessagesAlwaysCut` | Codecs | `MessagesCut` |
| `NetProofs!HttpAlwaysRight` | Http | `HttpRight` |
| `NetProofs!RpcInvariant`, `CallsAlwaysRight` | Rpc | `RpcInv`, `CallsRight` |
| `ProgramProofs!IdleAlwaysKicked` | TimingWheel | `IdleKicked` |
| `ProgramProofs!MuxAlwaysRight` | Multiplexer | `MuxRight`, a part of `ProgramsRight` |
| `ProgramProofs!SocksAlwaysRight` | Socks4a | `SocksRight`, a part of `ProgramsRight` |
| `ProgramProofs!DownloadAlwaysRight` | Download | `DownloadRight`, a part of `ProgramsRight` |
| `ProgramProofs!ChatAlwaysRight` | Chat | `ChatRight`, a part of `ProgramsRight` |
| `ProgramProofs!SolverAlwaysServes` | SudokuServer | `SolverServes`, a part of `ProgramsRight` |
| `ProgramProofs!ProgramsAlwaysRight` | MCNet | `ProgramsRight`, of the specification the run checks |
| `BaseProofs!StartAlwaysHandsOver` | Thread | `StartHandsOver` |
| `BaseProofs!QueueInvariant`, `QueueAlwaysSound` | BlockingQueue | `QueueInv`, `QueueSound` |
| `BaseProofs!PoolAlwaysSound` | ThreadPool | `PoolSound` |
| `BaseProofs!SpareBuffersAlwaysReady`, `LinesAlwaysKept` | AsyncLogging, LogFile | `SpareBuffersReady`, `LinesKept` |
| `BaseProofs!DateAlwaysRight` | Date | `DateRight`, a part of `TextRight` |
| `BaseProofs!ZoneAlwaysRight` | TimeZone | `ZoneRight`, a part of `TextRight` |
| `BaseProofs!LogAlwaysRight` | LogStream | `LogRight`, a part of `TextRight` |
| `BaseProofs!TextAlwaysRight`, `PartsAlwaysTyped` | MCBase | `TextRight` and `TypeOK`, of the specification the run checks |

### Assumptions

- Bounds and sizes are naturals (`TimerAssumption`, `ServerAssumption`, `RpcAssumption`, `BufferAssumption`,
  `CodecAssumption`, `HttpAssumption`, `SocksAssumption`, `DownloadAssumption`, `SolverAssumption`, `ChatAssumption`, `ClockAssumption`,
  `LogFileAssumption`, `BuffersAssumption`, `StatementAssumption`), positive
  where the code asserts it, divides by it or reads in pieces of it. They cap what TLC explores; the
  theorems hold whatever they are. A frame has at least a byte of length (`LenBytes`); a byte has at
  least two values (`Radix`).
- `MessagesAssumption`: integer fields are naturals and what an int32 keeps of one is among them; their
  number, and that of repeated and unknown fields, is any.
- Names are apart: `ChannelAssumption` (the wakeup channel is none of the I/O channels), `QueueAssumption`
  and `MuxAssumption` (nobody is no thread and no client). `OwnerAssumption`: the owner of an
  `EventLoopThread` is one of the threads its loop knows; the theorems about `EventLoop` do not use it.
- Thread sets are finite where the code counts or notifies them (`QueueAssumption`, `PoolAssumption`), and so
  are the channels of a `Poller`, whose array has an end (`PollerAssumption`; descriptors are naturals).
  Elsewhere no finiteness is assumed of threads, functors, channels, messages or addresses.
- `ClientAssumption`: the first delay of the back-off is positive and no larger than the last, as the
  constants of `Connector.h` are. `ConnectionAssumption`: messages are not empty and the high-water mark is
  positive; a message of no bytes is not written.
- `LoggingAssumption`: a backlog is cut at two buffers or more; the code has 25.
- `BufferFits`: a statement's buffer holds the header's pieces and one byte more, and a number with its sign
  is shorter than `kMaxNumericSize`; the code has 4000 and 32. `NumbersFit`: the logged integers have eight
  bits (the code's have up to 64, converted by the same loop).
- `CalendarAssumption`: the day of the week on which the first year begins is the calendar's, by Gauss's
  formula; the range of years is any, dates and times are integers without a width.
- `ZoneAssumption`: transitions lie further apart than any two offsets of the zone, and in a zone with summer
  time local time goes back only from summer time and by one hour (`Usual`). Where that is not so, as when a
  country moves to another zone, `fromLocalTime` may take the other of two times: section 5 names it.
- `WheelAssumption`: the number of slots divides the range of `size_t`, as the 8 of the example and any
  power of two do; with another number `CircularIndex` would jump when it wraps.

Three theorems about TcpConnection need a discipline of its users, stated where the theorem is:
`CarefulUse` (other threads send or stop reading but neither close nor start reading; reads are not
started after the end; on a server that may die nothing half closes), `SendingThreads` (other threads
only send) and `StaysInPoller` (besides, under epoll, nobody stops reading). They are what the runs
`tcpconnection_safety` and `tcpconnection_server` are configured with, and each is needed: section 5 names
what happens without it (`TcpConnection.cc:244`, `:310`, `:337`, finding 2).

### The arguments

*EventLoop.* `NoLostWakeup` speaks of `poll()` only and is not inductive: what happens before the loop
polls matters. `WakeupInv` says of every place but the handling of events, after which
`doPendingFunctors` still comes, that a waiting functor has its wakeup in the eventfd or on its way;
and that `callingPendingFunctors_` is set exactly while functors run, which is why `queueInLoop` on the
loop thread may skip the wakeup when it is not. `FifoOnce` maps the queue of the executor to the rest of
the batch followed by `pendingFunctors_`: the swap is a stutter, a run takes the head. It needs
`PostedInv` (what is queued or was run has been posted) so that a functor is new when it is queued.

*EventLoopThread.* Its specification adds variables to EventLoop's and restricts its steps, so the
refinement is the identity and the theorems above carry over. `LoopShared` follows from `ThreadStages`,
which says which place of the owner goes with which place of `threadFunc`. `OutlivesThreadFunc` does not:
that the destructor may leave out the join needs that a loop ends only when told to. `QuitHasReason` says
of every place, `quit_` and the fresh `loop()` that resets it included, that a loop that is about to end
was told by the owner's destructor or by a callback (`selfQuit`).

*TimerQueue.* `TimerInv` is the conjunction of `TypeOK`, `IndexesAgree`, `PointersOwned`, `AddedOnce`
(no timer is queued twice by `addTimer`) and the emptiness of the expired batch outside `handleRead`. A
live timer is in both indexes, in the batch, or in one queued add, and nowhere else; so the `delete`
in `cancelInLoop` and in `reset` frees what no one else points to, and an address that `new` reuses is
in none of the three. `TimersKept` needs three more: `AlarmInv`, that a timer at the invalid
`Timestamp`, for which `reset()` arms nothing, was due at once when it was added; `IssuedInv`, that
sequence numbers are issued once; and `KeptInv`, what a cancel leaves behind while its timer is queued
or being called.

*TcpConnection.* `BaseInv` joins `TypeOK`, which calls can be queued (`QueueInv`) and what `state_`
says of the channel and the callbacks (`StateInv`); `GoneInv` and `OnceInv` add that a destroyed channel
stays out of the poller and that a callback that has come cannot come again. For `StreamSafe` the stream
is what was written, then the output buffer, then the bytes of queued sends; `SentInv` says that these
are whole messages, told apart, and that no send is queued behind the shutdown.

*TcpClient.* There is always one way to go on: a queued start, a retry timer, an attempt or a
connection. `ClientInv` says which functors may be queued beside each (`StartInv`, `AttemptInv`,
`LinkInv`), each once (`OnceInv`), and what a dead client leaves to its connector (`EndInv`); without the
order of the queued functors none of these is inductive.

*TcpServer.* `ServerInv` says per connection which of `connectEstablished`, `removeConnectionInLoop`,
`connectDestroyed` are queued, in which loop and in which order, beside which state (a kDisconnecting connection of a server that lives is
in the map and in its poller; only the functors of the server's end leave one so); per round robin how
many connections each loop has had; and which step of the EMFILE branch holds the reserved descriptor.

*Poller.* `PollersInv`: each `index_` is that of the channel's own entry, the entries are of registered
channels, and what the kernel was told is what `events_` says; a negated descriptor is an entry without
interest. `removeChannel` swaps the last entry in, after which both indexes are right again.

*Buffer.* The readable bytes are those of `content` (`BufferInv`) and the indexes are within the
store; each operation moves, copies or appends, which is a lemma about subsequences each. The digits
of an integer give it back because the value of its first k bytes is, by induction on k, the integer
divided by the weight of the bytes behind them (Horner's rule); the sign comes from the first half of the range.

*Codecs.* `CodecInv`: what is in the buffer and on its way are the units of the frames from the current one
on, each in its place, the first one cut off at a frame's beginning except within `onMessage`. The least
length a codec accepts is at least what it reads, so that a delivered message is whole.

*Messages.* `MessagesInv`: a message's fields, items and unknown elements are of its class and in their ranges,
what a field has that is not there is the default, and an unknown element carries no tag that its class
reads. What is written is then the singular fields, the items and the unknown ones, each part read by the
cases of `ReadField` into its place: the recursion of `Reads` is followed element by element, that of `SumOf`
too. `MessagesInvariant` has one step per operation.

*Http.* `HttpInv`: the lines in the buffer and on their way follow each other to the end of the last
request (`LinesStand`); the context is that of the lines of the current request that were taken
(`ContextInv`, so that `reset()` is needed); and while the connection is open the answers are those of
the requests before, all of which kept it open (`AnswersInv`).

*Rpc.* `RpcInv` says for each call where its id is (with its thread, in a message, at the service, in
`outstandings_`) and whether its closure was run or deleted; `CallsRight` is then read off.

*TimingWheel.* The slots that hold an entry of a connection are those of the ticks it spoke in
(`WheelInv`), so that it is alive for a round after the last of them.

*Multiplexer.* `MuxInv`: ids are with one client or in the pool, once, until the backend has taken one back
whose client goes down afterwards; frames in transit are addressed accordingly.

*Sock4aServer.* `SocksInv`: what has arrived at the target, what waits for it and what is still in the
client's buffer are the client's bytes behind the request, each in its place (`ToTargetInv`); what has
reached the client and what waits for it is the answer, then the target's bytes (`ToClientInv`); and which
state of one connection goes with which of the other (`SidesInv`).

*download and chargen.* `DownloadInv`: what was delivered and what waits in a connection are the first bytes
of its content, in order, as far as it has read (`SentInv`); a write completion is queued once, only while
nothing waits for the socket, and never behind the connection's end (`CompletionInv`), so that an open
connection always has a next step; and who holds its `FILE` (`FileInv`).

*The chat servers.* For each speaker and listener, what the listener has heard, what waits for it in its
loop's queue and what the speaker's callback has in hand are the speaker's messages, in order, once and
without gaps up to the last (`PairInv`, by way of `HearsAll`); `LoopInv` says what a loop has in hand and
what its queue may hold, `ChatConnInv` what each state of a connection excludes, so that a queued
`sendInLoop()` stands in front of the connection's end unless the connection ended between the test of its
state and the push.

*The sudoku servers.* Some number of requests was taken from the buffer (`TakenInv`); a good one of them is in
one place once: the queue of boards, a thread, the queue of answers or the answers (`PlaceInv`), as long as
none was refused. `LenInv` is about the count that `onMessage` does not renew, `LeaveInv` about
`connectDestroyed`, which stands behind all answers unless the client went while a thread was sending.

*Thread, BlockingQueue, ThreadPool.* The invariants say who holds the mutex at each place and, for the
queues, that as many threads were notified as there are items (or places) for those that wait
(`QueueInv`, `PoolInv`), which is what one `notify()` per item rests on. `PoolSound` also needs where each
worker is once the pool is stopped (`WorkerStages`): one that has begun its task after `stop()` passes the
test of `running_` before it could take another.

*AsyncLogging.* `SpareBuffersInv`: `append()` has used `nextBuffer_` up only if a full buffer waits to be
taken, so that a round takes as many buffers as it gives away. `LinesInv`: what is on disk, in stdio,
with the writer, in `buffers_` and in `currentBuffer_` is in order, one behind the other, and what is
missing was reported or lost to a short write.

*Date.* `CalendarInv`: the first day of a month is as many days after the first day of all as were counted.
Day numbers are linear in the years, leap days counted apart (`Carries`), so that a month's turn adds its
days (`MonthTurns`); the way back is by the divisions' remainders, one for the centuries, the years of
a century and the months of a year that begins in March (`Divisions`, `Shifted`, `DateOfDay`).

*TimeZone.* `lower_bound` finds the period a time is in (`PeriodAt`, by the least transition behind it);
a local time is searched among the transitions in local time, which are in the same order because they lie
further apart than offsets do, and is in the period's neighbour at most. `LeastOf`, that a set of naturals
has a least element, comes from the library's well-founded induction. `UpTo` and `SeqByAppend` of
`SequenceLemmas` rest on it: they stand in for the induction theorems that take an operator, with a set of
naturals or of sequences in its place. A recursive function over `0..n` is followed by them.

*LogStream.* `LogInv`: a stream is shorter than its buffer, begins with the four pieces of the header, and its
numbers read as they were given (`StreamSound`, `HasHeader`); a thread's `t_time` is in the zone that is set
unless it was set since. The recursion of `Digits` ends after three calls, which gives its value.

### Only model-checked

- Every liveness property: `LoopResponds`, `EveryFunctorRuns`, `StartAndStopEnd`, `EveryTimerRuns`,
  `EndsComplete`, `StopIsFinal`, `ServerServes`, `WorkServed`. Liveness under fairness and `ENABLED` are
  beyond the prover.
- `SudokuRight`. That a search with dancing links is complete speaks of all boards, and that it undoes
  its steps of rings that `Ring` follows recursively; the induction is over the rows' and columns' rings and
  over the depth of the search at once, and needs as an invariant what each of them holds at each depth.
- The `TypeOK` of `MCNet`, which joins the type invariants of its parts. That of the solver bounds the sizes
  of its columns, which rests on the same rings; those of Buffer and Messages are theorems, those
  of TcpServer, Rpc, TimingWheel and SudokuServer conjuncts of their inductive invariants.

## 7. What is not modelled

`PROJECT.json` names every component with its status. Left out on purpose:

- formatting (`Timestamp`, the text and floating point of `LogStream`), string views, zlib, system-call
  wrappers (`SocketsOps`), /proc, `InetAddress`, thin wrappers (`Singleton`, `ThreadLocal`, `Atomic`): no
  state of their own, or no step that another can interleave with;
- `inspect`: pages of text served over HttpServer, one lock around a map;
- examples that are single callbacks (echo, time, finger), the chat client, the protobuf dispatcher (a map
  filled before the server runs);
- within modelled components: exceptions of user functions, the text of dates and addresses, the checksum's
  arithmetic, `Buffer::findCRLF`, the multiplexer's counters, `ReadSmallFile`;
- a user's lifetime errors: users keep their `TcpConnectionPtr` until the functors they queued have
  run (`TcpConnection.cc:105` binds the raw `this`); callbacks do not throw;
- the multiplexer's test for more than a header and a byte (`Multiplexer.cpp:175`), which leaves a frame
  without payload in the buffer until more arrives: in the model it is one that has not been read yet;
- what undefined behaviour does afterwards: the models stop the actor (`"fault"`) or let the call have
  no effect (the close callback on a destroyed server, `TcpServer.cc:96`);
- in TcpClient: several clients on one connector, the destructor on another thread than the loop's
  (`TcpClient.cc:87` concedes the race), a client destroyed with a functor of its connector still
  queued.

## 8. The plan from here

The components with state and concurrency are modelled, and most safety properties that the runs check are
proved. What is left, in this order:

1. The logger's rolls: files are opened in order and none past its size but for the case section 5 names.
2. The remaining type invariants, and the rings of the sudoku solver that its own rests on.
