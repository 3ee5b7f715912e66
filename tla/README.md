# A TLA+ model of tiny_network

tiny_network is a small C++ network library in the manner of muduo: one
`EventLoop` per thread over epoll, `TcpConnection`s on top of it, a
`TcpServer` that deals connections out to a pool of loops, an asynchronous
logger and a small HTTP server.  This directory holds TLA+ modules that model
its parts, the TLC configurations that check them on small instances, and
proofs, checked by TLAPS, of the results that matter most.

Paths below are relative to the repository (`src/net/...`).

## 1. Inventory

| part | state it keeps | operations | interacts with |
|---|---|---|---|
| `EventLoop` (src/net/EventLoop.cc) | `quit_`, `looping_`, `callingPendingFunctors_`, `pendingFunctors_` under `mutex_`, the eventfd, `activeChannels_` | `loop`, `quit`, `runInLoop`, `queueInLoop`, `wakeup`, `doPendingFunctors` | called by every thread; calls the channels' handlers and functors |
| `EpollPoller` (src/poller/EpollPoller.cc) | `channels_`, `events_`, the kernel's epoll set | `poll`, `updateChannel`, `removeChannel` | called by its loop |
| `Channel` (src/net/Channel.h, .cc) | `events_`, `revents_`, `index_`, `tie_` | enable/disable, `handleEvent`, `remove` | registers with the poller, calls its owner's handlers |
| `TcpConnection` (src/net/TcpConnection.cc) | `state_`, `inputBuffer_`, `outputBuffer_`, its channel and socket | `send`, `shutdown`, `connectEstablished`, `connectDestroyed`, the four handlers | user callbacks; `TcpServer::removeConnection` as close callback; functors in its io loop |
| `TcpServer`, `Acceptor` (src/net) | `connections_`, `nextConnId_`, the listening socket | `start`, `newConnection`, `removeConnection`, destructor | base loop, pool, connections |
| `EventLoopThreadPool`, `EventLoopThread`, `Thread` (src/net, src/base) | `loops_`, `next_`; `loop_` under `mutex_`/`cond_`; the thread | `start`, `getNextLoop`, `startLoop`, `threadFunc`, destructors | one loop per thread, on the thread's stack |
| `Buffer` (src/net/Buffer.h, .cc) | a vector and two indices | `append`, `readFd`, `retrieve*`, `writeFd` | owned by a connection |
| `AsyncLogging`, `FixedBuffer` (src/logger) | two front-end buffers, two back-end ones, two vectors | `append`, `start`, `stop`, `threadFunc` | all threads log; one back-end thread writes |
| `LogFile`, `FileUtil` (src/logger) | the open stream, `writtenBytes_`, `count_`, `startOfPeriod_`, `lastRoll_`, `lastFlush_` | `append`, `rollFile`, `flush` | owned by the back-end thread |
| `Logger`, `LogStream` (src/logger) | `g_logLevel`, `g_output`, `g_flush`; one text buffer per statement | the `LOG_` macros, `operator<<`, `setOutput`, `setLogLevel` | every thread; stdout or `AsyncLogging` |
| `HttpServer`, `HttpContext`, `HttpRequest`, `HttpResponse` (src/http) | parser state and request per message, the callback | `onMessage`, `parseRequest`, `onRequest` | user of `TcpServer`; the application's callback |
| `InetAddress`, `Timestamp` | none that changes | conversions | everywhere |

What is hard about this code, and therefore what the properties are about:

* **Hand-over between threads.** A functor is appended under a mutex, the
  wakeup is sent after it is released, and the loop thread swaps the vector out
  in between.  Lost wakeups, lost or repeated functors and wrong order are the
  things to exclude.
* **Events, functors and calls in any order.** A connection is closed by
  epoll, by `read`, by the user; sends and shutdowns come from other threads
  through the queue and may run after the connection is gone.
* **Four copies of one fact.** `events_`, `index_`, the poller's map and the
  kernel's epoll set must agree, or `epoll_ctl` fails and the process aborts.
* **Start and stop.** Loops live on other threads' stacks; `loop_` is read
  without its mutex; `quit()` can come too early.
* **Lifetimes.** A connection is held by `shared_ptr`s in the server's map, in
  queued functors and in the application, and pointed to barely by epoll, by
  `activeChannels_` and by functors that bind `this`.
* **Limits.** The buffer pool of the logger, `resize_` and `extrabuf` of
  `Buffer`, descriptors that run out, a log line that does not fit, a disk
  that takes a part of what it is given.
* **A stream cut anywhere.** HTTP requests arrive in reads that end wherever
  TCP lets them.

## 2. Modules

| module | models | state / actions |
|---|---|---|
| `TaskQueue` | promise of `runInLoop`/`queueInLoop` | abstract: a queue of functors; submit, execute |
| `EventLoop` | EventLoop.cc, `EpollPoller::poll` | one action per critical section, atomic access or system call of `loop`, `doPendingFunctors`, `queueInLoop`, `quit`; any number of other threads |
| `Channel` | Channel.h, `EpollPoller::updateChannel/removeChannel/update` | operators on a channel record with its epoll registration |
| `TcpConnection` | TcpConnection.cc, Channel.cc dispatch, `removeConnection*` of TcpServer.cc | one action per handler, functor and user call; worker threads step by access; the socket and the peer are external |
| `ByteQueue` | promise of `Buffer` | abstract: a queue of bytes |
| `Buffer` | Buffer.h, Buffer.cc | operators on the vector and its indices, called in any order |
| `AsyncLogging` | AsyncLogging.cc, FixedBuffer.h | front-end `append`, back-end `threadFunc`, `start`, `stop` |
| `EventLoopThreadPool` | EventLoopThreadPool.cc, EventLoopThread.cc, Thread.cc | owner (start, deal out, destroy) and one process per loop thread |
| `TcpServer` | TcpServer.cc, Acceptor.cc, socket.cc, and of TcpConnection.cc and Channel.cc what makes, watches and ends a connection | the server's thread from `start()` to the destructor, a queue and an active list per loop, one record per connection, an application thread per connection that may call `send()` in two steps or `shutdown()` in three; events, output and the `Channel` of each connection |
| `HttpContext` | HttpContext.cc, HttpRequest.h, HttpResponse.cc | operators: request line, headers, response; text is a sequence of tokens |
| `HttpServer` | HttpServer.cc, `parseRequest`, the demo's callback (main.cc) | one connection: a read of any length, one step per parsed line, the end of `onMessage` |
| `LogStream` | LogStream.cc, FixedBuffer.h, the text of Logging.cc | operators: `append`, `formatInteger`, the line of a statement |
| `LogFile` | LogFile.cc, FileUtil.cc | begin of an append, each `fwrite`, the decision behind it, flushes that may fail, the clock |
| `Logger` | Logging.h, Logging.cc, and the rounds of `AsyncLogging::threadFunc` | composes `LogStream` and `LogFile`: statement, level, output, whole buffers through the back end, `stop()`, abort |
| `*Proofs` | | theorems about the module of that name |
| `MC*` | | the instances that TLC checks |

How they fit together: `EventLoop` is proved to implement `TaskQueue`, and
`TcpConnection` uses its io loop only as such a queue whose functors run
between dispatches.  `Buffer` is proved to implement `ByteQueue`, and
`TcpConnection` uses `outputBuffer_` as such a queue.  `EventLoopThreadPool`
keeps of each loop only what `EventLoop` says of its life: `quit_` is cleared
on entry and a quit after that ends it.  `TcpServer` takes each loop as a
`TaskQueue` and each connection's channel from `Channel`; `TcpConnection` has
the data of one connection; `TcpServer` has the lives of all, and of the data
of each whether output is left.  `Logger` takes the two sides of `AsyncLogging`
as the queue that `WritesInOrder` shows them to be (proved in
`AsyncLoggingProofs`), but as a queue of slots and not of lines: the back end
appends `data()` and `length()` of each buffer (AsyncLogging.cc:89-92), and
`length()` is the whole array (FixedBuffer.h:32), so the slots behind the last
line go to the file too.  Such a slot is `Stale`: zeros, junk or a line of an
earlier use, which `AsyncLogging` tells apart and `async_stale` shows.  The
history variable `sent` holds the slots of all buffers in their order.

Each component module contains, before a definition that models code, the
operators named *Fault for P*: plausible mistakes in that code under which
property P fails.  They take no part in the specification.

### Abstractions

* A handler of a connection is one step up to the user callback that ends it;
  nothing but `state_` and the task queue is shared with other threads, and
  these are accessed at most once before the callback.  User code on the loop
  thread is any finite sequence of `send` and `shutdown`.
* `inputBuffer_` is a count of reads not yet taken; `outputBuffer_` is the
  sequence of bytes, each named by message and position.
* `std::function` callbacks that the user need not set are taken as set.
* The connection is taken as alive while functors with a raw `this` are
  queued, and the caller's string while its `c_str()` is (both are hazards of
  the code that the application must avoid).  SIGPIPE is taken as ignored by
  the application; the library does not do it.
* A log line is one slot of a `FixedBuffer`: `Logger` always passes the full
  length of its own buffer, so all lines have the same length, and a
  `FixedBuffer` has `Slots` of them.  Since `append` wants `avail() > len`, the
  last slot is never filled (in the code it may be shorter than the others).  A
  buffer that was never set holds blanks or junk, by choice.
* `TcpServer` destroys the server, as the examples do, on the base loop's
  thread after `loop()` has returned and outside any call of the application
  on a connection.  With `AppKeepsPtr = TRUE` the application keeps its
  `TcpConnectionPtr` until the functors of its calls have run.  A `Setup`
  record says how the server is used: `threads` and `fds`, which calls the
  application makes off the loop thread (`off`) and how many there are
  (`calls`); calls on the loop thread are always both `send` and `shutdown`.
  Output is a flag, `out`: bytes are left in `outputBuffer_`; how many is the
  matter of `TcpConnection`.  A poll finds room in the kernel's send buffer or
  does not, by choice.  Data of the peer is left out, its close and its reset
  are there.
* A word of HTTP text is one token: the parser looks at a line only when its
  CR LF is there.  What clients may write is `IsRequest` in `HttpServer`: any
  method, version, path, query and headers that do not hold the separator that
  ends them; a query begins with `?`; the blanks around a header's value are
  not part of it; header lines have a colon (a line without one ends the
  headers, HttpContext.cc:104).  Clients write no body: POST and PUT requests
  are among those written, since `setMethod` takes them, but HttpContext.cc:118
  says that only GET is supported, and bytes behind the headers would be
  parsed as the next request.  The address and the receive time of a request
  are left out.
* In the logger a digit is a symbol, a word is one symbol, and a line on disk
  is `LineLen` bytes.  On disk each byte has its place; `Lost` stands where a
  `write` of stdio failed and dropped it, which neither `fflush` nor `fclose`
  is asked about (FileUtil.cc:14 and 44).  `LogFile` reads the clock once per append where the code
  may read it twice.  A numeral is shorter than `kMaxNumericSize`
  (`StatementsAssumption`: 48 against the 20 characters of the longest
  integer); `formatInteger` does not look at its length.
* In the pool a second read of the unlocked `loop_` sees the old or the new
  value.

## 3. What TLC checks

| run | instance | result |
|---|---|---|
| `event_loop` | 2 other threads, 3 functors, 1 io channel, event list of 1, eventfd limit 2 | passes (133 thousand states): types, `NoLostWakeup`, refinement of `TaskQueue`, `QueuedFunctorRuns`, `ReadyIsHandled`, `QuitEnds` |
| `event_loop_quit` | 1 thread, 1 functor | `QuitIsHonoured` fails: `loop()` clears a `quit()` that came first |
| `tcp_connection` | 1 worker, 2 messages of 2 bytes, socket buffer of 2, high-water mark 3 | passes (303 thousand states): `InOrder`, `OutputIsWatched`, `PollerConsistent` |
| `tcp_close` | the same with a socket buffer of 1, shutdown only on the loop thread | passes: `DownIsCleanedUp`, `OutputDrains` |
| `tcp_shutdown` | the same | `ShutdownCompletes` fails: `disableWriting` lacks its `~` |
| `async_logging` | 6 lines, 3 slots per buffer | passes (65 thousand states): `BuffersSuffice`, `WritesInOrder`, `LineReachesFile` |
| `async_stale` | 2 lines, 2 slots | `WritesWhatWasLogged` fails: `length()` is the whole array |
| `buffer` | reserve 2, size 3, extrabuf 4, 12 bytes | passes (17 thousand states): `IndicesInBounds`, `SizeBounded`, refinement of `ByteQueue` |
| `loop_pool` | 3 threads, each loop dealt out twice, with and without loops that user code ends | passes (17 thousand states): `PointerIsLive`, `NoBadAccess`, `DealtLoopsLive`, `PoolStarts`, `PoolStops` |
| `tcp_server` | no pool, or 1 or 2 pool loops; 2 clients; 1 or 2 descriptors; up to 2 calls, off the loop thread `send` or `shutdown` | passes (80 thousand states): `NothingDangles`, `UpThenDown`, `ClosedIsReleased`, `WaitingClientServed` |
| `http` | 4 clients of 1 to 3 requests (query, repeated header, unknown method or version), 3 callbacks, reads cut at every token | passes (6 thousand states): `ParsedIsWritten`, `ResponsesInOrder`, `BadRequestHasCause`, `StreamAnswered` |
| `logging` | 3 lines of 1 byte out of 2 statements, 2 levels, a text buffer of 24, buffers of 2 slots, roll beyond 4 bytes, days of 2 seconds, 3 seconds, a check every 2 appends | passes (241 thousand states): `DiskIsPrefix`, `RolledInTime`, `LineIsStatement`, `LoggedReachesDisk` |

The three failing properties state what a comment or the repository's README
says of the code; the counterexamples are behaviours of the code.

What the passing runs tell of the code beyond that nothing is wrong:

* `NothingDangles` needs `AppKeepsPtr = TRUE`.  With FALSE it fails:
  `shutdown()` tests `state_`, the connection is closed and destroyed, the call
  goes on to queue a functor with a bare `this`, and the application lets the
  last pointer go before the functor has run.
* `NothingDangles` and `UpThenDown` need `OneKind`: off the loop thread the
  application sends on its connections, or shuts them down, but not both.  With
  `off = {"send", "shutdown"}` `UpThenDown` fails.  `shutdown()` tests `state_`,
  the peer's close runs `handleClose`, and TcpConnection.cc:158 overwrites
  `kDisconnected`.  A `sendInLoop` that was already queued passes the test at
  line 101, and `enableWriting` at line 150 puts the channel back in the
  poller, from where the next EPOLLHUP runs `handleClose` once more.
* `ClosedIsReleased` and `WaitingClientServed` except a connection that is
  `Deaf`: it has had output waiting, and `disableWriting` (Channel.h:40) has
  taken it EPOLLIN, so the peer's close is not read.  Its descriptor comes back
  only after a reset, or after a close once the socket is shut down (EPOLLHUP).
* `UpThenDown` does not say that each connection is reported down.
  `connectDestroyed` skips the report in state `kDisconnecting`, and functors
  still queued when a pool loop ends are dropped.
* `BadRequestHasCause` has the cut as one of its causes: a well-formed request
  that arrives in two reads is answered with 400, since every message starts
  with a new context.  `ResponsesInOrder` is therefore about uncut requests.
* `DiskIsPrefix` lets a FATAL line be lost when `AsyncLogging` is the output:
  `g_flush` flushes stdout only.  What it says of the disk is that every byte
  of every buffer, stale slots included, is in its place or lost: it does not
  say that the file holds nothing but lines, which `async_stale` refutes.
* `LoggedReachesDisk` has three exceptions, all of them in the code: the
  process aborts; a flush fails and nobody looks; `stop()` comes while the line
  is in a buffer of the front end, which the back end, finding `running_`
  false, does not collect again (AsyncLogging.cc:65).
* `RolledInTime` is as weak as the code: a file grows without limit within the
  second it was opened in, and is written to `checkEveryN - 1` times after its
  day has ended.
* A send that was queued before `shutdown()` is written after it (`sendInLoop`
  tests for `kDisconnected` only).  `DownIsCleanedUp` excludes a worker's
  `shutdown()`, and `LineReachesFile` excludes `stop()`, for the reasons above.

**Bounds.** Each functor, message and line occurs once (`Functors`,
`Messages`, `MaxLines`), the peer sends `MaxPeerSends` times, `MaxBytes` bytes
pass a buffer, each loop is dealt out `MaxGiven` times, `MaxClients` clients
connect and the application makes `calls` calls on them, the clock stops at
`MaxTime`, and behind `MaxSlots` slots a buffer without a line is not
collected (the back end of the code writes one every three seconds).  The instances are just
large enough for the interesting cases: an event list smaller than the number
of ready descriptors, an eventfd that refuses a write, functors queued by
functors, a partial write followed by a send, a high-water crossing, a swap
while the spare buffer is in use and a third one is allocated, a `readv` that
ends before, at and behind the end of the vector, a client that waits for the
descriptor of another, a connection that closes while the server is destroyed,
a send that waits behind a close, a backlog that is drained,
two requests in one read and one in many, a roll that is refused and made up
for later, a day that ends between two checks, a buffer that is written
half full, a flush that fails in the middle, a statement that does not fit.
`tcp_server` has five setups and not their product: no pool and one
descriptor, with two calls and sends of another thread, or with one call and
shutdowns of it; a pool of one with a send that waits in its queue; pools of
two with connections side by side and no calls, and with one descriptor and a
shutdown.

**Deadlock** is checked except for `TcpConnection`, `EventLoopThreadPool`,
`TcpServer`, `HttpServer` and `Logger`.  A server that is gone, an HTTP client
that has sent everything and closed, and a process that has aborted have
nothing left to do.  A connection that is down, or idle with a peer that does nothing more, has no
step left.  The pool may really stop: a `quit()` that came before `loop()` is
lost and `join()` waits for ever; a loop that user code ended before
`startLoop` looked leaves it waiting on `cond_`.

**Fairness.**  `EventLoop!FairSpec`: the loop thread goes on (weak fairness of
its steps together), and a thread inside `queueInLoop` comes out of it.  The
poll timeout is not among the fair steps, so `QueuedFunctorRuns` does not lean
on it; `QuitEnds` names it as its premise.
`TcpConnection!FairSpec`: `loop()` alternates between dispatch and functors,
each of which may be interrupted by the other for ever but is not skipped for
ever; hence strong fairness for `Dispatch` and `RunTask`
(`QueuedFunctorRuns` is what `EventLoop` gives for the latter).  Callbacks
return, begun calls are finished, and the peer reads what was sent.  The peer
need not send, close or reset.  `AsyncLogging!FairSpec`: the back-end thread
runs; its `wait_for` ends after three seconds.
`EventLoopThreadPool!FairSpec`: all threads run; a wait on `cond_` must end
only if it was notified.
`TcpServer!FairSpec`: every round of `loop()` handles its events and runs its
functors, so a functor that is first in its queue again and again is run
(strong fairness), however often accept fails in between.  An application
thread inside a call comes out of it.  Clients close in the end and the
application drops its pointers, without which no descriptor comes back.
Neither a reset nor room for output is fair.  Neither quitting nor destruction is fair.
`HttpServer!FairSpec`: the loop thread finishes a message it has begun; clients
need not send or close.
`Logger`: the back end runs, and an `fwrite` takes a byte in the end; stdio
need not write its buffer out by itself, and the clock need not tick.

**Conditions in properties.**  `DownIsCleanedUp` is checked with `shutdown()`
on the loop thread only.  From another thread it can overwrite `kDisconnected`,
after which a late send may register the channel again.  `NoBadAccess` and the liveness of
the pool hold when user code leaves `quit()` on pool loops to the pool.
`OneKind` and `AppKeepsPtr` are the conditions of the server's properties.

## 4. What is proved

For every value of the constants allowed by the named assumptions:

| theorem | says | argument |
|---|---|---|
| `EventLoopProofs!TypeCorrect` | `TypeOK` | inductive by itself |
| `EventLoopProofs!WakeupNeverLost` | `NoLostWakeup` | strengthened by what holds at each place of the loop: `callingPendingFunctors_` is up exactly in `doPendingFunctors`, so a functor queued by a functor sends its wakeup; from the swap on, every functor in the queue came after it; the eventfd is read to zero only before the swap |
| `EventLoopProofs!ImplementsTaskQueue` | `Spec => TaskQueueSpec` | the queue is `functors \o pendingFunctors`; the local vector is empty whenever the swap happens, each functor is in at most one place and not yet executed |
| `TcpConnectionProofs!StreamInOrder`, `BufferedOutputWatched`, `PollerStaysConsistent` | `InOrder`, `OutputIsWatched`, `PollerConsistent` | one inductive invariant: types, consistency of the channel record, what is known of the channel before and after the connection is reported down, and that buffered bytes imply the write event in `events_` |
| `BufferProofs!IndicesStayInBounds`, `SizeStaysBounded`, `ImplementsByteQueue` | bounds, size, refinement of `ByteQueue` | indices in bounds make every copy a copy of exactly the readable bytes; the size bound uses that `resize_` grows only when the free space before and behind the readable bytes is too small |
| `AsyncLoggingProofs!PoolNeverDry` | `BuffersSuffice` | the spare buffers are there whenever the back end is not writing; while it is, it holds one written buffer for each spare one that it gave away, because a missing `nextBuffer_` means that the front end handed a full buffer over |
| `AsyncLoggingProofs!LinesStayInOrder` | `WritesInOrder` | the places of the filled parts are counted through: moving a buffer from `currentBuffer_` to a vector, or the vector to the back end, renames places and keeps their order (`OrderInv`); the spare buffers, and those recycled, are empty (`EmptyInv`) |
| `EventLoopThreadPoolProofs!LoopPointerIsLive`, `DestructionIsClean`, `EveryDealtLoopLives` | `PointerIsLive`, `NoBadAccess`, `DealtLoopsLive` | `loops_` is the list of the threads started so far (`LoopsInv`, `StartInv`); a thread's place fixes whether its loop is on the stack and `loop_` set (`LifeInv`); nobody but the destructor ends a loop when user code does not (`QuietInv`) |
| `TcpServerProofs!ReportedUpThenDown` | `OneKind` and `AppKeepsPtr` imply always `UpThenDown` | `connectEstablished` waits only before it has run and is the first functor of its connection (`FunctorInv`, `OrderInv`), so nothing reaches a connection that is not up; the report down is made only while epoll watches the channel or `state_` is `kConnected`, which both mean up and not down (`ConnInv`); a `sendInLoop` that does not find `kDisconnected` finds a channel that is still watched, because `kDisconnected` is not overwritten while a send is under way and only `~TcpServer` queues `connectDestroyed` for a connection that has not closed, behind every send (`SendInv`) |
| `TcpServerProofs!NothingEverDangles` | `OneKind` and `AppKeepsPtr` imply always `NothingDangles` | the map holds the connection until `removeConnectionInLoop`, which queues `connectDestroyed` with a pointer of its own, which takes the channel off the poller (`LinkInv`, `ActiveInv`, `FunctorInv`), and no late send puts it back (`SendInv`); the application's pointer is there for the functors that bind `this` |
| `LoggerProofs!DiskStaysPrefix` | `DiskIsPrefix` | a round's `batch` is made of whole buffers and is empty, as an append's `rest` is, when it is over (`IdleInv`), so each buffer's bytes follow those before it; `BytesOf` is a homomorphism from slots to bytes; a flush of any length leaves each byte in its place or `Lost` |
| `LoggerProofs!FilesRollInTime` | `RolledInTime` | the clock does not go back, so a day that is over stays over, and each late append was counted since the last check (`RollInv`) |
| `LoggerProofs!LinesAreStatements` | `LineIsStatement` | the loop's digits, last one first, turned round are the numeral from its front, by induction on the absolute value; a negative number has the digits of its opposite because the table is the same on both sides of zero; by induction on the pieces the line is the text without those at which the buffer did not change, and none is when `kMaxNumericSize` is left free |
| `HttpServerProofs!RequestsParsedAsWritten` | `ParsedIsWritten` | the buffer and the unread text are a window of the client's text that begins where a line does (`TextInv`); the first CR LF in it is that line's end, and the separators cut the line where the client put them; hence the context is new, or holds the first headers of the request that began where this parse did (`Halfway`), or all of it (`Complete`), or has failed on a request line it does not know (`ContextInv`) |
| `HttpServerProofs!AnswersInOrder` | `ResponsesInOrder` | without a cut a parse begins and ends where a request does (`CutInv`), and the answers so far are those to the requests before it (`AnswerInv`) |
| `HttpServerProofs!BadRequestCaused` | `BadRequestHasCause` | a parse that ends without a request has met a request line it does not know, or the text ran out within a request, which is a cut |
| `TypeCorrect` of `HttpServerProofs`, `TcpConnectionProofs`, `BufferProofs`, `AsyncLoggingProofs`, `EventLoopThreadPoolProofs`, `TcpServerProofs` | `TypeOK` | part of the inductive invariant of each module |

Each of these inductive invariants is called `IInv` in its module and is a
conjunction of the named parts above (`EventLoopProofs` adds `QueueInv` for the
refinement).  `TcpConnectionProofs` and `TcpServerProofs` each begin with the
lemmas about the operators of `Channel` that they need: what enabling,
disabling and removing do to a consistent record.

`HttpServerProofs` and `LoggerProofs` need inductions over data: over the
lines of a text, the headers of a request, the digits of a number, the pieces
of a statement.  They are made with a least counterexample: `LeastNumber` says
that a set of numbers with a member has a least one, `Induction` that a set
with 0 and the successor of each member has all numbers.  That a recursive
definition has a solution at all, and what its values are, is proved in the same
way (`JoinsExists`, `RoundsExist`, `BackwardsIs`, `NumeralOfIs`).

In `TcpServer` most steps change one connection: `StepOn` and `OneConnection`
say what such a step leaves alone, so that an action has to be looked at only
for the connection it is about.

The assumptions are the `ASSUME`s of the component modules: sizes are
naturals, a `FixedBuffer` has room for two lines (a line that would fill it is
refused), a line has at least one byte, `checkEveryN` and
`kRollPerSeconds` are positive, the loop thread is not one of the others.
Only the theorems about `TcpServer` have hypotheses on constants: `OneKind`,
and for two of them `AppKeepsPtr`.  Section 3 says what fails without them.
(`ReportedUpThenDown` needs `AppKeepsPtr` because a functor that runs on a
connection that is gone may do anything.)

What the proofs about HTTP assume of clients is `IsRequest`, and those about
the text of a line what a `LOG_` statement can be made of
(`StatementsAssumption`).  Neither bounds the number of requests, headers,
words, pieces or digits.

Every invariant that a run checks, and both refinements, have a theorem.  Only
model-checked: the liveness properties (`QueuedFunctorRuns`, `ReadyIsHandled`,
`QuitEnds`, `DownIsCleanedUp`, `OutputDrains`, `LineReachesFile`, `PoolStarts`,
`PoolStops`, `ClosedIsReleased`, `WaitingClientServed`, `StreamAnswered`,
`LoggedReachesDisk`), because fairness and `ENABLED` are outside the prover's
reach, and the three violations, which are counterexamples and not theorems.

## 5. What is not modelled

* `InetAddress`, `Timestamp`: conversions without state.
* Floating point in `LogStream` (it is `snprintf`'s), the errno prefix of
  `Logger::Impl` (no constructor passes one).
* Socket options, names of threads and connections, the layout of responses.
* Timers: the repository's README speaks of timerfd, the source has none.
* Failures the code does not look at: `fopen`, `bind` and `listen` (the latter
  two end in `LOG_FATAL`), memory that runs out.
* The semaphore in `Thread::start` is taken as one step; the inside of
  `sem_post` is not modelled.

## 6. Plan

The plan of the modules, the runs and the theorems has been carried out.  What
would come next: fopen that fails and SIGPIPE as steps of their own (both end
the process today), once the code handles them; who may take which step of the
pool and of the server, as action properties of the same invariants; and the
three violations as theorems of the repaired code.
