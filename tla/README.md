# Mini-Reactor in TLA+

Mini-Reactor is a C++17 network library in the one-loop-per-thread style (an
edge-triggered epoll reactor, timers, a TCP server and client, an HTTP layer, an
asynchronous log, a TCP proxy), and a guest-book program built on it. This
directory holds a specification of the parts whose correctness rests on the
order in which threads, kernel events and crashes happen. TLC checks every
module on small instances; TLAPS proves every safety invariant and every action
property that the passing runs check, and the steps of the refinement, for every
value of the constants. Liveness is TLC's alone.

Paths below are relative to the repository. `PROJECT.json` maps every
definition to the lines it models, lists the runs, the hazards and the findings.

## 1. Inventory

| Component | State | Operations | Hard because |
|---|---|---|---|
| `EventLoop`: polling and functors (`src/net/EventLoop.cpp`) | `pending_functors_`, `quit_`, the eventfd, `events_` | `Loop`, `RunInLoop`, `QueueInLoop`, `Wakeup`, `HandleRead`, `Quit`, `QuitFromSignal` | any thread and a signal handler act on a loop that is about to sleep |
| `EventLoop`: timers | `timers_`, `active_`, `canceling_timers_`, the timerfd | `RunAfter`, `RunEvery`, `CancelTimer`, `HandleTimerfd` | callbacks add and cancel while the round goes over its snapshot |
| `Channel` | interest, `index_`, the kernel's entry | `Enable/Disable…`, `UpdateChannel`, `RemoveChannel`, `HandleEvent` | the kernel keeps a raw pointer |
| `TcpConnection` | `state_`, the two buffers | `ConnectionEstablished/Destroyed`, `Send`, `Shutdown`, `HandleRead/Write/Close/Error` | end of file, reset and hang-up come in any combination |
| `Acceptor`, `TcpServer` | `connections_` keyed by descriptor | accept loop, `NewConnection`, `RemoveConnection` | two threads share a connection's life; descriptor numbers are reused |
| `EventLoopThreadPool` | loops, threads, `next_` | `Start`, `Stop`, `GetNextLoop` | hand-over of stack-allocated loops |
| `Buffer` | bytes, two indices | `Append`, `Retrieve`, `MakeSpace`, `ReadFd` | index arithmetic |
| `Connector`, `TcpClient` | connect state, retry delay | `Start`, `Stop`, `Retry`, `HandleWrite`, `Disconnect` | a stop races a completing connect or a retry timer |
| `ProxySession` | two connections, pause flags, pending data | flow control, `Teardown` | callbacks of two connections, some deferred |
| HTTP (`src/http/`) | parser state | `ParseRequest`, `OnMessage` | fragmented and pipelined input |
| `AsyncLogging` | four buffers that change hands | `Append`, `ThreadFunc`, `Start`, `Stop` | recycling relies on how producer and backend work together |
| `ThreadPool` | task queue, `stop_` | `AddTask`, `Stop`, `Run` | concurrent stops |
| `CommentRepository` (`app/repository/`) | ring, sequence counter, task queue, SQLite | `Initialize`, `PushComment`, `EraseComment`, `DBWorkerLoop`, `Shutdown` | lock-free numbering, batches that may fail, crash and restart |
| `BlacklistManager` | rules (words, nicknames, addresses), a file | `Initialize`, `Reload`, `AddBatch`, `PersistToFile`, `CheckComment` | the file is read outside the lock, edited by an operator and written back by bans |
| `SysMetricsDaemon` | average load, breaker flag | sampling loop, `Stop` | two thresholds, smoothing, and a flag the agent also sets |
| `HttpDispatcher` | none of its own | posting, agent control, reload | one request goes through three shared objects |
| `main.cpp`, `proxy_main.cpp` | loops, log, daemons on the stack | start-up, signals, end | order of destruction against running threads |
| `agent_daemon.py` | none | looks at comments, answers late | its answer is about a past state |

Interaction: every loop is reached from other threads only through
`RunInLoop`/`QueueInLoop` (and `Quit`); that queue is the contract `FunctorQueue`
states. Timers and connection removal are functors on it. The server's main loop
and sub loops exchange connections by it. The application's handlers, on the sub
loops, call the repository; its own thread talks to SQLite. Everybody appends to
the log. At the end `main` leaves the main loop, destroys the server, shuts the
repository down and stops the log, in this order. `SIGINT` and `SIGTERM` end the
main loop through `QuitFromSignal`; the reload listener is a detached thread that
nothing waits for.

What makes each part correct: the loop never sleeps on queued work or on a
quit, and executes functors once and in order; a timer is found in both tables or
in none and the timerfd is never left unarmed; a channel in epoll belongs to a
live object, and descriptors are closed once and by their owner; a connection is
made or given up without leaving anything behind; the proxy neither loses data nor
buffers it without bound nor stalls; the database
catches up with what callers were told and survives crashes; no log line is lost,
repeated or reordered; every request is handed over once and with its own bytes,
however the input is cut; what is banned stays blocked; the breaker follows the
load; no thread touches a loop or a start-up record that is gone, and a signal
ends the program.

## 2. Modules

| Module | Models | Uses |
|---|---|---|
| `FunctorQueue` | abstract: what a loop promises to those who queue functors | |
| `EventLoop` | polling, dispatch, functors, wakeup, quit | `FunctorQueue` (refinement) |
| `TimerQueue` | the timers of a loop, on top of the abstract queue | |
| `Channel` | a channel and its epoll entry, as values | |
| `TcpConnection` | a connection and its socket, as values | `Channel` |
| `TcpServer` | main loop, sub loops, clients, descriptor table | `TcpConnection` |
| `TcpClient` | `Connector` and `TcpClient`, their owner, the loop's pass | |
| `ProxySession` | one proxied client: both connections, flow control, teardown | `Channel` |
| `CommentRepository` | ring, task queue, database thread, crash, restart | |
| `AsyncLogging` | front and backend of the log, its stop | |
| `Buffer` | bytes and the two indices, as values and operators | |
| `HttpContext` | one connection's parser and codec over input cut anywhere | `Buffer` |
| `BlacklistManager` | the rules, their file, reading and writing it | |
| `HttpDispatcher` | the handlers that change state, in several threads | `BlacklistManager` |
| `SysMetricsDaemon` | average, breaker, the agent's access to the flag | |
| `MainProgram` | start and stop of the sub loops, the signal, the end of `main` | |
| `MC…` | model-checking instances | |
| `EventLoopProofs`, `TimerQueueProofs`, `TcpServerProofs`, `TcpClientProofs`, `ProxySessionProofs`, `AsyncLoggingProofs`, `CommentRepositoryProofs` | theorems and proofs (section 4) | the module of that name, TLAPS |
| `ApplicationProofs` | the same for the program around the library | `MainProgram`, `SysMetricsDaemon`, `HttpContext` with `Buffer`, `HttpDispatcher` with `BlacklistManager`, TLAPS |

In every module the variables that carry the source's names (`quit_`,
`pending_functors_`, `active_`, `connections_`, `m_db_queue`, `currentBuffer_`…)
are the members of that name; a `…pc` or `phase` variable is a thread's position
between two visible steps; variables marked *history* exist for the properties
only. Definitions introduced by "Variant:" are plausible errors, used to
confirm that each property can fail; no action uses them.

**EventLoop.** A critical section on `mutex_` is one step; the write to the
eventfd that follows the unlock is another (`Wakeup`), and so is every stage of a
pass: testing `quit_`, `epoll_wait`, each handler, the swap, each functor. While a
handler or functor runs (`inCallback`) the loop thread may itself queue, run in
place, or quit. epoll is external: an edge puts a channel on the ready list,
`epoll_wait` polls the listed files again and reports at most `events_.size()` of
them. The array starts at one entry in the runs so that it overflows and grows.

**TimerQueue.** Calls from the loop's own thread act at once, calls from other
threads are functors in one FIFO, which is what `FunctorQueue` promises and
`EventLoop` is shown to provide. The clock moves at any moment, also between two
callbacks of a round. A timer is an id and a key; the order of equal keys is left
open. `timerfd_settime` forgets an unread expiration, as in Linux.

**Channel, TcpConnection, TcpServer.** The first two describe a channel and a
connection as records and their handlers as operators from record to record; the
server's actions apply them. Sizes of data are reduced to what the code branches
on: whether unread input, end of file, an error, a backlog or room in the send
buffer is there. The HTTP codec's use of a connection is `OnMessage`: a reply,
which the kernel may take completely or in part, and possibly `Shutdown`. A
connection object exists while a `shared_ptr` to it does (`Referenced`). A
descriptor returns to the pool when `ConnectionDestroyed`'s object closes it, and
`accept4` may hand it out at once. The accept loop ends on `EAGAIN`, when nobody waits
(`AcceptEnds`), or on any other error, which may come at any moment, whoever waits
(`AcceptFails`).

**TcpClient.** Connector and client are one record; an attempt is numbered by its
socket. The owner connects, and later calls `Disconnect`, `Stop` and releases the
client, either inside a handler of the loop (as `ProxySession::Teardown` does,
everything at once) or from another thread (every store and every push a step),
and may also stop from the error callback. The Connector's channel leaves epoll
at once and is destroyed by a functor. Two assumptions: `Connect` is called once,
and a pass of the loop is shorter than the first retry delay (half a second); without
them the functor of one attempt could destroy the channel of the next.

**ProxySession.** `Start` has been called and the upstream connects at any later
moment or never. Data are numbered chunks, one per read, so that order and loss can
be stated; the output buffer is a sequence and the kernel's send buffer has room
for `Room` chunks. `HandleRead`'s loop is one step per chunk, with the peers moving
in between; the other handlers are one step. Events are reported for both sides at
once and handled one after the other, so an event may be stale: reading that was
paused after it was reported still takes one chunk. The removal of the downstream
connection is `TcpServer`'s, the fate of the upstream one after teardown
`TcpClient`'s.

**CommentRepository.** Taking the number (an atomic increment) and filling the slot
(under the slot's mutex, task queued inside it) are two steps, so posters overtake
each other. The worker's test of its predicate and its falling asleep are two steps
because `Shutdown` stores and notifies without the mutex; posts, which hold it, are
excluded in between. Each SQL statement may be refused. In `Initialize` a refused SELECT
counts as the rows read so far, for the code does not look why the rows end; a life that
has read none of a table that has some is `blind`. In a batch a refused statement spoils
the batch, which is then rolled back, and may also end the transaction, as SQLite does on
some errors (`sqlite3.h`, `sqlite3_get_autocommit`): then the statements behind it commit
one by one. The open transaction (`tx`) is the set of the one table that a commit would
make the database's, or empty. `Crash` may happen at any time and loses everything but the
committed table. The agent's look and its answer are separate steps with anything in
between.

**AsyncLogging.** A buffer is the sequence of its lines; moved-from pointers are
`Null`, and dereferencing one, or taking `back()` of an empty vector, sets
`undefined`. Threads are those joined before `Stop()` (the sub loops) and those
that are not (the reload listener, which goes on logging in the run).

**Buffer, HttpContext.** A buffer is the vector's bytes with `reader_index_` and
`writer_index_`, and every operation an operator on it, including the choice
between compaction and growth in `MakeSpace` and the stack buffer of `ReadFd`.
A line's text is one symbol, carriage return and line feed are symbols of their
own, so that a cut may fall between any two of them. A pass of `ParseRequest`'s
loop is one step and so is a pass of `OnMessage`'s. Of a line only its spaces, its
colon and its content length matter, which may be refused by `stoi` or negative. A
message is a record of its lines, its body, the bytes that encode them and the request
it stands for; `IsMessage` says what a client may send: lines without a line break, no
empty header, and a body as long as the last `Content-Length` says, or a line that is wrong,
and then the request is `Malformed` and nothing is said of the body.

**BlacklistManager, HttpDispatcher.** A rule is a dimension (word, nickname, address)
and a name. Writing the file and reading it again is not the identity. The order of
the names within a section is left open. `Written` gives, for each name, the lines that
`getline` and `Trim` make of it: blanks at its ends are lost, and it may be several
lines. `FetchLatestBlackList`, whose subject is the file as a sequence of lines, skips a
line that is empty or a comment, and takes one in brackets for a section tag: a line
belongs to the last tag before it. A name is `Plain` when the file gives it back.
`Reload` reads without the lock and replaces with
it; `AddBatch` holds the lock while it truncates and writes the file, in two steps,
so that a reload may read in between. An agent's request erases and
collects authors comment by comment, then bans the batch. `EraseComment` overwrites
the author with a placeholder and succeeds again on the same comment.

**SysMetricsDaemon.** Loads are `double`s in the code. A sample stands for any load
within one per mille, and the average is an interval with whole ends that the code's
figure lies in, rounded outwards at every step; where a threshold lies inside, both
outcomes of the comparison are possible. `BreakerFollowsLoad` speaks of samples of at
least 96 per cent (`HotFrom`) and at most 79.6 (`CalmUpTo`): four samples take the
average only 99.19 per cent of the way, so that from 100 four samples of 79.9 end above
80 and do not switch the breaker off. The load of the flag and its store are two steps,
and the agent may set or clear it in between. `Stop` stores, notifies and joins.

**MainProgram.** The hand-over in `EventLoopThreadPool::Start` (mutex, condition
variable, a `ThreadData` that is a local variable of the starter), the
loop as a local variable of its thread, connections handed out by `GetNextLoop`, and
the way from the signal to the end of `main`. What the loops do in between is
`EventLoop`'s and `TcpServer`'s; here a loop is alive or not, has functors or not,
and has been asked to quit or not. Two waits may last for ever, each for a reason that
another module has: a sub loop with a connection may be stuck in `OnMessage` (`SubStuck`,
`HttpContext`), and the repository's `Shutdown` may hang in its join (`AfterRepository`,
`CommentRepository`).

## 3. Runs

| Run | Instance | Distinct states | Checks |
|---|---|---|---|
| `loop` | 2 threads, loop thread, signal, 2 functors, 2 sockets, array of 1, 1 quit | 156 k | the invariants of section 4, the refinement, progress |
| `timers` | 2 one-shot timers, 1 periodic, clock 0..2, 1 cancel | 90 k | tables, arming, cancelling, progress |
| `server` | 2 clients, 2 descriptors, 2 sub loops, 1 message | 312 k | lifetime, descriptors, callbacks, progress |
| `client` | 4 attempts, delays 1 to 3 | 40 k | sockets, channel and timer of an attempt, stop, progress |
| `proxy` | 4 chunks, mark of 2, send buffers of 1 | 397 k | flow control, order, end of file, progress |
| `comments` | 2 posters, 3 comments, ring of 2, 1 erase, 1 refusal, 2 starts | 1.2 M | memory against disk, crash, batches, progress |
| `log` | 5 lines, 1 per buffer, one detached thread | 39 k | order, recycling, stop, progress |
| `http` | 2 messages of 8 kinds, vector of 2 bytes, stack buffer of 3 | 53 k | no byte lost, requests as sent, `OnMessage` returns |
| `blacklist` | 2 threads, 2 posts of 3 kinds, 1 edit of the file | 5.0 M | bans survive reloads, bans and edits |
| `blacklist_reload` | 1 thread, one author with two addresses | (violation) | what the header promises of `Reload` |
| `breaker` | 6 loads, 4 request counts, 4 samples to settle | 333 k | breaker against load |
| `program` | 3 sub loops, 4 connections | 4.2 k | lifetime of loops and start-up records, progress |

*loop*: `NoLostWakeup` (past the swap, a queued functor always has a wakeup
coming), `NoLostQuit`, `QueuedInOrder`, `ImplementsFunctorQueue`, `QuitLeavesLoop`.
*timers*: `TablesAgree`, `ArmedForEarliest`, `FinishedStaysOut` (a timer that was
cancelled outside a round, or a one-shot timer that fired, never fires again),
`DueTimersLeave`.
*server*: `NoDanglingChannel`, `DescriptorsOwned` (map, descriptor table and
connections agree, and a connection closes only its own number),
`CallbacksPaired`, `GonePeerReleased`, `BacklogServed` (a client stays in the backlog
only if an error has ended the accept loop and no edge has come since).
*client*: `AttemptSocketsOwned`, `ChannelOutlivesEvents`,
`StoppedStaysQuiet`, `ConnectResolves`.
*proxy*: `ResumeComing` (paused reading has a resume coming), `Backpressure`,
`InOrder` (and the end of file behind the data), `Delivered` (data and end of file).
*comments*: `DiskCatchesUp`, `ShutdownDrains`, `RowsAreFinal` (in a life that is not
`blind`), `BatchIsAtomic` (the table changes by the whole batch, as long as its
transaction lasts), `ErasesWhatWasSeen`, `WorkerIsWoken`.
*log*: `LinesInOrder`, `NothingUndefined` (before the backend has ended),
`StopFlushes`, `LinesReachFile`.
*http*: `BufferHoldsRest` (what was received is what was parsed, then what the
buffer holds), `RequestsAsSent`, `OnMessageReturns` (as long as nothing was
rejected).
*blacklist*: `BannedStaysBlocked`. *breaker*: `BreakerFollowsLoad`.
*program*: `DataOutlivesUse`, `LoopsInPlace`, `SignalEndsProgram` (unless a sub loop is
stuck or the repository's join hangs).
No run repeats `TypeOK`: it is proved for six modules, and for the others it is a part
of the inductive invariant.

One run ends in a violation. It states what a comment says, where the property of the
passing run has an exception.

* `blacklist_reload` (`BlacklistManager.cpp:217`): a comment blocked twice puts the
  placeholder name "[AI 已拦截]" on the blacklist; it is written as a line in brackets,
  the next `Reload` takes that line for an unknown section, and the nicknames behind it
  are lost, whereas `BlacklistManager.h:17` says that bans hold after a restart or
  `Reload`. `BannedStaysBlocked` speaks of a dimension only as long as no name with such
  a line was written in it (`tagged`).

Other behaviours that the modules contain and a reader should know. They have no run of
their own; where a property passes only because it excepts one of them, it is named,
and TLC shows the behaviour when the exception is taken out.

* Loop and timers: a quit before `Loop()` is entered is erased (`LoopEnter`); a
  timer cancelled by an earlier callback of the same round still fires
  (`EventLoop.cpp:315`); a cancel on the loop thread that overtakes the queued add is
  forgotten (`EventLoop.cpp:290`).
* Acceptor: after an error of `accept4` nothing starts the edge-triggered accept loop
  again until another client comes, although `Acceptor.cpp:77` wants all data read
  (`AcceptFails`, `Acceptor.cpp:85`); `BacklogServed` excepts it (`acceptFailed`).
* Server: after `Shutdown()` the state is `kDisconnecting`, in which `HandleClose`
  returns at once, so that the peer's close never removes the connection
  (`TcpConnection.cpp:159`); `GonePeerReleased` excepts it.
* Client: a client released after `Disconnect` and `Stop` takes the established
  connection with it while its channel is still in epoll (`ProxySession.cpp:249`);
  `ChannelOutlivesEvents` holds up to the release.
* Repository, start: a refused SELECT leaves the counter at 0 over a full table, and
  `INSERT OR REPLACE` overwrites rows, although `CommentRepository.cpp:78` says that the
  counter is restored; `RowsAreFinal` excepts `blind` lives.
* Repository, batch: when SQLite ends a transaction by itself, what comes behind is
  committed singly, although `CommentRepository.cpp:270` says that all of the batch is
  committed together; `BatchIsAtomic` excepts statements outside of a transaction. A
  `ROLLBACK` that fails and leaves the transaction open makes every later `BEGIN` fail
  (`BeginTransaction`).
* Repository, end: `Shutdown` stores the flag and notifies the worker without the mutex;
  both can fall between the worker's look at the predicate and its sleep, and `join` then
  never returns, although `CommentRepository.cpp:102` says that the worker is woken;
  `WorkerIsWoken` and `SignalEndsProgram` except it.
* Repository, ring: a poster overtaken by a full ring overwrites a newer comment in
  memory (`StoreComment`).
* Log: the detached thread of `main` that logs after the last sweep meets a moved-from
  buffer (`AsyncLogging.cpp:109`); `NothingUndefined` ends with the backend.
* Program: a sub loop may take the quit functor, end and be destroyed before
  `QueueInLoop` writes to its eventfd (`EventLoopThreadPool.cpp:63`), and `g_main_loop` is
  never reset, so that a signal behind the block of `main` uses a loop that is gone
  (`main.cpp:168`); `LoopsInPlace` speaks of neither.
* HTTP: an invalid `Content-Length` leaves the parser in `kGotAll`, where `OnMessage`
  goes round forever on the bytes that follow, unless the connection is closed first
  (`HttpContext.cpp:46`, `HttpCodec.cpp:23`); `OnMessageReturns` excepts it. A header
  line without a colon is consumed although it was rejected. `FindCRLF` and
  `kCRLF` rely on two equal literals (`Buffer.h:70`).
* Blacklist, two windows: a ban that is added and written between a `Reload`'s read and
  its swap is lost from memory (`BlacklistManager.cpp:110`), and so is what a `Reload`
  does not find that reads the file while it is rewritten; `BannedStaysBlocked` excepts
  both.
* Blacklist: a `Reload` that finds the file missing or half written empties or
  shortens the list; names that begin with `#` or hold blanks at an end do not
  survive a reload; a ban writes the whole set over an operator's edit.
* Breaker: at low load the daemon clears the flag that the agent had set.

**Bounds.** Two foreign threads suffice for the wakeup protocol because only whether
somebody is still to write matters, and the signal handler and the loop thread are two
more actors. What section 4 proves does not depend on these numbers; the rest of this
paragraph says why they show the interesting cases. Two functors give a swap with one
functor pending and one running. Three timers give a round of two with one left; a
period equal to the clock's tick makes a renewed timer due in the next round. Two
clients on two descriptors give two connections at once and the reuse of a number, on
different sub loops; that `accept4` fails while a client waits, as it does when the
process has no descriptor left, is `AcceptFails`, which needs no third client. Four
attempts take the delay to its cap and beyond. Four chunks are what it takes to fill a send buffer of one, reach a mark of two and try to exceed
it. Three comments wrap a ring of two; two starts give one crash or shutdown followed
by recovery. Five lines of one per buffer use each of the four buffers again and make
the backend drop surplus ones. Two messages give pipelining and a second request that
starts in the bytes of the first's last read; a vector of two with a stack buffer of
three compacts, grows and overflows. Two posts give a comment to ban and one to check
against it; one edit falls before, between and after a reload's two halves. Four
samples are what the average needs to pass the threshold from the other end, and the
loads are idle, the last calm and the first hot one, one between each of these and
its threshold, and full. Three sub
loops are `main.cpp`'s number, and four connections go once round and on. Deadlock is
checked for `client`, whose loop always goes on, and for `blacklist`, where requests
may always come; elsewhere the programs may stop (loops are left, clients fall silent,
the log ends, the process is down for good).

**Fairness.** The loop thread, a sub loop, the worker and the backend are scheduled
(weak fairness of their steps), and a thread that has pushed a functor finishes its
call. When more channels are ready than the array holds, epoll goes round its ready
list, so a listed channel is reported in the end (strong fairness of `DeliverWakeup`).
Time passes and an armed timerfd expires. The kernel ends every handshake, and a retry
timer that stays pending is served by some pass. For the proxy, peers go on reading
what they are sent: without that no delivery can be promised. The log's wait is timed
(`wait_for`), hence its end is not an assumption about notifications; the worker of
the repository sleeps without a timeout and only a notification or a spurious wakeup,
never assumed, ends its sleep. A call of `OnMessage`, once entered, goes on. In
`program` the main thread and the sub threads get the mutex of the hand-over in the
end (strong fairness, as others may hold it whenever they try). No fairness takes a sub
loop out of `OnMessage` when it is stuck there, nor the main thread out of a join that
hangs: those states have no step, and the property names them. Nobody else is obliged
to call, connect, send, close, cancel, quit or crash.

## 4. Proofs

Every theorem is about the whole specification (`Spec`, or the one named, without
fairness) and holds for all constants that satisfy the `ASSUME` of the module it is
about. These
assumptions say that sizes and bounds are numbers, that the sizes the code divides by
or fills (ring, buffer, mark, room, sub loops) are not zero, and that "nobody" is
nobody; besides them, the loop thread, the signal handler and the foreign threads of
`EventLoop` are different and its socket channels finitely many, the retry delay of
`TcpClient` starts below its cap, `NextLoop` of `TcpServer` leads from loop to loop,
a thread of `AsyncLogging` is joined before the stop or is not, and `CommentRepository`
has finitely many comments. The numbers that bound a run (`MaxSent`, `MaxStarts` and
so on) are any naturals. Four modules say a little about data:

* `SysMetricsDaemon`: processor samples are per mille, and "a long run" of samples is at
  least four (`Settle`), which is how many the average needs.
* `HttpContext`: messages are `IsMessage`. That covers well-formed and malformed ones; it leaves
  out only a client whose body is longer or shorter than it declared, for then the
  next message's bytes are the body's and "as sent" has no meaning.
* `BlacklistManager`: a line that can be read may be written again (a `Reload` is
  followed by a `PersistToFile`), comments are not in brackets (`#` is not `[`), and
  an operator writes names that the file gives back. Names that come from clients are
  not restricted: several lines, brackets, `#` and blanks are all admitted.
* `HttpDispatcher`: what a comment says may become a rule.

| Module | Theorem | Statement |
|---|---|---|
| `EventLoopProofs` | `TypeCorrect` | `Spec => []TypeOK` |
| | `NoWakeupIsLost` | `Spec => []NoLostWakeup` |
| | `NoQuitIsLost` | `Spec => []NoLostQuit` |
| | `ReadAlwaysSucceeds` | `Spec => []WakeupReadSucceeds` |
| | `ExactlyOnceInOrder` | `Spec => []QueuedInOrder` |
| | `LoopImplementsQueue` | `Spec => FQ!FQSafety` |
| `TimerQueueProofs` | `TimerInvariant`, `TypeCorrect` | `Spec => []TimerInv`, `[]TypeOK` |
| | `TablesAlwaysAgree` | `Spec => []TablesAgree` |
| | `AlwaysArmed` | `Spec => []ArmedForEarliest` |
| | `FinishedForGood` | `Spec => []FinishedStaysOut` |
| `TcpServerProofs` | `ServerInvariant`, `TypeCorrect` | `Spec => []ServerInv`, `[]TypeOK` |
| | `ChannelsDoNotDangle` | `Spec => []NoDanglingChannel` |
| | `DescriptorsKeepOwner` | `Spec => []DescriptorsOwned` |
| | `CallbacksComeInPairs` | `Spec => []CallbacksPaired` |
| `TcpClientProofs` | `ClientInvariant`, `TypeCorrect` | `Spec => []ClientInv`, `[]TypeOK` |
| | `NoSocketLeaks` | `Spec => []AttemptSocketsOwned` |
| | `EventsFindTheirChannel` | `Spec => []ChannelOutlivesEvents` |
| | `StopIsFinal` | `Spec => StoppedStaysQuiet` |
| `ProxySessionProofs` | `SessionInvariant` | `Spec => []SessionInv` |
| | `PausedIsResumed` | `Spec => []ResumeComing` |
| | `BuffersBounded` | `Spec => []Backpressure` |
| | `ChunksInOrder` | `Spec => []InOrder` |
| `AsyncLoggingProofs` | `LogInvariant`, `TypeCorrect` | `Spec => []LogInv`, `[]TypeOK` |
| | `LinesStayInOrder` | `Spec => []LinesInOrder` |
| | `NeverUndefined` | `Spec => []NothingUndefined` |
| | `StopHasFlushed` | `Spec => []StopFlushes` |
| `CommentRepositoryProofs` | `RepositoryInvariant`, `TypeCorrect` | `Spec => []RepositoryInv`, `[]TypeOK` |
| | `DiskAlwaysCatchesUp` | `Spec => []DiskCatchesUp` |
| | `ShutdownHasDrained` | `Spec => []ShutdownDrains` |
| | `RowsStay` | `Spec => RowsAreFinal` |
| | `BatchesAreAtomic` | `Spec => BatchIsAtomic` |
| | `ErasesNothingElse` | `Spec => ErasesWhatWasSeen` |
| `ApplicationProofs` | `MainInvariant` | `Spec => []MainInv` (`MainProgram`) |
| | `DataIsThere` | `Spec => []DataOutlivesUse` |
| | `LoopsStayInPlace` | `Spec => []LoopsInPlace` |
| | `DaemonInvariant` | `DaemonSpec => []DaemonInv` |
| | `BreakerAlwaysFollows` | `DaemonSpec => []BreakerFollowsLoad` |
| | `HttpBytesInvariant` | `HttpSpec => []HttpBytesInv` |
| | `BufferAlwaysHoldsRest` | `HttpSpec => []BufferHoldsRest` |
| | `HttpInvariant` | `HttpSpec => []HttpInv` |
| | `RequestsAlwaysAsSent` | `HttpSpec => []RequestsAsSent` |
| | `DispatcherInvariant` | `DispatcherSpec => []DispatcherInv` |
| | `BannedAlwaysBlocked` | `DispatcherSpec => []BannedStaysBlocked` |

Each specification has one inductive invariant; its proof module shows that `Init`
implies it and that every action keeps it, and derives the properties from it; the
action properties follow from it step by step. Every one of these invariants was first
checked with TLC on the instance of the run of its component. What each adds to the
properties, and why:

**EventLoop** (`WakeupInv`). `NoLostWakeup`, `NoLostQuit`, `WakeupReadSucceeds` and
`LoopShape`. The last is needed because the others speak of positions of the loop
thread: a handler that drains the counter only runs in "dispatch", and from there the
loop goes through the swap before it can sleep; the loop's own thread, which does not
write to the eventfd when it quits, does so only inside a callback, and from a callback
it comes back to the test of `quit_`. `QueuedInOrder` is inductive with `TypeOK` and
needs associativity of concatenation. The refinement maps the abstract queue to
`functors \o pending_functors_` and "stopped" to `lpc = "exited"`: a push is `Post`,
`RunFunctor` is `Execute`, leaving the loop is `Stop`, everything else a stutter.

**TimerQueue** (`TimerInv`). A timer is in one place (`OnePlace`): not created, queued,
in the tables, in the snapshot of a round, or in its callback. Without it `TablesAgree`
is not inductive, for a timer could be inserted while it is there. `RoundShape` says that
no second report begins a round inside a round, and `RoundRemembers` that a timer of
the round that was cancelled is still in `canceling_timers_`, on which
`FinishedStaysOut` rests when the round puts periodic timers back.

**TcpServer** (`ServerInv`). An accepted connection is in exactly one `Stage`: its
`ConnectionEstablished` is queued, or it serves, or its removal is queued on the main
loop, or its `ConnectionDestroyed` is queued on its own. With the stage goes the one
reference that keeps the object alive, which is what `NoDanglingChannel` needs, and
the map's entry, which is what `DescriptorsOwned` needs. `Queues` says that nobody else
is named in a queue, `Passes` that no functor runs while an event of its pass waits, so
that no event finds a destroyed connection, and `Descriptors` that a number has one owner.

**TcpClient** (`ClientInv`). `OneAttempt` ties the connector's state to the one socket
it waits for, `OneHandOver` the connection to the one that was handed over.
`FunctorsInTime` and `EventsInTime` say what a functor or an event may still find:
the functor that destroys the channel never meets the next attempt's, and an event for
the connector finds the channel it is for, although the owner may stop in between.
`ConnectionKept` names who holds the connection, `OwnerInTime` where the owner is.

**ProxySession** (`SessionInv`). The session is in one of four stages (`Connecting`,
`Bridging`, `HalfClosed`, `Torn`); in each, what epoll is asked for is in step with the
buffers (`Serving`: `EPOLLOUT` exactly while output waits), and a buffer at the mark
has paused the other side (`Flowing`). `Bounded` is inductive only with that and with
`EventsIn`: a read of a paused side is never under way, except that the flush of
`pending_up_` may pause the downstream side after its event was reported, and the chunk
that is then still read finds the buffer shorter than the flush. `Ordered` says
where every chunk is as long as the receiving side takes data, and that what was handed
on is a prefix of what was sent in every case, resets included; `HalfClosed` adds that a
clean end of the upstream left nothing unread. `FunctorsIn` carries `ResumeComing` over the
swap, and shows that a connection is destroyed only when it is closed.

**AsyncLogging** (`LogInv`). `BuffersPlaced` says where the four buffers are at each
place of the backend: a missing `nextBuffer_` means that a full buffer waits, so that a
round which gives both of its own buffers away has two to take back, hence
`NothingUndefined`. `SweptIsWritten` covers the last sweep.

**CommentRepository** (`RepositoryInv`). `DiskCatchesUp` is inductive with
`WorkerInStep` (what the worker holds at each of its places, and that a transaction is
left over or a batch spoilt only by a refusal), `OneTransaction` and `DownIsEmpty`.
`NumbersAreFresh` says that no number occurs twice in queues and among the
pushers and that all lie below the counter, and the numbers in the table too in a life
that is not `blind`; `RowsAreFinal` follows from it. `BatchInStep` says that the table in
an open, unspoilt transaction is the committed one after the executed part of the batch;
with it a COMMIT writes the whole batch, which is `BatchIsAtomic`. `RingIsPast` and `SeenIsPast` do the same for the ring and for
what the agent saw, for `ErasesWhatWasSeen`.

**MainProgram** (`MainInv`). `Placed` says where each sub thread is given where the main
thread is (threads before the current one serve or are stuck, the current one is handing over, later
ones do not exist), `MutexHeld` who holds the mutex of the `ThreadData`,
`DrainedBeforeQuit` that a loop told to quit has nothing left, and `MainLoopThere` how
long the main loop lives.

**SysMetricsDaemon** (`DaemonInv`). A sample moves the average by seven tenths of the
distance, so `HotFloor` and `CalmCeiling` bound its low and its high end after one, two, three, four samples
on one side, wherever it was before; the fourth has
brought it past the threshold, rounding included. `FlagFollows` adds what the daemon has decided and not
stored yet: after such a run it is never about to store the opposite. The agent's
command in between ends the run.

**HttpContext, Buffer** (`HttpInv`). First the bytes (`HttpBytesInv`): what was read
and not yet taken is what the buffer's readable part holds, which needs what `Append`,
`Retrieve`, `MakeSpace` and `ReadFd` do to that part, in every case of compaction,
growth and overflow into the stack buffer. Then the parser (`CodecInv`):
`ParserStands` says for each of its states at which place of which message it is, that
is how many lines or how much of the body it has taken and what `request_` holds by
then; a line found in the buffer is then that message's next line (`LineFound`),
wherever the input was cut. `DeliveredAsSent` and a rejection blamed on a malformed
message complete it; and when the codec waits for more, some of the current message is
missing, so that nothing complete is ever left lying in the buffer.

**HttpDispatcher, BlacklistManager** (`DispatcherInv`). `BansHeld` says where a ban that
stands (durable, and no line in brackets written in its dimension) is: in memory, in
whatever any thread has fetched and will swap in, and in what the file gives back
unless a batch is just being written. `BansUnderWay` says that the thread which writes
the file is the writer, and that what it wants to ban is in memory already, so that the
file it writes has it too. That what is written is read back (`FileIsRead`) is shown
for any rules in any order, section by section.

Lemmas about the operators come first in each proof module: what `FlattenSeq` and the
folds return after an append (proved from their definitions by the least index at which
they could differ; `ApplicationProofs` takes that step once, as `LeastNatural`, a set
of naturals that is not empty has a least element), where each member of a flattened
sequence lies in it, what prefixes, heads, tails and ranges of sequences are, what the
requests of a channel leave in the kernel, what each operator on a record changes.

Checked by TLC only:

* Liveness: `QuitLeavesLoop`, `DueTimersLeave`, `GonePeerReleased`, `BacklogServed`,
  `ConnectResolves`, `Delivered`, `WorkerIsWoken`, `LinesReachFile`,
  `OnMessageReturns`, `SignalEndsProgram`, and the fairness part of
  `ImplementsFunctorQueue`. The prover handles neither fairness nor `ENABLED`.
* The bound of `TypeOK` on `flushed` in `ProxySession`, a history variable; the
  theorems need only that it is a number.

## 5. Left out

* Text: formatting of log lines and replies, JSON, the handlers that only read. No property depends on it.
* Errors of calls that the code only logs (`timerfd_settime`, `epoll_ctl` other than
  on a wrong entry, `eventfd` writes), and exits of constructors.
* A second `Connect` of a client, and what epoll does with the channel that a
  released client leaves behind.
* `ThreadPool`, which no other code uses, and `BlacklistManager::AddKeyword`, which
  nothing calls. `single_thread_main.cpp` is commented out; `third_party` is vendored.
* The memory and disk figures of `SysMetricsDaemon`, which are only reported; the
  agent's dialogue with its language model.

## 6. Plan

Modelled, in order of importance: loop and queue, timers, server, repository, log,
client, proxy, HTTP input, blacklist, breaker, program. Proved: all invariants and
action properties of the passing runs. What could be added:

1. Action properties of the components that no run states yet, where one says
   more than the invariants do.
2. An abstract connection (bytes in, requests out, one close) that `TcpServer` and
   `HttpContext` together implement.
