# A TLA+ model of NetNinja

NetNinja (`src/`) is a C++ network framework: a fiber scheduler over a pool of
threads, timers and an epoll loop on top of it, a hook that turns blocking
socket calls into suspended fibers, and TCP and HTTP servers and clients built
on those. This directory models what makes it hard to get right, the
interleavings of its threads, fibers and timers and what the parts above the
event loop make of them, checks it with TLC on small instances, and proves what
matters most of it with TLAPS for all instances.
Line numbers below are those of the files under `src/src/`.

## 1. The system

| Component | Files | State | Operations |
|---|---|---|---|
| Fiber | `fiber.*` | `m_state` (INIT, HOLD, EXEC, TERM, READY, EXCEPT), `m_cb`, its context | `reset`, `swapIn`, `swapOut`, `call`, `back`, `YieldToReady`, `YieldToHold`, `MainFunc` |
| Scheduler | `scheduler.*` | `m_fibers` under `m_mutex`, `m_activeThreadCount`, `m_idleThreadCount`, `m_stopping` | `schedule`, `start`, `stop`, `run`, `idle`, `stopping`, `tickle` |
| Timer, TimerManager | `timer.*` | `m_timers`, a set ordered by deadline, `m_tickled`, `m_previousTime` | `addTimer`, `addConditionTimer`, `cancel`, `refresh`, `reset`, `getTimerNext`, `listExpiredCb` |
| IOManager | `iomanager.*` | `m_fdContexts`, each with `events` and two waiters, `m_pendingEventCount`, the epoll set, a pipe | `addEvent`, `delEvent`, `cancelEvent`, `cancelAll`, `idle`, `tickle`, `stopping` |
| Hook, FdManager | `hook.*`, `fd_manager.*` | per descriptor: closed, nonblocking, timeouts | `do_io` for 12 calls, `sleep`, `connect_with_timeout`, `close`, `fcntl`, `setsockopt` |
| TcpServer, HttpServer | `tcpserver.*`, `http_server.*` | `m_socks`, `m_isStop` | `bind`, `start`, `startAccept`, `stop`, `handleClient` |
| Socket, Address, Streams | `socket.*`, `address.*`, `stream.*`, `socket_stream.*` | descriptor, `m_isConnected` | thin wrappers of system calls; fixed-size read and write loops |
| ByteArray | `bytearray.*`, `endian.h` | list of blocks, `m_position`, `m_size`, `m_capacity`, `m_cur` | fixed, varint and string reads and writes, `setPosition`, buffers for `readv` |
| HTTP | `http/*` | pool: `m_conns`, `m_total`; dispatch tables | `getConnection`, `ReleasePtr`, `recvRequest`, `handle`; generated parsers |
| Config | `config.*` | value, listeners | `Lookup`, `setValue`, `LoadFromConfDir` |
| Logger | `logger.*` | loggers, appenders, files | `log`, `reopen` |
| Daemon, Env, Application | `daemon.*`, `env.*`, `application.*` | process ids, restart count | `start_daemon`, start-up |
| Thread, Mutex, Utilities | `thread.*`, `mutex.*`, `utils.*` | none of their own | wrappers of pthread; `SERVER_CC_ASSERT` |
| Module, Database | `module.*`, `database/*` | not in the build | |

How they interact. Every thread of a scheduler executes `run()`: it scans
`m_fibers` for the first task it may take, resumes the fiber or calls the
callback, and then acts on the state the fiber came back in. A thread that
finds nothing resumes its idle fiber. In the base class that fiber only tests
`stopping()`; in IOManager it also asks the TimerManager for the next deadline,
waits in `epoll_wait`, collects the callbacks of due timers and triggers
events. Both put tasks back into `m_fibers`. A running fiber suspends itself by
arranging to be scheduled later, as a timer's callback or an event's waiter,
and then calling `YieldToHold()`; the hook does this inside `read`, `sleep` and
the rest. Threads share `m_fibers` under one lock; the counters, `m_stopping`
and `Fiber::m_state` are read and written without it. SERVER_CC_ASSERT calls
`assert` and the build does not define NDEBUG, so a failed assertion ends the
process.

What is hard:

* a fiber can be scheduled again before it has left its stack, since the source
  that wakes it is armed before the context is saved;
* the end of the program is decided by unlocked reads of three variables;
* the wakeup of a sleeping thread depends on a flag two other operations clear;
* results of `epoll_wait` are used after other threads have changed what they
  report on;
* the clock may be set back.

What makes each part correct. Scheduler: no task is lost or executed twice, no
fiber is on two stacks, the counters are exact, `stop()` returns, and not before
the work is done. Timers: a callback runs once, not early, not after a
successful `cancel()`, and not late because everybody sleeps; the set never
holds a stale key. IOManager: the pending count is exact, epoll watches exactly
what is registered, a ready event is delivered, threads leave only when nothing
is pending. Hook: a call ends as the blocking one would, never hangs past its
timeout, and never stops the thread. Pool: an answer belongs to the request it is
given for. HTTP: a message ends where its header says, however the stream is cut.
Server: `stop()` leaves no accept loop behind. ByteArray: its blocks do not show.
Configuration: levels and appenders are those of the file, whatever was applied before. Daemon:
a server that was up is started again, whatever is launched meanwhile.

`PROJECT.json` lists every component with its status, and every hazard with the
line where it bites.

## 2. The modules

| Module | Models | With |
|---|---|---|
| `Scheduler` | Fiber and Scheduler | `MCScheduler` (instances), `SchedulerProofs` |
| `TimerManager` | Timer, TimerManager and how `IOManager::idle()` uses them | `MCTimerManager`, `TimerManagerProofs` |
| `IOManager` | the events of IOManager over an edge-triggered epoll | `MCIOManager`, `IOManagerProofs` |
| `Hook` | the hooked calls, FdCtx and FdManager | `MCHook`, `MCLibrary`, `HookProofs` |
| `BlockingCall` | abstract: what the hook promises its callers | refined by `Hook` |
| `ByteArray` | ByteArray, and SocketStream's use of its buffers | `MCLibrary`, `ByteArrayProofs` |
| `FlatBuffer` | abstract: what a ByteArray promises | refined by `ByteArray` |
| `ConnectionPool` | the HTTP client's pool of connections | `MCLibrary`, `HttpProofs` |
| `HttpReceive` | `recvRequest` and `recvResponse` cutting a stream into messages | `MCLibrary`, `HttpProofs` |
| `TcpServer` | bind, start, the accept loops and stop | `MCLibrary`, `LibraryProofs` |
| `ConfigLoad` | `LoadFromConfDir`, `ConfigVar::setValue`, the listener of the loggers | `MCLibrary`, `LibraryProofs` |
| `Daemon` | launches, the pid file, and the daemon that restarts a crashed server | `MCLibrary`, `LibraryProofs` |
| `Recursion` | lemmas: induction over numbers, functions defined by recursion | used by the proofs from `Hook` on |

`MCLibrary` puts instances of the last seven detailed modules side by side: the
variable `component` is chosen in the first state and says which of them moves
(the hook has two values, `hook` and `reopen`: the second has a third fiber).
They do not share state, so one run explores the sum of their state spaces, not
the product. To keep names apart, each has a prefix (`Buf`, `Pool`, `Http`, `Tcp`,
`Conf`, `Dmn`; `Hook` has none). How they compose is by promise: `Hook` uses events and
timers as `IOManager` and `TimerManager` provide them, `TcpServer` waits in the
`accept()` of `Hook`, and `HttpReceive` reads from a stream as `BlockingCall`
describes it.

### Scheduler

A step is one critical section of `m_mutex`, or one unlocked access to an atomic
counter or to `Fiber::m_state`. Each thread has a `pc`:

    scan -> took -> exec (-> armed) -> swapOut -> returned -> post -> resched | setHold -> scan
    scan -> noTask -> idle -> idleOut -> scan             noTask -> exit

`ScanTake` and `ScanNone` are the loop over `m_fibers` (175-204), which
increments the active count under the lock. `Resume` is the fiber branch (207),
`RunCb` the callback branch with its reuse or replacement of `cb_fiber`
(222-230), `DropFinished` the branch for a task whose fiber has already ended
(246). `Returned` is the decrement, `PostUnfinished` and `PostFinished` the read
of the fiber's state and the reset of the locals, `Reschedule` the
`schedule(ft.fiber)` of a READY fiber, `SetHold` the unlocked write of HOLD.
`IdleIn`, `Idle`, `IdleOut`, `Exit` are lines 253-266. `StopBegin`, `StopCheck`,
`StopCalled`, `StopJoin` are `stop()`, with the `use_caller` thread of `Caller`
running its own share of `run()` inside it.

What a job may do while it executes is what the API offers: yield READY, arm a
wakeup source and yield HOLD (`Arm`, `YieldToHold`, `Wake`: the shape of
`sleep` in `hook.cpp` 163-175), schedule another job, return or throw. `Arm` and
`YieldToHold` are two steps, so `Wake` can come in between. A fiber of which
nobody holds a pointer is destroyed: `Referenced` computes whether, since
`MainFunc` keeps a pointer to itself on its own stack until its function
returns (218-222).

Every assertion on the way is a step that ends the process (`Abort`), with the
reason in `failed`: `swapIn` of a fiber in EXEC, a fiber resumed while it is
still on the stack of another thread ("stack", undefined in the code: it
switches to a context that is being used), resuming one that has ended, a yield
whose state is not EXEC, a `reset` or a destructor in the wrong state.

Jobs are numbered, not functions: `phase`, `ran` and `pinOf` are history
variables. Fiber objects are memory that may be used again after destruction.

### TimerManager

`m_timers` is a `std::set` ordered by a mutable field, so the model keeps the
pairs `<<key, timer>>` as they were inserted: a timer whose `m_next` changed
without reinsertion would no longer be found, as in the code. `NewTimer` is the
constructor, which reads the clock before the lock; `AddTimer` the insertion;
`Tickle` the announcement after the unlock. `Cancel`, `Refresh`, `Reset` are one
critical section each (a call that returns false changes nothing and is left
out). A thread goes through `idle()` by `Enter`, `GetTimerNext`, `EpollWait`,
`Wake` or `WakeIo`, `DetectClockRollover`, `Peek`, `Extract`, `Hand`: the
constructs of lines 290-345 of `iomanager.cpp` and of `listExpiredCb` (154-190)
between which other threads can run. `Peek` is the unlocked
`*m_timers.begin()`; on an empty set it is undefined, and the model goes on with
either outcome. `AskOnly` is `stopping()` called by a
thread that does not go to sleep; it too clears `m_tickled`. `EpollTimeout` is
the comparison and conversion to `int`, with `IntMod` for 2^32, and a negative
result stands for an endless wait, as for `epoll_wait`. The clock is read in
milliseconds, `Tick` advances it, `SetBack` is an administrator.

### IOManager

Every actor, a thread of the scheduler or one outside, may be in one of the four
operations or, if it is a thread, in `idle()`. The critical section of a context's mutex is one
step where it calls nobody (`AddEvent`, `AddEventFails`, `NotRegistered`,
`DelEvent`); where it calls `triggerEvent()` it is `Cancel` or `Handle`, then
`TriggerEvent` and `Count` for each event, during which the mutex is held:
`Unlocked(c)`. `ContextResize` is the resize under the write lock.
`AskPending` and `AskStopping` are the two reads in `stopping()`, `EpollWait`
takes everything that is on the ready list, `Handle` and `HandleStale` treat one
of the events it returned. The kernel's side, `Control`, `BecomeReady`,
`HangUp`, is that of EPOLLET: a descriptor enters the ready list when it is
armed while ready, or becomes ready while armed. The scheduler is reduced to
what `stopping()` reads, the list and the active count; its detail is in
`Scheduler`. Timers are in `TimerManager`; here every wait may end at any time.

### Hook

Fibers make calls; between two yields a fiber keeps its thread, so the number of
threads (`ThreadFree`) bounds how many calls are in the middle of something.
`CallIo` and `CallConnect` are the tests at the beginning of `do_io()` and
`connect_with_timeout()`. `pc` "try" is the original call: `Obtain`, `Again`,
`Refuse`, `Dial`. On EAGAIN the fiber goes to "timer" (`AddTimer`, if there is a
timeout) and "add": `AddEvent`, which yields, `AddEventFails` (`epoll_ctl` does), or
`AddEventAborts`, the assertion of `addEvent()` that the event is not registered
yet (`iomanager.cpp` 122-126), which sets `failed` and ends the process. `Resume` is
what follows the yield, `Check` the `getsockopt` of connect. A timer is `Collect`ed
by an idle thread, its callback runs up to `t->cancelled = ETIMEDOUT` (`Fire`)
and then cancels whoever is registered (`CancelEvent`). `close()` is three steps,
`CancelAll`, `Del`, `CloseF`; `socket()` and `accept()` have the descriptor first
and make it known afterwards (`Adopt`). `SetFlags`, `SetFionbio`, `SetTimeout`
are `fcntl`, `ioctl` and `setsockopt`. `file` numbers the open files, so that a
descriptor that is closed and opened again is told apart from itself; what epoll
still finds of a registration is `Live`. `timer_info` belongs to one call:
`Alive` is its weak pointer. Users do not wait for one event of one file in two
fibers (`Only`); of a fiber that is still in a call on an earlier file of the number they
cannot know, and such a call is allowed (`shared`).

`BlockingCall` knows nothing of timers, events or fibers that yield. A call is in
progress or not; data arrive; only the call that returns data takes them; every
other end needs a reason (`Justified`): a timeout needs a timer of this call that
was due, an error a descriptor that was closed meanwhile, and "try again" is
never a reason as long as nobody asked for a nonblocking descriptor. Two things
no caller could explain are part of the promise, each with the condition under which
it may happen. Both come from the wait of a call that outlives its file:

* `close()` wakes the waiters (`hook.cpp` 351) before it closes the file (356). A
  fiber of another thread that registers in between keeps its registration on the
  number. When the number is open again, `addEvent()` for the *same* event fails its
  assertion and the process ends; for the *other* event it is an EPOLL_CTL_MOD of
  something epoll does not know, and the call returns an error. `left` is the set of
  the numbers that keep a waiter, and `LeaveBehind` says when that may come about: only
  in a step that closes an open file, while a call the promise covers is on it.
* A fiber that `close()` woke tries its call again; if the number has been opened in
  the meantime it waits on the new file, which another fiber has every right to use. This
  needs no second thread. `shared` is a call that began while another fiber was in one
  on the number: a `connect()` may find its socket dialled by the other and return an
  error, and two that wait for one event end the process.

`Stop` says of the abort that it happens only where two calls the promise covers are on
one number and began with different files of it. `LooksBlocking` states that `Hook`
implements all this; there `left` is the set of the numbers with a registration for an
earlier file, and the process has ended when `failed` is set.

### ByteArray

The list of blocks is one function from addresses to bytes, `blocks` their number
and `cur` the block `m_cur` points to, one past the last for null. Every
operation follows the list from `cur` (`Place`, `CurAfter`) as the code does, and
so works on the wrong bytes when `cur` does not belong to the position. `Follow`
is the walk from the root in `setPosition()`. `BufReceive` and `BufSend` are
`SocketStream::read` and `write`: `getWriteBuffers()`/`getReadBuffers()`, a
transfer that may be short or fail, and `setPosition()`. A number is read byte by
byte, and `read()` throws when the bytes end before it does (`BufReadNumber`,
"torn"). `FlatBuffer` is one sequence of bytes with a position; `BehavesFlat`
states that every operation of `ByteArray` is one of its. An operation that runs
into a null block ("crash") is none.

### ConnectionPool

`GetConnection` is the critical section, `Connect` what follows it without the
lock, `SendRequest`, `RecvResponse`, `RecvFails` the rest of `doRequest()`,
`ReleasePtr` and `PushBack` the deleter of the smart pointer. `pipe` has the
requests sent on a connection whose response has not been read, `answer` the
request to which the response that was returned belongs.

### HttpReceive

A byte is its place in the stream. `arrived`, `read` and `used` say how far the
network, the socket reads and the receiver have come; `read() - used` is in the
buffer. A read returns any number of bytes up to what is asked for. The header
fixes the framing; `PlainBuffered` and `ReadFixSize` are the two sources of a
body with a length, `ReadSizeLine`, `ParseSizeLine` and `ReadChunk` the loop over
chunks. Of the generated parser the module has what the glue relies on: it takes
all bytes up to the end of a header or size line and keeps no part of a token.
When a read ends inside the framing field or a size line, what is parsed depends on
the generated tables, and the model stops there ("torn").

### TcpServer

A loop goes through `queued -> test -> accept -> add -> hold -> woken`, as
`startAccept` does inside the hook; the task of `stop()` takes the sockets one by
one, `CancelAccept` then `CloseSock`. `OneThread` is the accept worker's number of
threads: with one, nothing runs between two steps of a fiber that has not yielded.

### ConfigLoad

`LoadStat`, `LoadCheck`, `LoadParse` are `LoadFromConfDir()` (`lstat`, the test of
`s_file2modifytime`, reading the file), `ResetLogger` and `AddAppender` the
listener's loop over the new definitions, `StoreValue` the assignment that follows
the listeners. `Edit` and `Tick` are the administrator and the clock; `st_mtime`
has seconds only.

### Daemon

`launch` is a process the operator starts, `child` the server it forks (or, in the
foreground, is) or the status that one ended with: 0, 9 or another, which is all
`real_daemon()` tells apart. `DmnLaunch` is `init()`, `DmnFork`, `DmnWait` and
`DmnSleepOver` the loop of the daemon, `DmnMain`, `DmnBind` and `DmnFinish` the
server up to the point where it serves or ends.

## 3. What is checked

| Run | Question | States |
|---|---|---|
| `pool` | One pool thread and the `use_caller` thread; two jobs that may be pinned to the latter, yield READY, spawn, return or throw; `stop()` at any time. Types, counters, no assertion, no job lost, `stop()` drains, returns; jobs complete; pins | 210 896 |
| `crowd` | Three threads race for the fiber of a job that may be woken before it has yielded. Counters and single execution on every path, aborting ones included | 274 722 |
| `yield` | finding: a yield from a state other than EXEC | |
| `timers` | Two threads, two timers, calls from anywhere: the wakeup handshake, the bound on sleeping, one-shot, never early, `erase(find())` | 496 374 |
| `clock` | One thread, recurring and one-shot timers, the clock set back past the rollover threshold: due timers are collected | 141 808 |
| `events` | Two threads and one outside, reader and writer of one descriptor beyond the table: the pending count, epoll's view, that no event gets lost between epoll and the threads, and, under fairness, that a ready event is triggered | 396 154 |
| `trigger` | finding: an event that is not registered is triggered | |
| `drain` | finding: threads leave with an event pending | |
| `shrink` | finding: the table of contexts shrinks | |
| `library` | The parts above the event loop, each by itself: the hooked calls implement blocking calls, the byte array one run of bytes; the pool, the receiver of HTTP messages, the server, the loading of the configuration and the daemons keep what they promise | 773 273 |
| `limit` | finding: a pool of one connection has two | |
| `lost` | finding: a reader on a descriptor that is closed waits on after its timeout | |

The properties, by what could break them:

* `CountersMatch`: both counters equal the number of threads inside the code
  they count, over six exits of the loop body. A missed decrement is `stopping()`
  false for ever.
* `NoAbort`, `JobReachable`: no assertion fires and every unfinished job has an
  owner that will run it. Both hold while jobs yield READY only (`MayHold =
  FALSE`); with `YieldToHold` neither does, see findings.
* `JobOnce`: whatever threads race for an entry, its function starts once.
* `StopDrains` (Scheduler): the threads leave one by one, each when it alone
  sees `stopping()`, and the active count is decremented before a READY fiber is
  back in the list; still nothing is left over, since a thread whose idle
  fiber has ended scans the list once more after its own decrement before it leaves.
* `StopTerminates`, `JobsComplete`: liveness.
* `StartsOnPin`: an action property. A job that yields READY loses its pin
  (`schedule(ft.fiber)` has no thread argument, `scheduler.cpp` 215), so only
  the first start is claimed; section 5 says what that contradicts.
* `FrontCovered`: when all threads wait, one of them was told to wake in time
  for the first timer, or a tickle is on its way. `m_tickled` suppresses tickles
  and is cleared by whoever calls `getTimerNext()` next, sleeper or not.
* `EraseSafe`: `cancel()` erases the result of `find()` without looking at it.
* `OneShot`, `NeverEarly`, `SleepBounded`, `DueCollected`: see the comments in the
  module.
* `PendingMatches`, `KernelAgrees`: through every race of add, delete, cancel
  and epoll the count is that of the registered events plus those triggered and
  not yet counted, and epoll watches exactly the registered events that nobody
  is about to trigger.
* `EventKept`: a registered event that is ready is on epoll's list or with a thread
  that was told. Edge-triggered epoll tells once: a report is lost if somebody drops
  it, or changes what is watched, without a call of `epoll_ctl` that looks again.
* `Delivered`: liveness over the re-arming in `idle()`.
* `LooksBlocking`: refinement, see `BlockingCall` above. A stale wakeup, a timer of
  an earlier call, a descriptor reopened under the fiber's feet all end in a
  retry, never in a wrong result; where they end in an abort or an error nobody
  asked for is what `Stop`, `left` and `shared` delimit.
* `NoLostWaiter`: who has yielded can still be woken. `TimeoutKept`: the timer of a
  call on hold will wake it. They are safety properties that say what liveness
  would need; `close()` with two threads violates the second, see findings, and
  `TimeoutKeptAlone` is what holds.
* `HookedNeverBlocks`: FdCtx counts on O_NONBLOCK wherever it calls the original;
  the two are set at different places, by different calls.
* `ConnectTrue`: `connect()` looks at SO_ERROR only, which is 0 also while the
  connect is in progress; so it must not be woken early. Exempt is a call on a number
  on which a call of another fiber, begun with an earlier file, is still under way: the
  timer of that one cancels the event of whoever waits there.
* `CursorAgrees`, `BehavesFlat`, `NumberReadsBack`: positions at a block's end, null
  pointers, numbers across blocks, short receives.
* `AnswersOwn`, `OneOwner`, `IdleUsable`, `TotalCounts`: a request that was given up
  leaves a response behind on its connection; `m_total` is changed at three
  places without a lock. `TotalCounts` says that it is exact, not that it is limited;
  the limit that the code documents, `PoolBounded`, is violated, see findings.
* `MessageExact`: body and end of a message, for every cut of the stream outside
  tokens.
* `NoLoopLeft`: a loop that registers after it was woken waits on a closed socket.
* `GuardLeft`: a second server that finds the address taken ends with status 0 and
  its daemon with it; the daemon of the first must be there when that one crashes.
* `LoggersFollow`: differences of definitions against the file itself, across
  broken versions and edits at any moment of a load.

What the instances leave out on purpose, because it breaks them, and can be put
back by changing one constant of `MCLibrary_library.cfg` (of `MCScheduler_pool.cfg`
in the last row):

| Setting | TLC then finds violated | Because |
|---|---|---|
| `ReadSizes` with 0 | `BehavesFlat` | `read()` of nothing at the end of the last block follows a null `m_cur` |
| `Aligned = FALSE` | `BehavesFlat` | `writeToFile()` inside a block takes the offset off a length that was not cut at the block's end (`bytearray.cpp` 472) |
| `Pipelined = TRUE` | `MessageExact` | `recvRequest()` drops what its buffer has of the next request |
| `OneThread = FALSE` | `NoLoopLeft` | a loop registers between `cancelAll()` and `close()` of `stop()` |
| `Fionbio` with FALSE | `HookedNeverBlocks` | `ioctl(FIONBIO, 0)` reaches the kernel, FdCtx goes on counting on O_NONBLOCK |
| `May` with "option" for a fiber beside the one that closes | `HookedNeverBlocks` (three fibers that all take part, two threads) | `fcntl(F_SETFL)` between `del()` and `close_f()` finds no FdCtx and makes the descriptor blocking; the fiber that `cancelAll()` woke tries again on it |
| `EarlyTimers = TRUE` | `TimeoutKept` (two threads, no close) | a timer collected before the event is registered finds nothing to cancel |
| `Overlap = TRUE`, two loaders | `LoggersFollow` | `setValue()` holds read locks only |
| `Foreground = {d1}` | `GuardLeft` | started during the daemon's `sleep()`, a server in the foreground takes the address; the restarted one ends with status 0, and when the first crashes nobody is left |
| `SpawnPins` with a thread | `StopDrains` | a running task pins a task to a thread that has left `run()`; nobody else may take it |

The code in this repository does not meet them (the IOManager that
`application.cpp` accepts on has one thread; the library itself calls FIONBIO
nowhere; none of its calls of `schedule()` names a thread; it loads the configuration once, at the start), or no document
promises the contrary; hence they are hazards and not findings.

Each property is paired in `PROJECT.json` with a plausible mistake in a mapped
definition (`mutants`) that TLC finds to violate it.

### Bounds

Two threads are enough for every race of two steps; the third in `crowd` is
there because a thread that resumes a fiber, one that resumes it too early, and
one that finds it ended are three. `MaxYields` bounds the yields of one job; a
second yield already meets every state the first left behind. Two jobs and three
fibers give each thread its `cb_fiber` and one to spare, so that replacement and
reuse both occur. One descriptor with both events shows every interaction inside
a context, contexts share nothing else but the count. `InitSize` is 2 in place of
32 (it must stay below the descriptor to reach the resize); `MaxTimeout` is 1 or 2 in
place of 3000 and `IntMod` 64 in place of 2^32, large enough that no sum of an
instance reaches its half, so that the conversion behaves as in the code.
`MaxOps` counts calls, `MaxHups` hangups, `MaxGen` the contexts built for one
descriptor. `MaxClock` stops the clock; sleepers go on sleeping, so nothing ends
there but time. Runs over timers have `CHECK_DEADLOCK FALSE`: with the clock and
the calls used up the instance may really stop. The other modules have a step
`Halted` for the states in which the program has ended; any other stop is
reported as deadlock.

In `library` every component has the smallest instance that meets its cases: two
fibers, two descriptor numbers and two opens of each, so that a number is reused
while an earlier call still has it (part `reopen`: a second reader too, since the
abort and the error of `addEvent()` need a reader on the old file, one on the new, and
the fiber that closes and opens; only reads go on there); blocks of two bytes, up to three of them, and
four operations, so that strings end inside, at and beyond a block's end (`Radix` 2
makes numbers of three bytes out of small ones); two users, two connections and a
connection's whole life (`MaxRequest` 2); messages larger than the buffer, empty
ones and chunks of one, four and no bytes; three addresses, one of which cannot be
bound, and two clients; two loggers, two edits and three seconds; three launches and two crashes.

Symmetry is used in runs without liveness properties only, and for threads only
where no job is pinned.

### Fairness

`Scheduler`: each thread keeps running (the operating system's scheduler), the
owner goes on once it has begun `stop()`, and a wakeup source fires (a timer).
Nothing obliges anybody to submit a job or to call `stop()`. `TimerManager`: time
passes, an announced tickle is sent, an insertion that has begun ends, each thread keeps
running; no descriptor ever has to become ready. `IOManager`: each call that has
begun returns and each thread keeps running; nothing obliges the kernel to report
readiness, tasks to drain a descriptor, or the owner to stop. All of it is weak
fairness of single actors. The modules of `library` state no fairness: a call
without a timeout may wait for ever, and that one with a timeout does not is
`TimeoutKept`, from which it follows by the fairness of the timers alone
(`DueCollected` of `TimerManager`).

## 4. What is proved

For every value of the constants that the `ASSUME` of each module allows:

* `SchedulerProofs!TypeCorrect`. `TypeOK` alone is not inductive: a thread that
  returns from a callback writes the state of `cbFiber[t]`, which must be a
  fiber. The invariant `TypeInv` adds that a thread between `took` and the end of
  its iteration has one (`HasFiber`), and that nothing is in flight before
  `start()` (`NotYetRunning`).
* `SchedulerProofs!CountersCorrect`: `CountersMatch`, inductive relative to
  `TypeInv`. Each action either leaves the set of threads in `ActivePc` alone or
  adds or removes exactly one; `CountMove` turns that into cardinalities.
  It holds on every path, also those on which a fiber is raced for, and therefore does not
  depend on `MayHold`.
* `SchedulerProofs!RunsOnce` (`JobOnce`) and `PinnedStart` (`StartsOnPin`), again on
  every path. `JobInv` says where a job can be: a callback entry of the list, the
  hands of one thread, or the function of one fiber, and that the number of its
  executions follows from the state of that fiber. Only a fiber in the list can be
  fresh (`Begins`), so the reset of a `cb_fiber` never starts a job again; the task of a
  fresh fiber carries the pin of its job (`PinsKept`).
* `SchedulerProofs!NeverAborts` and `NoJobLost` (`NoAbort`, `JobReachable`), if no job
  holds (`~MayHold`; finding `yield` is what happens otherwise). `OwnInv`: an entry of
  the list, the task of a thread and a thread's `cb_fiber` never share a fiber
  (`OneOwner`), and the state of a thread's fiber is known at every point of `run()`
  (`PlaceOf`). From it every assertion has the state it asks for, and an
  unfinished job an owner (`Kept`, `Somewhere`).
* `SchedulerProofs!StopWaits` (`StopDrains`), if no job holds and running jobs name no
  thread (`SpawnPins \subseteq {AnyThread}`): `stopping()` may be true while another
  thread is about to put a READY fiber back, but that thread scans the list itself
  before it leaves (`SomebodyScans`). The proof asked for the second condition; when
  a job may pin another to a thread TLC finds the task of a thread that has left.
* `TimerManagerProofs!TypeCorrect`, `EraseSafety`: `EraseSafe` with the added
  fact that a timer between constructor and insertion has its callback.
* `TimerManagerProofs!HandshakeSound` and `TimeoutFitsInt`: `FrontCovered` and
  `SleepBounded`, if the clock is never set back (`Jumps = {}`) and no interval
  reaches 2^31 ms (`PeriodsFitInt`). The invariant `FrontInv` adds that no
  deadline is further away than its interval (`NearDeadlines`, which a clock set
  back would break, and without which the conversion to `int` may go negative)
  and that while `m_tickled` is set and every thread waits, the tickle is announced
  or in the pipe (`TickleSent`); `HandshakeSound` needs it because a set `m_tickled`
  suppresses the tickle of the next new first timer.
* `TimerManagerProofs!FiresOnce` (`OneShot`): `Shot` follows a timer from the set to the
  list of a thread that has left the lock; with `EraseInv` it cannot be in both.
* `TimerManagerProofs!CollectedInTime` (`NeverEarly`), in behaviours in which the clock
  is not set back and no thread is held up for an hour between reading it and
  `detectClockRollover()` (`Prompt`): `m_previousTime` is written by whichever
  thread comes, so a thread with an old reading would take the difference for a clock
  that was set back, and collect every timer.
* `IOManagerProofs!TypeCorrect`. The invariant has one part for each group of
  variables; `Working` says what an actor is at: its context exists, its call is
  about that context's descriptor, a task that calls is some job. What epoll
  reports has a context because it watches nothing without a pointer (`EpollOK`).
* `IOManagerProofs!CountIsExact`: `PendingMatches`, for any number of descriptors
  and contexts, also when the table shrinks. Each of the four steps that change the
  count moves exactly one element into or out of one of two sets.
* `IOManagerProofs!EpollIsExact`: `KernelAgrees`, if no context of a descriptor is
  built twice (`MaxGen = 1`; finding `shrink` is what happens otherwise). `Agree`
  states it event by event; an event is `Taken` while somebody holds its context
  and is still to trigger it. No mutual exclusion is needed beyond the lock's
  test, since what a holder takes is no longer watched.
* `IOManagerProofs!NoEventLost`: `EventKept` under the same condition, the safety half of
  `Delivered`. The argument is about epoll alone (`Seen`): what epoll watches and is
  ready is on its list or reported. Whoever changes what is watched calls `epoll_ctl`,
  which puts the descriptor back on the list; a thread has reports only while it goes
  through them (`Handling`), and what it drops as stale is not watched, since it is not
  registered. `EpollIsExact` turns "watched" into "registered and not being triggered".
* `HookProofs`: `HookTypeCorrect`, and `TakenNeverBlocks` (`HookedNeverBlocks` for any
  number of fibers, descriptors and threads) in behaviours each step of which is
  `Disciplined`: none makes a descriptor FdManager knows blocking with `ioctl(FIONBIO)`,
  and none clears O_NONBLOCK of a descriptor that another fiber is just closing. Any
  fiber may set options and close, also timeouts of a descriptor that is being closed, as
  `doRequest()` does in several fibers. The proof needed the second condition; with three
  fibers TLC shows what happens without it. The invariant has
  three layers: where each fiber is (a registered one is on hold in a call for that
  event, one fiber at most closes a number, nobody is about to make it known
  again); that what FdManager knows of an open file is nonblocking; and that a
  call the hook has taken began on such a file, which is still known or being
  closed (`TakenOK`). A number that is opened again is a file of another count.
* `HookProofs!NoWaiterLost`, `TimeoutsKept`, `ConnectsTruly` (`NoLostWaiter`,
  `TimeoutKeptAlone`, `ConnectTrue`), for any number of fibers and descriptors. The three
  properties are about a hook with one thread: finding `lost` and the hazards say
  what two threads do. `CallInv` holds for any number of threads: whose a timer
  is and when it may be armed or late, that no two fibers wait for the
  same event. `Alone` is about one thread: it is in one fiber or one
  callback (`OneBusy`), registrations are for the file that is open now (`FreshRegs`),
  who is on hold sleeps or is registered (`HeldRegs`), a call with a timeout has its
  timer until it is woken (`Timed`), and `connect()` is woken by its own event
  (`Connected`).
* `HookProofs!BlockingCalls`: `Hook` implements `BlockingCall` (`LooksBlocking`), on any
  number of threads, fibers and descriptors. Each action of `Hook` is mapped to a step
  of `BlockingCall` or to none, and the reason of each ending is found. That a waiter is left on a
  number only under a call that waits there needs `WaitOK`: whoever is registered is
  a fiber in a call the hook has taken, for a file that was open. Then a registration can
  outlive its file only in `close_f()` (`LeftStep`), and its owner is the call that is
  left. When the assertion of `addEvent()` fails, the registration that is in the way
  belongs to a fiber on hold for that event of the number (`WaitOK`), and had the two
  calls begun with one file, the second could not have begun (`Only`): so they began with
  different ones (`AbortMeets`). The instance of `library` reaches the abort: a
  reader that was left behind, or woken and tried again, and another one on the number
  when it is open again; without `Stop` TLC finds the refinement violated. The two
  errors take two fibers that read and connect beside the one that closes: with
  "connect" in `Roles` for `next` and in `OnlyReads`, TLC finds the refinement violated
  without `shared` after 15 states and without `left` after 17.
* `HookProofs!NothingLeft`: with one thread (`ThreadCounts = {1}`) nothing is left behind,
  so that only a `shared` call can end with an error nobody caused; it is `FreshRegs` again.
* `ByteArrayProofs`: `CursorCorrect` (`CursorAgrees` for blocks of any size), with the
  invariant that position and size lie within the blocks; `NoNullBlock`, that
  `read()` follows no null pointer unless zero bytes are read; `ZigzagInverse`.
  `BufTypeCorrect` asks for no condition: one lemma for each operation, and for
  `writeToFile()` the induction over its rounds.
* `ByteArrayProofs!OneRun`: ByteArray implements `FlatBuffer` (`BehavesFlat`) for strings,
  blocks and numbers of any size, if writes to a file begin where a block does
  (`Aligned`) and nobody reads zero bytes: the two rows of the table above. The rounds of
  `writeToFile()` are a function of how many blocks are left; that they put out the
  run of bytes from the position on is shown by induction over them.
* `ByteArrayProofs!VarintInverse`: `ReadVarint(Varint[v]) = v` for every number and every
  base, by induction over the number; `ReadsBack`: `NumberReadsBack`, if no number
  needs more bytes than `readUint32()` reads at most (`VarintBytes`, 5 for 2^32). It adds to the
  invariant that the bytes at the place of the last number written stay until
  something is written over them (`WroteOK`).
* `HttpProofs` has the two modules of HTTP. `PoolTypeCorrect`, `ResponseIsOwn`,
  `ConnectionHasOneOwner`,
  `PoolKeepsUsable` (`AnswersOwn`, `OneOwner`, `IdleUsable`). None is inductive
  alone: an answer is one's own because exactly one's own request is outstanding
  on the connection (`Owes`), which holds because a connection has one user, and
  comes from the pool with nothing outstanding. `TotalIsExact` is `TotalCounts`, and that
  `m_total` never exceeds the number of users, the one limit there is (see finding `limit`): the
  fibers that hold a connection are mapped one to one to what it counts. `FrontIsOpen` shows on the way
  that `getConnection()` never drops a connection for being closed.
* `HttpProofs!MessagesWhole` (`MessageExact`), if the peer waits for each answer
  (`~Pipelined`), for every buffer, header, size line and body and every cut of the
  stream outside tokens. `Received` says at each place of the receiver which bytes the
  body has and how many are still needed; the places of the pieces in the stream are
  sums over the pieces before. `HttpTypeCorrect` holds with `Pipelined` too.
* `LibraryProofs` has the server, the daemons and the configuration, and what
  `MCLibrary` puts together. `StopLeavesNoLoop` (`NoLoopLeft` for any number of
  sockets, if the accept worker has one thread). The invariant adds that the task of `stop()`
  and a loop never run at the same time, and that nobody waits on the socket
  between its `cancelAll()` and its `close()`.
* `LibraryProofs!GuardStays` (`GuardLeft` for any number of daemons and crashes, if
  none is in the foreground), from `HasParent`: a server has a daemon that waits
  for it, so the one that has the address is the guard when another gives up.
* `LibraryProofs!LoadersApply` (`LoggersFollow`), if loads do not overlap, for any loggers,
  levels, appenders and edits. `Applying` says how far the listener has come: the
  loggers it has looked at are as the new definitions say, those still to come as
  `m_val` does, and the one at hand has the first of its appenders.
* `LibraryProofs!TcpTypeCorrect`, `ConfTypeCorrect`, `DmnTypeCorrect`: the types of the
  three, without the conditions of the theorems above.
* `LibraryProofs!LibraryComposes`: a behaviour of `LibSpec`, the specification of the run
  `library`, is one of every component, since each step is a step of one and leaves
  the variables of the others alone. So the theorems about the components
  hold of what the run checks; `LibTypeCorrect` (`LibTypeOK`) is the first to follow.

Induction. The library states it about an operator, which the provers cannot be
given; `Recursion` states it about the set of the numbers of which something is true
(`Induct`, `InductOne`), from the library's theorem that a well-founded relation has
minimal elements. With it come the existence of what repeating a step gives
(`Iterates`) and of sums over a sequence (`SumsExist`), and so the values of
`Varint`, of the rounds of `writeToFile()` and of the places of HTTP messages. All of them
are recursive functions, not RECURSIVE operators.

Only model-checked: all liveness (`StopTerminates`, `JobsComplete`, `DueCollected`,
`Delivered`), which like ENABLED is beyond the provers' backends; and that the
conditions named above are needed (the findings and the settings of section 3).
Every invariant and every action property that a run checks is a theorem, under the
condition given with it.

## 5. Findings

* `yield` (`fiber.cpp` 204-209, `scheduler.cpp` 219): `YieldToHold()` writes HOLD
  while the fiber is still on its stack. The wakeup source was armed before, so
  another thread may already have taken and resumed it; `run()` of the first
  thread then overwrites its EXEC with HOLD, and its next yield fails the
  assertion in line 195 or 206. From the same cause the second thread may switch to a context that
  is not saved yet, and a READY written by the second may be overwritten, which
  loses the job. This is why `NoAbort` and `JobReachable` are checked with
  `MayHold = FALSE`.
* `trigger` (`iomanager.cpp` 380-387): every reported event is triggered if one of
  them is still registered; the other may have been deleted, cancelled or
  triggered since. The assertion in line 46 fails.
* `drain` (`iomanager.cpp` 285, `scheduler.cpp` 253): the parts of `stopping()` are
  read one after another, and a thread whose idle fiber has ended goes on taking
  tasks but never idles again. All threads may leave with a task waiting for an
  event, against the comment in line 302.
* `shrink` (`iomanager.cpp` 114-117): the size is not compared again under the
  write lock, so the table may shrink and lose contexts in use.

* `lost` (`hook.cpp` 131): `close()` wakes the waiters (351) before it closes the
  file (356). A reader on another thread that is woken, or comes, in between
  finds nothing to read, sets its timer and registers. After `close_f()` epoll
  has forgotten the descriptor; when the timer fires, `cancelEvent()` fails in
  `epoll_ctl` and schedules nobody. The fiber waits for ever, with a timeout set,
  against the comments in lines 119 and 144. A registration left like this also
  makes the next `addEvent()` for its event abort when the number is in use again.
* `limit` (`http_connection.cpp` 322-339): the pool's limit `m_maxSize`, the maximum number
  of connections according to `http_connection.h` 188, is stored and never read.
  Every user that finds the pool empty opens a connection.

Seen in the source and in the model, without a run of its own:

* `Readme.md` 36 says that the scheduler can bind a coroutine to a fixed thread. A
  fiber that yields READY is scheduled again without its thread (`scheduler.cpp` 215,
  232) and goes on wherever it is taken next; a fiber that a timer or an event wakes
  likewise. `StartsOnPin` therefore stops at the first start.
* `listExpiredCb()` (`timer.cpp` 157-165) looks at `*m_timers.begin()` without a lock after
  it has tested for emptiness under one; with two idle threads the set may be empty
  by then and the read is undefined (`Peek`). No document speaks of it, and what TLC
  checks in `timers` holds whichever way the read comes out.

Observations that no document contradicts: `m_createTime` of a connection is never
set, so connections do not expire; after a failed
`sendRequest()` the connection goes back to the pool; a request to which the peer
closed meanwhile is not repeated. A logger that is no longer configured keeps its
level and its files. With the hook disabled `accept()` still makes descriptors nonblocking.
After `stop()` a server that is started again may have two loops on a socket
(`Restart`). The pid file is empty as long as a server runs: the `ofstream` in
`Application::main()` is flushed when that function returns, so "server is running"
(`application.cpp` 151) is never printed and a second launch gets as far as `bind()`.
SIGTERM to the server counts as a crash (its status is not 9), and the daemon
starts it again.

## 6. Not modelled, and abstractions to keep in mind

* Steps that the code makes one by one and the model at once, because nothing that is
  said of them depends on it: the comparison `ms == m_ms` of `Timer::reset()` (`timer.cpp` 77),
  made before the lock, with the critical section; `m_total -=` of `getConnection()`
  (`http_connection.cpp` 319), which subtracts nothing as long as no connection of the pool is
  closed (`FrontIsOpen`), with the critical section before it; the test of the state at
  `scheduler.cpp` 207 with the assertion and the write of `swapIn()` (`fiber.cpp` 130); the
  second `cancelAll()` of the hooked `close()` in `TcpServer::stop()`.
* Memory is sequentially consistent. `m_state`, `m_stopping` and `m_autoStop` are
  plain variables in the code.
* A failing `epoll_ctl` is modelled for `addEvent`; for the calls that remove
  events it is not, nor is a descriptor closed while it is registered. An EPOLL_CTL_MOD
  passes the context's pointer again; this makes a difference only when a context is
  built twice, and is left out. That an event is not registered twice (the assertion in
  `iomanager.cpp` 122) is a guard of `AddEvent` there, what callers can do about it being
  the subject of `Hook`.
* `crowd` ends a path when a fiber is resumed that is still on a stack, since what
  happens then is undefined.
* In `IOManager` a task leaves its stack in one step; the early wakeup that
  `Scheduler` has as `Arm` and `YieldToHold` is not repeated there.
* `Fiber::call`/`back` outside of `use_caller`, and several schedulers with tasks
  that move between them.
* A tickle can be missed when a task is queued between another thread's scan and
  its entry to `idle()`; the wait is bounded by 3 s and no property speaks of it.
* In `Hook` events and timers are what the modules below promise; EINTR, the other
  half of each pair (write side, send timeouts) and the growth of the table of
  descriptors are left out. `read` stands for all calls that use `do_io` except
  `accept`.
* `Daemon`: all launches use one address and one pid file, and no other program has
  either; the daemon itself is not killed.
* `ByteArray`: byte order, the fixed-width and string calls (which are sequences of
  `write` and `read`), `readFromFile`. `HttpReceive`: what a header says beyond its
  framing. `ConfigLoad`: YAML and its conversions, files other than one, and the
  formatters of appenders: one that is taken away stays (`logger.cpp` 691), so that
  `LoggersFollow` is about levels and appenders only.
* `ConnectionPool`: a send fails only when the peer is gone. `TcpServer`: `bind()` after
  `start()`.
* The components marked `not_modelled` in `PROJECT.json`, with reasons there. Of
  the 36 000 lines 21 000 are Ragel's generated parsers, which are tables of
  gotos, and some 1 300 CMake's compiler probes; formatting, field accessors, thin
  wrappers of system calls and code that is not in the build make up most of the rest.
  What has state and order of its own is in a module.

## 7. What could come next

* `NeverEarly` for intervals and threads that are held up for longer than `Prompt`
  allows: what exactly is then collected too early.
* `KernelAgrees` and `EventKept` when a descriptor is closed while it is registered,
  which needs the kernel's side of `close()` in `IOManager`.
