# A TLA+ verification of Dalin

Dalin is a C++11 network library for Linux in the reactor style: every I/O
thread runs an event loop over `poll(2)`, and other threads reach the objects of
a loop by queueing functors in it. This directory models the parts of the
library (`src/src/base`, `src/src/net`) in which threads, callbacks and the
kernel interleave, checks the models with TLC and proves the most important
results with TLAPS.

## 1. Inventory

| Component | State | Operations | Reached by | What makes it correct |
|---|---|---|---|---|
| **EventLoop** | `looping_`, `quit_`, `callingPendingFunctors_`, `pendingFunctors_` (mutex), eventfd, `activeChannels_` | `loop`, `quit`, `runInLoop`, `queueInLoop`, `wakeup`, `doPendingFunctors` | every other component; other threads | a queued functor is never stranded behind a sleeping `poll`; functors run once, in order; `quit` ends the loop |
| **Poller / Channel** | `pollfds_`, `channels_`, per Channel `events_`, `index_` | `updateChannel`, `removeChannel`, `poll` | Channel setters, on the loop's thread | map, vector and indices agree through swap-removal; `poll` looks at what is asked for, and only at that |
| **TimerQueue / Timer** | `timers_`, `activeTimers_`, `cancelingTimers_`, the timerfd, heap of Timers | `addTimer`, `cancel`, `handleRead`, `reset` | any thread, through `runInLoop`; callbacks of timers | both sets agree; no use after free although addresses are reused; cancelled timers do not return; timers expire |
| **ThreadPool** | `taskQueue_`, `running_`, two conditions | `addTask`, `takeTask`, `stop` | producers, workers, the stopping thread | bound of the queue, FIFO, no lost wake-up, `stop` returns |
| Mutex, Condition, Thread | `holder_`, wait set; started, joined | `lock`, `unlock`, `wait`, `notify`, `notifyAll`; `start`, `join` | ThreadPool, EventLoopThread, CountDownLatch | `holder_` is the owner; no wake-up lost |
| **TcpConnection** | `state_` (no lock), output buffer, Channel, socket | `send`, `shutdown`, `connectEstablished`, `connectDestroyed`, `handleRead/Write/Close/Error` | the loop, other threads, the peer | bytes in order and complete, FIN after the data, closed once |
| EventLoopThread, EventLoopThreadPool | `loop_` (mutex), threads, `next_` | `startLoop`, destructor, `getNextLoop` | owner thread | `startLoop` returns a loop that lives and stays until `quit`; early functors run; the destructor returns |
| Connector | `state_`, `connect_`, `channel_`, retry delay | `start`, `stop`, `restart`, handlers, `retry`, destructor | TcpClient, timer, poll | one attempt at a time, no descriptor leaked or used twice |
| TcpClient | `connection_` (mutex), `connect_`, `retry_` | `connect`, `disconnect`, `stop`, destructor | user threads, Connector | one connection; reconnects exactly when wanted; nothing in the loop uses it after its end |
| TcpServer, Acceptor | `connections_`, `started_` | `start`, `newConnection`, `removeConnection` | base loop, I/O loops | every connection destroyed once, in its own loop, while alive |
| Buffer | vector, two indices | `append`, `retrieve`, `prepend`, `shrink`, `readFd` | TcpConnection, user | is a FIFO of bytes |
| CountDownLatch | `count_` | `wait`, `countDown` | any thread | `wait` returns once the count is 0; it may be destroyed when all users are done |
| Socket, SocketsOps, InetAddress, Timestamp | none of their own | wrappers of system calls | | inputs of the others |

The hard behaviours are: a thread between the push and the write of `wakeup()`;
functors queueing functors; callbacks that change the set their caller iterates
over (timers in a batch, Channels in `handleEvent`); identifiers that outlive
their object (TimerId, descriptors); state read on one thread and acted on in
another (`state_`, `running_`, `quit_`); partial writes; and waiting on two
conditions. The list with lines is `hazards` in `PROJECT.json`.

## 2. Modules

| Module | Models |
|---|---|
| `FunctorQueue` | abstract specification: a FIFO whose elements run once; `RunNow` is `runInLoop()` on the loop's own thread |
| `EventLoop` | `EventLoop.cpp`; implements `FunctorQueue` |
| `EventLoopProofs` | TLAPS proofs about `EventLoop` and `EventLoopThread` |
| `Poller` | `Poller.cpp` and the interest setters of `Channel.h` |
| `PollerProofs` | TLAPS proofs about `Poller` |
| `TimerQueue` | `TimerQueue.cpp`, `Timer.h`, `Timer.cpp`, the timer calls of `EventLoop.cpp` |
| `TimerQueueProofs` | TLAPS proofs about `TimerQueue` |
| `Monitor` | `Mutex.h` and `Condition.h`: the mutex with its `holder_`, and a wait set |
| `EventLoopThread` | `EventLoopThread.cpp` and the start and end of `Thread.cpp`; composes `EventLoop` and `Monitor` |
| `ThreadPool` | `ThreadPool.cpp` with `Condition.h` and `Thread::join` |
| `CountDownLatch` | `CountDownLatch.cpp` over `Monitor` |
| `LatchedPool` | a `ThreadPool` whose tasks use a `CountDownLatch`, as `test/ThreadPool_test` does |
| `LatchedPoolProofs` | TLAPS proofs about `ThreadPool` and `CountDownLatch` in `LatchedPool` |
| `TcpConnection` | `TcpConnection.cpp` with `Channel::handleEvent()` |
| `TcpConnectionProofs` | TLAPS proofs about `TcpConnection` |
| `Connector` | the actions of `Connector.cpp` |
| `TcpClient` | `TcpClient.cpp`; composes `Connector` with its callers and its owner |
| `TcpClientProofs` | TLAPS proofs about `TcpClient` and its `Connector` |
| `TcpServer` | `TcpServer.cpp`, `Acceptor.cpp`, `EventLoopThreadPool.cpp`: the connection table and the lifetime of the connections |
| `TcpServerProofs` | TLAPS proofs about `TcpServer` |
| `ByteQueue` | abstract specification: a byte sequence extended at both ends and read from the front |
| `Buffer` | `Buffer.h`, `Buffer.cpp`; implements `ByteQueue` |
| `BufferProofs` | TLAPS proofs about `Buffer` |
| `MCEventLoop` ... | constants for TLC, one per specification |

Components meet by contract. `EventLoop` is shown to give every queued functor
one run, in order; `TimerQueue`, `TcpConnection` and `TcpServer` use a FIFO `pending` for the
functors queued in their loop, and so does `Connector`. Where the inside of
another component matters the modules are composed instead: `EventLoopThread` runs the actions of `EventLoop`
itself, `LatchedPool` those of `ThreadPool` and `CountDownLatch`, `TcpClient` those
of `Connector`. `Poller` is shown to ignore a Channel from its
first `disableAll()` on; `TcpConnection` uses that as `polled`, which stays
`FALSE` from there, and `ClosedOnce` turns out to depend on it.

Names of variables and operators follow the code (`pendingFunctors_`,
`HandleRead`); an operation on the loop's own thread ends in `Here`. Operators under a
comment `Seeded fault` belong to no specification: each is a plausible mistake in
the operator after it, used to show that a property can fail.

### EventLoop

`loopPc` is the program counter of the loop's thread: `outside` of `loop()`,
`enter` (between setting `looping_` and resetting `quit_`), `check` (the `while`
test), `poll`, `dispatch` (Channels left in `activeChannels_`), `callback`,
`functors` (draining the local vector) and `functor`. In `outside`, `callback`
and `functor` code of the user runs and may call every operation. Another thread
stands between the locked push (or the store to `quit_`) and the `write(2)` of
`wakeup()` in state `wakeup`. The eventfd is a counter that saturates at
`EventfdMax` (2^64 - 2 in Linux, where a further nonblocking write fails).

The history variable `early` holds the functors that the loop's own thread
queued while it was outside `loop()`: for them the code writes no wake-up
(`EventLoop.cpp:130`), so they wait for the next event or for the ten seconds of
`kPollTimeMs`. The properties exclude exactly these, and no timeout of `poll()`
is ever needed for the others.

### Poller

`pollfds_` is a sequence (the code's index plus one), `channels_` a function on
the descriptors registered, `Fd` the descriptor of every Channel. Two Channels
of the instance share a descriptor, as when a socket is closed and its number
given out again. `stage` records whether a Channel was registered; the guards
keep a Channel from registering while another one holds its descriptor. An
entry without events gets the descriptor `-fd - 1`, which `poll(2)` skips.

### TimerQueue

A Timer is an address of a small heap with its sequence number; `delete` frees
the address and `new` may give it out again. Callbacks of a batch may add and
cancel. The wall clock (expirations) and the monotonic clock (timerfd) advance
together in `Tick`; `SetClock` sets the wall clock. `CallbackReturn`, `RunTimer`
and `Reset` are the steps of the loop over `expired`; timers that expire at the same
time run in any order, because the set orders them by address. A `cancel()` on the loop's
thread may come before the queued `addTimerInLoop()` of a timer that another
thread added: the code finds the timer in neither set and forgets the cancel.
The history variable `tooEarly` holds these timers, and `NoResurrection` excludes
exactly them.

### Monitor and EventLoopThread

`Monitor` is a set of operators: `holder_` is the owner of the mutex, `cond_` the
threads asleep in `pthread_cond_wait()`. `notify()` removes an arbitrary sleeper,
`SpuriousWakeup` any.

In `EventLoopThread` the owner stands in `ownerPc` (not started, inside
`startLoop()`, using the loop, in the destructor's `quit()` and `join()`), the new
thread in `runPc` (before and after the construction of the EventLoop, holding
the mutex, inside `loop()`, at its end). The EventLoop lives on that thread's stack:
`alive`. The module extends `EventLoop`; its own specification is `ThreadSpec`. Threads may call `queueInLoop()` and `quit()` as soon as `startLoop()` has
returned, that is, before `loop()` is entered. Two things of the code show:

* `loop()` stores `FALSE` in `quit_` (`EventLoop.cpp:87`), so that a `quit()` between
  publication and this store is lost and the destructor waits in `join()` for
  ever. The history variable `lost` marks it; `DestructorReturns` exempts it.
* `quit()`, by anybody, lets the loop object die while `loop_` still points at it
  and while another thread may be before the `write(2)` of its `wakeup()`. A use
  of the dead object works by luck or is undefined, which ends the model
  (`undefined`). The destructor of an object never started uses a null pointer.

### ThreadPool, CountDownLatch and LatchedPool

In `ThreadPool` a critical section is one step; there is a wait set per
condition; `notify()` removes an arbitrary waiter, `SpuriousWakeup` any. The model
starts after `start(n)`, n > 0. In `CountDownLatch` the critical sections are two
steps, because the question is whether a thread can still be inside
`countDown()` when the latch is destroyed. `LatchedPool` adds the tasks that count
down and a main thread that waits, stops the pool and destroys the latch. With an
initial count of 0 the latch is open and `stop()` comes at any moment.

### TcpConnection

`wire` is what `write(2)` accepted, `accepted` (history) what `sendInLoop()` was
given. A direct write takes any prefix, or nothing (`EAGAIN`); one that `POLLOUT`
announced takes a byte at least, or fails (`handleWrite()` would abort at an `EAGAIN`
there, which `poll(2)` is taken to rule out). `send()` and
`shutdown()` on another thread are split at every access of `state_`. `aborted`
is set where the code calls `abort()` or fails an assertion, and stops the model;
`AbortExplained` says which two situations lead there.
The user keeps a `TcpConnectionPtr`, so that lifetime is out of this module.

### Connector and TcpClient

In `Connector` the loop's thread stands in `loopPc`: `retry` lies between the test
of `connect_` in `retry()` and the assignment of `timerId_`, `established` between
the test in `handleWrite()` and the callback of the owner, `restart` in the owner
between its own test and `restart()`. `connect(2)` is in progress, fails in a way
that is retried, or fails for good (`gaveUp`), and `socket(2)` may fail. A retry takes a timer of
`TimerIds`, which bounds the timers known at a time. One event
may carry the error and the write callback. `owner` says who has to close a
descriptor. `fault` says what ended the program: `assertion`, `socket`
(`createNonblockingOrDie()`), `reference` (a lambda used a reference to a
`shared_ptr` that was gone and found something else) or `destroyed` (the client
or its Connector was used after its end).

`TcpClient` adds the client's own `connect_` (`clientConnect_`), the calls on the
loop's or on another thread, where a call stands between its stores and what it
queues (`callPc`), since nothing protects both `connect_` and `timerId_`, and the
destructor. A connection is removed only when the functors of the previous one
have run (`FormerClosed`, `~SameIteration`): they run in the iteration of the
event that queued them, before the next `poll()`. The user keeps a
`TcpConnectionPtr`. The history variables are `connects` (calls of `connect()`),
`quiet` (the last call put an end to the client's attempts) and `destroyed`, which
says where and when the destructor ran.

What the properties exempt is what the code does:

* A second `connect()` after a `stop()` or `disconnect()` may fail
  `assert(state_ == kDisconnected)` (`Connector.cpp:43`): neither ends the attempt
  under way nor resets `state_`. `AssertionsHold` is about one `connect()`.
* A `stop()` on another thread whose store to `connect_` comes after the loop's
  test of it loses: a connection is still made. `StopHolds` starts after it.
* A destructor on another thread, or during an attempt, leaves functors, timers
  or a Channel behind that use the dead Connector. `SafeDestruction` is about the
  loop's thread and a client without an attempt under way.

Without a connection the destructor also leaves a timer (`TcpClient.cpp:71`), whose
lambda holds the dead `this` and names its `connector_`: `removalTimer`, set by
`DestroyHere`, or by `RunAddTimer` when the destructor ran on another thread. When
it expires (`RemoveConnector`) the language calls the reference to `connector_`
undefined, but `removeConnector()` takes it by reference and has an empty body, so
that an address is computed and nothing is read. `SafeDestruction` therefore does not
say that nothing points at a dead client, only that nothing reads or writes it: it
would fail at the expiry of that timer if `removeConnector()` looked at its argument.

### TcpServer

A `shared_ptr` to a connection is a member of `holders`: the local variable of
`newConnection()`, `connections_`, the temporary of `handleClose()`, the copy
bound into the functor of `removeConnection()`, and one the user may have kept;
the object lives as long as one is left. The lambdas that call
`connectEstablished()` and `connectDestroyed()` capture a reference to such a
pointer. Where that pointer is gone the model chooses between the two outcomes a
build can show: the memory still holds the old value, or the behaviour is
undefined (`undefined`), which ends the model, as an assertion does (`aborted`).
Each loop stands between two events, in `newConnection()`, in `handleClose()`, in
its batch of functors or in `connectDestroyed()`, so that the other loops can run
in between. `numThreads_` is chosen in `Init`: with 0 all is done in the base loop.
`start()` on a thread that is not the loop's is the action `Start`: although
declared "Thread safe." (`TcpServer.h:40`) its first call ends in the pool's
`assertInLoopThread()`. `AcceptFails` is `SocketsOps::accept()` with an
error it does not expect, which ends the program; after the others nothing changes.

### Buffer

The members are functions of the record of the three fields, so that `ReadIn`
(`readFd()`) can call `AppendTo`, which calls `MakeSpace`. Bytes outside the
indices keep their old values, as in the vector. The operations have the
preconditions the code asserts.

## 3. Runs

| Run | Instance | States | Shows |
|---|---|---|---|
| `event_loop` | 2 threads, 3 functors, eventfd limit 2 | 91 540 | `NoStrandedWork`; refinement of `FunctorQueue`; `QueuedFunctorsRun`; `QuitHonoured` |
| `event_loop_thread` | owner and one more thread, 2 functors, eventfd limit 2 | 10 897 | `LoopHandedOver`, `FunctorsRun`, `DestructorReturns` |
| `poller` | 4 Channels on 3 descriptors | 315 000 | agreement of map, vector and indices; no orphan entry; locality of updates; `poll()` reports interested Channels only |
| `poller_reenable` | same | violation | `InterestPolled` fails: enable, `disableAll()`, enable leaves the entry ignored |
| `timer_queue` | 2 addresses, 1 thread, 2 timers, times to 2, one clock change | 234 420 | sets agree, no use after free, no resurrection, precise cancel, timers expire |
| `thread_pool` | 2 workers, 2 producers, 4 tasks of which 2 count down, queue of 2 | 93 736 | bound, FIFO, tasks run, `addTask()`, `stop()` and the latch's `wait()` return, nobody is inside the latch when it is destroyed |
| `tcp_connection` | 2 threads, 2 messages of 2 bytes, peer may reset | 170 670 | stream intact, every abort explained, closed once, FIN after data, progress |
| `tcp_thread_safe` | same, peer never resets | violation | `NeverAborts` fails: `send()` racing `shutdown()` ends in `abort()` |
| `tcp_client` | 2 descriptors, 3 calls, delays 1, 2, 3 | 162 164 | descriptors owned by exactly one, assertions hold, one connection at a time, none after `stop()`, connected and reconnected when wanted, safe destruction |
| `buffer` | 2 byte values, vector of 3 growing to 6, data of up to 2, extra buffer of 1 | 2 664 | indices in order, room made, refinement of `ByteQueue` |
| `tcp_server` | 0 to 2 I/O threads, 3 connections | 86 689 | `connections_`, pointers and polled Channels agree; closed connections are told so |
| `tcp_server_lifetime` | same | violation | `NeverUndefined` fails: a connection dies inside its own event handler |

Deadlock is checked for `event_loop`, `poller` and `buffer`. The other systems may stop:
time ends at `MaxTime`, a pool is stopped, a connection is closed, an
EventLoopThread or a client is destroyed, a server has accepted `MaxConns` connections.

Bounds. Three functors let one be run, one be queued by it and a third come from
a thread while the second wake-up is on its way; the eventfd limit of 2 is
reached. Four Channels give a removal at the front, in the middle, at the end
and alone, with an ignored entry last. Two addresses and two timers reuse an
address (a deleted timer and its successor) and make a batch of two. Four tasks
fill a queue of two while two producers wait, and two that count down let the
latch open while others are still in the pool. With an owner and one more thread
a functor, a `quit()` and the destructor's `quit()` meet in every order. Two messages of two bytes give
partial writes at every place and one message behind another. Two descriptors
let a new attempt start while the last connection is not yet closed; three calls
give a connect, a stop or disconnect and a second connect on either side of a
retry, and three delays reach the limit (with a fourth call the run has 813 988
states and passes too). A vector of six bytes is reached by growing, moving to the front and
overflowing reads in every order; the proofs make the buffer's bounds moot. Two
I/O loops and three connections give an uneven round of `getNextLoop()`, and a
connection accepted while another is removed and a third destroyed.

### Fairness

* Threads that can run are scheduled; code of the user returns.
* `EventLoop`: `poll()` has to return only while the eventfd is readable. Other
  descriptors, and the timeout, owe nothing, so no lost wake-up can hide.
* `TimerQueue`: time passes and the loop gets round to timerfd and functors.
* `EventLoopThread`: as `EventLoop`; the owner and the thread are scheduled, nobody
  has to start, use or destroy the object.
* `LatchedPool`: threads outside wait sets run; spurious wake-ups owe nothing.
  Weak fairness per thread suffices: a producer's step stays enabled only while
  it can act, and with a finite number of tasks nobody overtakes for ever.
* `TcpConnection`: running functors is strongly fair, because `loop()` calls
  `doPendingFunctors()` after every `poll()`, however busy the descriptors are.
  Polls that report POLLOUT are strongly fair: the peer keeps reading.
  `ShutdownCompletes` and `BytesWritten` rest on this and are not claimed for a
  peer that stops reading.
* `TcpClient`: timers expire, `poll(2)` reports the end of an attempt, and a
  server that is tried again and again is reached some time (strong fairness of
  the successful outcomes). `KeepsConnected` therefore fails exactly when the code
  stops trying.
* `TcpServer`: a loop that has begun something, or has functors, goes on. Nobody
  has to connect, close or release a pointer.

## 4. Findings

1. **A Channel cannot be enabled again** (`poller_reenable`). `updateChannel()`
   encodes the descriptor as `-fd - 1` when the last event goes and never
   decodes it. `Poller.h:36` says it "Changes the interested I/O events."
2. **send() and shutdown() are not safe together** (`tcp_thread_safe`). Between
   the check of `state_` and the queueing of `sendInLoop()` another thread may
   shut down the write side. The failed write's bytes are buffered, POLLOUT calls
   `handleWrite()`, whose write fails, and `abort()` ends the program.
   `TcpConnection.h:44`: "Thread safe."
3. **A removed connection has no owner** (`tcp_server_lifetime`). After
   `connections_.erase()` the queued lambda holds a reference to a `shared_ptr`
   instead of a copy (`TcpServer.cpp:103`). If the user keeps no pointer, the
   connection is destroyed when `handleClose()` returns, inside its own
   `Channel::handleEvent()`, and `connectDestroyed()`, "called when TcpServer has
   removed me from its map" (`TcpConnection.h:75`), is called through a dead
   reference. `ClosedAreDestroyed` holds with the exception of runs that end so.

## 5. Proofs

Every invariant and every safety action property of a passing run is the
conclusion of a theorem, and so are the refinements of `FunctorQueue` and
`ByteQueue`. All hold for every value of the constants under the modules'
ASSUMEs: sizes, delays, clocks and bounds are naturals (positive where zero makes
no sense: the eventfd's capacity, a message, an interval, the first retry delay),
`Fd` maps Channels to naturals, "no thread", "no task" and the like are none of the
things they stand beside, an EventLoopThread's owner is one of the threads, and 0
is a byte. The bounds of section 3 (`MaxSeq`, `MaxPending`, `MaxCalls`, ...) stay in
the guards, so a theorem speaks of runs up to a bound, but for every bound.

Most proofs have the same shape: an inductive `IndInv` with the type invariant
`TypeOK` in it, one lemma per action, facts about sequences as lemmas of
their own, and the property from `IndInv`. Where a property needs less,
the proof uses less. Each `IndInv` was first checked as an
invariant of the component's run.

**EventLoop** (`EventLoopProofs`).
* `TypeCorrect`: `Spec => []TypeOK`, proved and not among the run's properties.
* `NeverStranded`: `Spec => []NoStrandedWork`. The property speaks of `poll` only
  and is not inductive: the step into `poll` needs to know about pending functors
  at the `while` test, which in turn needs the drain phase. `IndInv` adds that
  `callingPendingFunctors_` holds exactly while draining (`FlagInv`: this is what
  makes a functor's `queueInLoop()` write a wake-up), that the local vector is
  empty elsewhere (`DrainInv`), and `WakeInv`: everywhere but between `poll()` and
  the swap, pending work not of `early` has a wake-up due.
* `ImplementsFunctorQueue`: `Spec => FunctorsRunOnceInOrder`, with the mapping
  `queue <- functors \o pendingFunctors_`. Every step maps to a step or a
  stutter: the swap stutters because the local vector is empty (`DrainInv`), and a
  functor handed over is fresh by `HistoryInv`.

**Poller** (`PollerProofs`). `IndInv` joins `TypeOK`, `RegisteredConsistent`,
`NoOrphanEntry`, `NewInv` (an unregistered Channel has index -1) and `QuietInv` (the
entry of a Channel without events is encoded as ignored). `RemoveInductive` is
the heart: after the swap the moved Channel, found by decoding the last entry's
descriptor, has the removed one's index, and by `IndexInjective` no other
Channel's entry moved.
* `TypeCorrect` (proved only), `IndicesAgree`, `EntriesOwned`: the three invariants.
* `UpdatesAreLocal`: `Spec => OthersUntouched`.
* `QuietAfterDisableAll`: `Spec => ReportsInterested`.

**Buffer** (`BufferProofs`). `TypeOK` is inductive. The lemmas say what each
operation does to ordered fields: `MoveFacts` and `GrowFacts` (the content is kept),
`SpaceFacts` (and there is room), `WriteFacts` (data behind the content),
`AppendFacts` and `ReadFacts` (the two parts of an overflowing read join to the
data received), `RetrieveFacts`, `PrependFacts`.
* `TypeCorrect`: `Spec => []TypeOK`.
* `RoomIsMade`: `Spec => []SpaceMade`, the assertions of `makeSpace()` and
  `ensureWritableBytes()`.
* `BufferIsByteQueue`: `Spec => ImplementsByteQueue`.

**EventLoopThread** (`EventLoopProofs`). `LoopIsHandedOver`: `ThreadSpec =>
[]LoopHandedOver`. `ThreadInv` needs three facts: only `quit()` sets `quit_`, and
`loop()` leaves only when it has seen it (`AskedInv`); the object exists, and `loop_`
points at it, in exactly the stages of `threadFunc()` (`AliveInv`); `startLoop()` goes on
only after it has seen `loop_` (`OwnerInv`). Nothing is needed about the mutex: a
spurious wake-up takes the owner back to the test.

**ThreadPool and CountDownLatch** (`LatchedPoolProofs`).
* `QueueIsBounded`, `TasksTakenInOrder`: `QueueInv`. Both are nearly inductive: what is
  missing is that a producer inside `addTask()` has a task (`AddingInv`).
* `LatchDestroyedUnused`: `LatchedSpec => []LatchOutlivesUsers`. That `wait()` has returned does
  not say that every worker is out of `countDown()`, so the argument goes through
  `stop()`: the destroying thread waited, stopped and joined in this order (`MainInv`),
  a worker inside `countDown()` is inside a task (`LatchPcInv`), and a joined worker is
  in none. `HolderInv` ties `holder_` to the place inside the latch.

**TimerQueue** (`TimerQueueProofs`). The question is where a Timer can be: its
`addTimerInLoop()` is queued (`PendingInv`), or it is in both sets (`SetsAgree`), or it
is in the batch of `handleRead()` and in neither set (`ExpiredInv`), each at most once.
A TimerId stays meaningful when its address is used again since no id carries
a sequence number above `s_numCreated_` (`IdsInv`), and nobody can cancel a timer
whose `addTimer()` has not returned (`AddingInv`).
* `TheSetsAgree`, `NoPointerDangles`, `NoTimerResurrected`: the three invariants. In the
  last, a cancel inside the batch is remembered in `cancelingTimers_`, which `reset()`
  consults (`ExpiredInv`), and what has finished was not repeating (`FinishedInv`).
* `CancellingIsPrecise`: `Spec => CancelIsPrecise`, from the actions alone.

**TcpConnection** (`TcpConnectionProofs`).
* `TheStreamIsIntact`: what was written, followed by what is buffered, is what was
  accepted. Needs that POLLOUT is asked for exactly while bytes wait on a polled Channel (`WriteInv`): a direct
  write with bytes in the buffer would overtake them.
* `ConnectionClosedOnce`: `CloseInv`: `handleClose()` ends polling, and nothing but a write
  is left of the event; `DestroyedInv`: `connectDestroyed()` is queued once per close.
* `AbortsExplained`, and `FinFollowsData` from `WriteInv`. `StartInv` says that nothing
  happens before `connectEstablished()`.

**TcpClient and Connector** (`TcpClientProofs`). `RunningInv` holds until the program has
failed, `DestroyedInv` after a destructor that ran at a quiet moment.
* `NoDescriptorLost`: a functor that resets the Channel is queued, once, exactly while
  the Channel is out of the Poller and not reset (`ChannelInv`), so an attempt
  never overwrites a descriptor that somebody has to close.
* `AssertionsNeverFail`: `FirstInv`. A client told to connect once has one reason at a
  time to start again: a timer, a retry or a restart.
* `OneConnectionAtATime`: while the client has a connection the Connector stays
  `kConnected` (`ConnectedInv`) and can neither start nor hand one over.
* `StopIsFinal`: `QuietInv`. A client told to stop is past every test of `connect_`.
* `DestructionIsSafe`, `OnlyRemovalTimerIsLeft`: nothing queued, no retry timer, no
  polled Channel and no close callback is left, so that nothing but the timer of
  `TcpClient.cpp:71` can call into the dead client, and that one reads nothing.

**TcpServer** (`TcpServerProofs`). `ConnectionsStayConsistent`: `Spec => []ConnectionsAgree`. A loop
still owes the functors it is draining followed by those pending (`Queued`). A
connection's `connectEstablished()` is queued once, in its own loop, before it is polled
(`EstablishedInv`); its removal is queued once, after it is polled no more
(`RemoveInv`); names are never used again (`NewInv`); and the map holds what it
lists (`ListedInv`).

Only model-checked: liveness, since fairness and ENABLED are out of the prover's
reach (`QueuedFunctorsRun`, `QuitHonoured`, `FunctorsRun`, `DestructorReturns`,
`TimersExpire`, `TasksRun`, `AddTaskReturns`, `StopReturns`, `LatchOpens`, `ShutdownCompletes`,
`BytesWritten`, `KeepsConnected`, `ClosedAreDestroyed`), and the three runs that show a
violation.

## 6. Not modelled

* Socket, SocketsOps, InetAddress: wrappers of system calls without state; their
  results are nondeterministic where a model needs them, and the failures of
  `socket(2)` and `accept(2)` that end the program are actions.
* Formatting, logging, names of connections and threads, cached thread ids.
* `ThreadPool` without threads; exceptions thrown by tasks and thread functions
  (the code aborts); a `pthread_create()` that fails.
* `Condition::waitForSeconds()`, which nothing calls. It does not give up `holder_`
  while it waits.
* A leak (`TimerQueue.cpp:196` is unreachable, so one-shot timers are never
  deleted): the model keeps them allocated, no property is about it.
* `Buffer::shrink()`, which nothing calls (it leaves both indices where they
  were), and `swap()`.
* A Channel removed by the callback of another one while it waits in
  `activeChannels_`: `EventLoop` reduces the Channels of the user to one callback.
* The destructors of `TcpServer` and `EventLoopThreadPool`, which leave the Acceptor's
  Channel and those of open connections in their Pollers; data on the connections
  of `TcpServer`, which `TcpConnection` models.

## 7. Plan

1. `TcpServer`'s destructor with connections still open, and that of
   `EventLoopThreadPool` composed with `EventLoopThread`.
2. Theorems beyond the runs: that the exemptions of the history variables are as
   narrow as they can be (`lost`, `tooEarly`, `quiet`), and that `undefined` in
   `TcpServer` needs a user who keeps no pointer.
3. An abstract specification of `ThreadPool`'s queue and of a timer's life, refined by
   the modules as `EventLoop` refines `FunctorQueue`.
