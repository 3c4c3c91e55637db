# Verification of moe_net

moe_net is a C++11 network library in the style of muduo: one event loop per
thread over `epoll`, non-blocking TCP connections, timers over `timerfd`, a
thread pool, and a small HTTP server on top. Nothing is persisted; the hard part
is the concurrency between loops and threads, the lifetime of connections, and
the small state machines (poller registration, timers, connector). This directory
holds TLA+ models of those parts, the TLC runs that check them, and TLAPS proofs.

Paths below are relative to `src/`. The code is built without `NDEBUG`, so its
`assert`s abort the process; the models treat an assert as a claim.

## Inventory

| Component | State | Operations | Talks to | What makes it correct |
|---|---|---|---|---|
| `EventLoop` (`net/EventLoop`) | `mc_tasks` (under `m_mutex`), `m_handle_tasks`, `mb_quited`, the eventfd, the active channels | `loop`, `quit`, `add_task`, `add_task_in_queue`, `handle_tasks`, `wakeup` | poller, channels, every thread that queues tasks | no task is stranded, lost or reordered; polling goes on; `quit` ends the loop |
| `EpollPoller`, `Channel` (`net/EpollPoller`, `net/Channel`) | the map fd -> `Channel*`, each channel's status and events, the kernel's interest list, raw pointers in the active list | `update`, `remove`, `poll`, `enable_*`/`disable_*`, `handle_event` | kernel, loop | the kernel never holds a pointer to a dead channel; what a channel asks for is what is watched; the active list is alive while it is walked |
| `TimerQueue`, `Timer`, `Timestamp` | `mc_timers` by expiration, the id -> iterator map, `mc_timers_will_del`, the timerfd | `add_timer`, `cancel_timer`, `handle_expiration` | loop, timerfd | both maps name the same timers; the timerfd is armed early enough; cancelled timers do not come back; no early firing |
| `Acceptor`, `Socket`, `SockOps`, `SockAddr` | listening fd | `listen`, `handle_read` | poller, `TcpServer` | each accepted fd is handed over or closed |
| `TcpServer` | the map of connections, started flag | `start`, `new_conn`, `remove_conn`, `remove_conn_run_in_loop`, destructor | acceptor, loop pool, connections | a connection is in the map until its close was seen, and destroyed in its own loop |
| `TcpConnection` | status, input and output buffers, raw `this` in queued tasks | `send`, `shutdown`, `force_close`, `start/stop_read`, `handle_*`, `connect_establised/destroy` | channel, loop, user callbacks | bytes leave in order and completely before the FIN; callbacks see a live object; each asserted status holds |
| `Connector`, `TcpClient` | `m_status`, `m_channel`, `mb_connect`, retry delay | `start`, `stop`, `restart`, `connect`, `handle_write`, `handle_error`, `retry` | loop timers, poller | one socket at a time; each fd handed over or closed; asserts on the status hold |
| `EventLoopThread`, `EventLoopThreadPool` | `mp_loop` under a mutex and a condition | `start`, destructor, `next_loop` | thread, loop | `start` returns a live loop; the destructor's join returns |
| `ThreadPool` (`base/ThreadPool`) | task queue, two conditions, `mb_started` | `start`, `stop`, `add_task`, `take_task` | worker threads, producers | every accepted task runs; nobody waits for ever; `stop` joins |
| `Mutex`, `Condition`, `CountDown`, `Thread`, `Atomic`, `Everythread` | holder, count, thread ids | lock, wait, notify, start, join | all of the above | holder bookkeeping agrees with the lock; a latch opens exactly at zero |
| `RingBuffer` (`net/RingBuffer`) | vector, read and write index | `append`, `prepend`, `read_skip`, `ensure_write`, `read_from_fd` | `TcpConnection`, HTTP | it is a FIFO of bytes; the indices stay ordered |
| HTTP (`net/http`) | parser state, request | `parse_req`, `msg_cb`, `request_cb` | `TcpConnection`, `RingBuffer` | each answer is to one request, in order and by its own fields; requests that arrive whole are answered |
| `LogStream`, `LogBuffer`, `Logger`, `String` | fixed buffer | formatting | everything | digits round-trip; the buffer does not overflow |

### How they interact

A loop thread runs `poll`, the callbacks of the ready channels, then the batch of
queued tasks. Another thread reaches a loop only by `add_task` /
`add_task_in_queue` (a vector under a mutex and an eventfd) and by `quit`. A
`TcpServer` accepts in its own loop and hands each connection to a loop of the
pool; closing goes the other way: the io loop's `handle_close` queues
`remove_conn_run_in_loop` to the server's loop, which queues `connect_destroy`
back to the io loop. Timers, the connector's retries and the thread pool use the
same task mechanism or conditions.


### What is hard here

- **Two threads, one decision.** `add_in_queue` decides about the eventfd after it
  has released the mutex; the status of a connection and `mb_quited` are read and
  written without a lock.
- **Lifetime.** A channel is a raw pointer in the kernel and in the active list; a
  connection is held by a map, by tasks, by the user, and used through a raw `this`.
  Closing takes two hand-overs between loops, and everything goes differently when
  caller and loop are the same thread, because `add_task` then runs at once.
- **Callbacks.** Timers add and cancel timers while a batch is under way; a connection
  is shut down or closed inside its own event; one epoll event runs several callbacks.
- **Resource limits.** Full socket buffers, a full task queue, a full vector, equal
  expirations, a `size_t` below zero.
- **Liveness.** Tasks behind a blocking poll, one notify per task, a timerfd that is
  set anew by every `add_timer`, retries of a connect.

## Modules

The properties are stated at the end of each module. A name in a module is the name
in the code wherever the code has one.

| Module | Models | State and steps |
|---|---|---|
| `TaskQueue` | what `EventLoop.h` promises of tasks | one queue, put and take, until the loop is gone |
| `EventLoop` | `net/EventLoop` | the place `pc` of the loop thread in `loop()` and `handle_tasks()`; `mc_tasks`, `tmp_vector`; one step per section under `m_mutex`, `pushing` for the calls between push and wakeup decision. Tasks are labels |
| `EventLoopThread` | `net/EventLoopThread` over `base/Thread`, `CountDown`, `Mutex`, `Condition` | extends `EventLoop`: the `stage` of the thread that makes, starts, uses and destroys the object and of the loop thread, and the `step` of each inside a section under one of the two mutexes; `lock` is the pthread mutex, `m_holder` what `Mutex` notes of it. Every step of the loop is one of `EventLoop` |
| `EpollPoller` | `net/EpollPoller`, `net/Channel` | per channel `m_events`, `m_status` and its life; per descriptor the poller's map and the kernel's registration. `Update`, `Remove`, `Create`, `Destroy`, and the rounds of the loop. `epoll_ctl` fails as the kernel's does |
| `TimerQueue` | `net/TimerQueue`, `net/Timer`, `base/Timestamp` | both maps, `mc_timers_will_del`, the timerfd and whether its channel is active in this round, which stays so when a callback sets the timerfd anew; `AddTimer` and `CancelTimer` from the loop and from callbacks, `handle_expiration` in its steps; `Tick` is time |
| `ThreadPool` | `base/ThreadPool`, with `Mutex`, `Condition` | the place of every worker and producer; a section under the mutex is a step, a wait is a state left by a notify or spuriously |
| `TcpServer` | lifetime in `net/TcpServer`, `net/Acceptor`, `net/TcpConnection`, `net/Channel` | for each loop thread a stack of calls, tasks, batch and active list with the `revents` of each channel; `EventCalls` is the order in which `handle_event` runs the callbacks of one event; of the output only whether some waits (`"write" \in events[c]`); who holds a `shared_ptr` (`Referenced`); `Finish` destroys what lost its last one and notes the asserts that fail |
| `TcpServerStop` | the above, up to `~TcpServer` and the end of its loops | extends `TcpServer` by destructor, `quit`, `join` and loops that leave |
| `ByteStream` | what `TcpConnection` promises of output | whole messages in, bytes out, one order |
| `TcpConnection` | output in `net/TcpConnection` | status, events, `mc_output`, the room in the socket; `send_run_in_loop` and `shutdown_run_in_loop`, called in the loop or from a task, `HandleWrite`, `StartRead`, `StopRead`, `HandleClose` |
| `TcpClient` | `net/Connector`, `net/TcpClient` | attempts, the channel and its events, retries waiting in the timers, open descriptors; the loop's round as in `EventLoop` |
| `ByteFifo` | what `RingBuffer.h` promises | a queue of bytes |
| `RingBuffer`, `MCRingBuffer` | `net/RingBuffer` | the vector and its two indices; each operation is a function of such a triple, `SizeT` wraps like `size_t` |
| `HttpService` | what a client of `net/http` may rely on | requests in, answers out, one order, and when none may be missing |
| `HttpServer`, `MCHttpServer` | `HttpServer`, `HttpContext`, `HttpRequest`, `HttpResponse` in `net/http` | the context between two reads, the answers, the stream of pieces that the client's requests make; `Receive(n)` is `msg_cb` with the next `n` pieces, the parser a fold over the lines of the read |
| `*_proofs` | | the theorems, see below |

How they fit together: `EventLoop` shows that a loop's vectors are one FIFO queue
that is served promptly (`TaskQueue`); `EventLoopThread` is that loop with the thread
it lives in, and inherits what is proved of it; `TcpServer`, `TcpConnection` and
`TcpClient` use such a queue without its inside. `EpollPoller` assumes of the owners of channels
that they destroy them from a task after removing them; `TcpClient` and `TcpServer`
model those owners (`NoAssertFails` of `TcpClient`, `InUseIsAlive` of `TcpServer`).
`RingBuffer` shows that the buffer is the sequence of bytes that `TcpConnection`
works on. `HttpServer` takes from `TcpConnection` that bytes arrive in order in reads
of any size and that `send` takes nothing after `shutdown`.

## Runs

Each run is `tlc -config <name>.cfg <module>`; the module has the run's name, but for
`MCRingBuffer` and `MCHttpServer`, and the runs in the next section.

| Run | Distinct states | Bounds | What it shows |
|---|---|---|---|
| `EventLoopThread` | 14,310 | the thread of the loop, its creator and a third one, three task labels of which one may be queued before `loop()` | the loop: no stranded task (`NoLostWakeup`), order (`ImplementsTaskQueue`), prompt service, polling between batches. Its thread: `m_holder` agrees with the lock, `start` hands over a live loop and returns, the destructor's join returns |
| `EpollPoller` | 14,400 | three channels on two descriptors, so that one is reused while its old channel exists | the map, the kernel's registrations and the raw pointers stay current |
| `TimerQueue` | 490,034 | three timers, delays of 0 or 1 s, 2 ticks a second, a loop up to 2 ticks late | both maps agree, each timer has one owner, the timerfd is set early enough, a cancelled timer stays out, timers expire |
| `ThreadPool` | 92,959 | two workers, one producer, six tasks of which two are submitted by running tasks, a queue of two: all threads may sleep in `add_task` | one notify per task is enough, both ways; tasks run and `add_task` returns up to `stop` or the deadlock of all workers; `stop` returns |
| `TcpServer` | 219,653 | two connections in one io loop, of which one has output and a peer that may break off; a user thread that force-closes; callbacks that keep, shut down, force-close or send | no assert fails, nothing destroyed is used, a closed connection is released |
| `TcpConnection` | 75,947 | two threads with two messages of two bytes, a socket with three, all outcomes of `m_fd` | one ordered stream, events exactly while output waits, FIN last; output and FIN get out |
| `TcpClient` | 344 | one `connect`, one `stop`, three failures | one attempt at a time, no descriptor lost, a connection in the end |
| `HttpServer` | 3,221 | two requests of seven kinds, cut into reads at every piece | each answer is to one request, in order, once, by its own fields; requests that arrive whole are answered |
| `RingBuffer` | 30,560 | two bytes, chunks of one to three, five bytes of which two are for prepending, five readable | indices in order, a queue of bytes |

The bounds are enough for what can interact: two actors on each side of every race
(in `ThreadPool` two that take and three that add, the workers among them) and a third
where two block each other; as many submitting tasks as workers; a message longer than what fits after
another (2 + 2 bytes against 3); a descriptor reused once; a timer due now, one due
later and one that is late; a buffer that grows, moves and splits a read; a request
that meets what the one before it left in the context. `Busy` bounds `TcpServer` to one
connection with the full set of events: one connection is all that the callbacks of one
event work on, the other one is there for the races over the map and the loop. Nothing
else is bounded but by the constants that each module names as bounds. `TcpServer`
uses every `Conn` once, `EventLoop` recycles labels and ends when its loop does, so
neither is bounded in length. Deadlock is checked where the system never stops (`EpollPoller`,
`TimerQueue`, `TcpServer`); the others may quit, be closed, be joined or have
nothing left to do.

`TypeOK` of a module holds its types and what ties a local variable to the place of
its thread. Some properties except what the code does not promise, in the formula
and its comment: `NoLostWakeup` a task that the loop thread queues while outside
`loop()`, whose wakeup depends on an uninitialised flag; `StopReturns` a worker
asleep in `add_task`, whom `stop` does not wake; `TasksRun` and `AddTaskReturns` a pool
that is stopped and one whose workers all wait in `add_task` for room in the full queue
(`WorkersBlocked`, which the run reaches and which `BlockedForGood` shows to be a
deadlock); the properties of `TcpClient` what
follows a `stop()`; those of `EventLoopThread` a `quit` by a user before the loop is
handed over, and a destructor that quits before `loop()` has reset `mb_quited`;
`ImplementsHttpService` that requests cut or run together may get lost.

### Where the code departs from its documentation

These runs check one property that a comment or an assert of the code states, and
TLC finds it violated.

| Run (module) | Property | What happens |
|---|---|---|
| `EpollPollerDeaf` (`EpollPoller`) | `AskedIsWatched` | `update` uses `EPOLL_CTL_MOD` on a channel in `s_del`, which epoll no longer knows (`net/EpollPoller.cc:128`): after `stop_read`, neither `start_read` nor a send that waits is heard again |
| `TcpServerStop` | `DestroyedByTheirLoop` | `~TcpServer` queues `connect_destroy` and then stops the loops, which may leave without running it (`net/TcpServer.cc:37`) |
| `TcpConnectionShutdown` (`TcpConnection`) | `ShutdownKeepsData` | a send that finds the socket full gets EAGAIN and is dropped as a fault (`net/TcpConnection.cc:110`); nothing waits, and a shutdown sends the FIN. The trace: one send fills the socket, the next one is dropped, shutdown closes |

### Constants under which the code breaks

The passing runs use the values of a careful user: for `TcpServer` a pool of io loops,
as `serv.cc:52` asks for with `set_threads(1)`, where the library's default is none.
Other values of the same constants, and properties that leave an exception out, lead
TLC to these:

| Module and value | Violated | Because |
|---|---|---|
| `TcpServer`, `IoLoop = {}` | `InUseIsAlive` | with no thread pool `handle_close` destroys the connection and its channel inside the channel's `handle_event` (`net/TcpConnection.cc:299`; `net/Channel.cc:24` asserts that this does not happen) |
| `TcpServer`, `"stop_read" \in InCallback` with `"send"` | `NoAssertFails` | a reset by the peer then comes as HUP without IN, for which `handle_event` runs the close callback and the read callback, and `handle_close` runs twice (`net/Channel.cc:69`, `net/TcpConnection.cc:290`) |
| `TcpServer`, `Foreign = {"shutdown"}` | `DestroyedDisconnected` | `shutdown` of another thread writes the status after the loop set `e_disconnected` (`net/TcpConnection.cc:148`) |
| `TcpServer`, `DropsEarly = TRUE` | `TasksFindTheirConnection` | the tasks of `force_close` and `shutdown` hold a raw `this` (`net/TcpConnection.cc:177`) |
| `TcpServer`, `InCallback = {"keep", "close_other"}` and more | `NoAssertFails` | `force_close` of another connection of the loop closes it at once; its event of the same round closes it again |
| `TcpServerStop`, `"shutdown" \in InCallback` | `RemovedSilent` | `connect_destroy` silences only an `e_connected` channel (`net/TcpConnection.cc:321`) |
| `TimerQueue`, `EqualTimes = TRUE` | `SameSize` | the map by expiration holds one timer per microsecond (`net/TimerQueue.cc:224`); the asserts at 111, 153, 170 abort |
| `ThreadPool`, `Starts = 2` | `StartsFreshThread` | `start` after `stop` indexes the joined threads (`base/ThreadPool.cc:38`) |
| `ThreadPool`, `TasksRun` and `AddTaskReturns` without `WorkersBlocked` | themselves | as many tasks that submit as workers: all workers wait in `add_task` for room in the full queue and nobody takes (`base/ThreadPool.cc:78`); no `stop` is needed. With fewer such tasks it does not happen |
| `EventLoopThread`, property `JoinAlwaysReturns` | itself | `loop()` resets `mb_quited` after `start` was notified (`net/EventLoop.cc:89`): a destructor that follows at once has its `quit` undone and joins a loop that goes on |
| `EventLoopThread`, `HandsOverLiveLoop` and `StartReturns` without `users_quit` | themselves | a loop that the init callback or a task makes quit is gone before `start` looks: it returns null or waits for ever, and the destructor uses the dead loop |
| `EventLoop`, property `EventfdWakesForEveryTask` | itself | a task queued by the loop thread outside `loop()` waits for the poll's timeout unless the uninitialised `m_handle_tasks` happens to be true |
| `TcpConnection`, property `QueuedBeforeFin` | itself | `shutdown` goes through the loop so that earlier writes are done (comment at `net/TcpConnection.cc:154`), but in the loop thread it runs at once (155): its FIN overtakes a message of another thread whose `send` has returned and which waits in the queue |
| `TcpConnection`, property `NoSigpipe` | itself | a message of another thread that was checked or queued before a shutdown of the loop thread is written after the FIN: `write` raises SIGPIPE (`net/SockOps.h:52`), which nothing in the library ignores |
| `TcpConnection`, `"other" \in FdOutcomes` | `OutputGoesToSocket` | `handle_write` writes to `m_fd`, which nothing assigns (`net/TcpConnection.cc:251`) |
| `TcpClient`, `MaxConnects = 2` | `NoAssertFails` | the status stays `e_connecting` after success and `remove_conn` resets the connector (`net/TcpClient.cc:92`) |
| `TcpClient`, without `stops = 0` | `NoAssertFails`, `OpenIsOwned` | `stop_in_loop` uses a channel that may not exist and drops its descriptor (`net/Connector.cc:74`) |
| `HttpServer`, a request with `padded = TRUE` | `ImplementsHttpService` | `header` means to strip blanks at both ends but looks for the last ones at the CR (`net/http/HttpRequest.h:141`): `close` followed by a blank is not seen and the connection stays open |
| `RingBuffer`, `AppendsAfterPrepend = TRUE`, `MaxReadable = 6` | `TypeOK` | the room in `re_ring` wraps when the read index is below `s_prepend` (`net/RingBuffer.h:191`); the library never prepends |

## Fairness

- A loop thread goes on: `epoll_wait` has a timeout of 100 s (`net/EpollPoller.cc:70`,
  whatever argument it is given) and returns readable descriptors; callbacks and tasks
  return. `EventLoop` keeps the timeout apart (`TimeoutsHappen`), so that
  `TasksServedPromptly` does not lean on it and `JoinReturns` does: `quit` from
  another thread does not wake the loop.
- `EventLoopThread`: both threads are scheduled; a mutex that is free again and again is
  given in the end to each that waits for it. A notify wakes whoever is asleep; nobody
  is woken spuriously by fairness.
- `TimerQueue`: time passes and a readable timerfd is seen to. `TimersExpire` is about
  the time after callers stop adding: each `add_timer` sets the timerfd anew.
- `ThreadPool`: threads are scheduled, tasks return. Nobody has to call anything. That
  is weak fairness only: which sleeper a notify wakes is left open.
- `TcpConnection`: the loop serves its queue and a writable socket, the peer reads, a
  call of the other thread that has begun goes on. Nobody has to send or shut down.
- `HttpServer`: what was sent is read; the client sends or does not.
- `TcpServer`: loops only; peers and users do what they like, or nothing.
- `TcpClient`: strong fairness for the report of the channel and of the timer, because
  the poll returns any non-empty set of what is ready: epoll passes every ready
  descriptor in turn (the event vector doubles when it was full).

## Proofs

TLAPS checks these for every value of the constants that the `ASSUME` of the module
allows: any threads, tasks, channels, descriptors, sizes.

| Theorem | States | Argument |
|---|---|---|
| `EventLoopThread_proofs!TypeCorrect` | `Spec => []TypeOK` | `TypeOK` is inductive: it ties batch, flag and pushing owner to `pc` |
| `EventLoopThread_proofs!WakeupNotLost` | `Spec => []NoLostWakeup` | inductive together with `TypeOK`: a push makes `WakeupIsAhead` or has the swap ahead of it, since `m_handle_tasks` is up exactly in the batch; the swap empties the queue |
| `EventLoopThread_proofs!LoopImplementsTaskQueue` | `Spec => ImplementsTaskQueue` | `tmp_vector \o mc_tasks` is the queue: push appends, a task is the head, the swap changes nothing as the batch was empty |
| `EventLoopThread_proofs!LoopIsEventLoop` | `ThreadSpec => Spec` | each step is a step of `EventLoop` or changes none of its variables: what is proved of `EventLoop` holds here |
| `EventLoopThread_proofs!ThreadTypeCorrect`, `HolderCorrect`, `LoopIsHandedOver` | `ThreadTypeOK`, `HolderIsOwner`, `HandsOverLiveLoop` | three inductive invariants, one for each theorem, the later two on top of the types: who is inside a section has its mutex, the latch is open exactly after the tid was set, `mp_loop` is set exactly from the loop's section until the loop is left |
| `EpollPoller_proofs!MapCorrect`, `RegistrationsCurrent`, `NoDanglingPointer` | `MapHoldsRegistered`, `InterestNeverStale`, `PointersAreAlive` | one inductive invariant `IInv`: these three need each other, and that a descriptor has one registered channel (`OneOwner`) and that channels are walked only in the events phase |
| `TimerQueue_proofs!MapsInStep`, `TimersHaveOneOwner`, `CancelIsFinal` | `MapsAgree`, `OwnedOnce`, `CancelledStaysOut` | under `~EqualTimes`; one inductive invariant: no two timers are whole seconds apart (`NeverMeet`), which adding whole seconds and passing time keep, so no insert finds its key taken; the batch holds each timer once; a cancelled timer of the batch is marked |
| `TimerQueue_proofs!TimersAreArmedInTime` | `ArmedInTime` | an invariant of its own, for equal expirations too: timer by timer the timerfd is readable or set in time (`InTime`), between expirations and, inside one, from the first timer put back. That some timer is due first is the well-founded order of finite sets, applied to the set of timers before each one |
| `ThreadPool_proofs!TakersCovered`, `AddersCovered` | `TakersCoverQueue`, `AddersCoverSpace` | counting: a push adds one task and wakes one sleeper if there is one, a take removes a task and a taker; while a thread sleeps the queue is covered. Workers leave only after `stop` has woken those who sleep (`NobodyLeftAsleep`) |
| `ThreadPool_proofs!BlockedForGood` | `WorkersBlocked` lasts until `stop` | every worker is in `add_task` or was never started (`UnstartedAreOff`), so none takes, and with the queue full none adds: only `Stop` leads out of it |
| `TcpServer_proofs!NoAssertEverFails`, `InUseIsAlwaysAlive`, `TasksAlwaysFind`, `CloseAlwaysGoesOn` | `NoAssertFails`, `InUseIsAlive`, `TasksFindTheirConnection`, `CloseGoesOn` (the safe half of `ClosedIsReleased`) | under `SafeUse`, for any connections and io loops; see below |
| `TcpClient_proofs!AssertsHold`, `DescriptorsOwned`, `OneAttemptAtATime` | `NoAssertFails`, `OpenIsOwned`, `OneAttempt` | under `MaxConnects = 1`, for any number of failures: until `stop`, the connector is in one of six stages (not asked, queued, watched, retrying, connected, given up), each of which fixes channel, descriptor, retry and tasks; one lemma per step says which stage follows |
| `TcpConnection_proofs!TypeCorrect` | `Spec => []TypeOK` | with lemmas on what a partial write leaves |
| `TcpConnection_proofs!AsksForRoomExactly`, `FinIsLast` | `WritingIffOutput`, `FinAfterWrites` | `OutputInv`, both together: `shutdown_run_in_loop` infers from `is_writing` that nothing waits, `send_run_in_loop` writes at once only if nothing waits |
| `TcpConnection_proofs!OutputIsOneStream` | `Spec => ImplementsByteStream` | step simulation: a direct write is a take and an emit in one |
| `TcpConnection_proofs!SendersAreInOrder` | `SenderOrder` | the invariant follows a message from the call to its end: what was taken was sent, waiting tasks are in order and behind what was taken, the pending call is last |
| `RingBuffer_proofs!TypeCorrect`, `IsByteFifo` | `TypeOK`, `ImplementsByteFifo` | one lemma per operation on a ring in order (`RingOK`), on its indices and its readable bytes; under `~AppendsAfterPrepend`, so that the room in `re_ring` does not wrap |

### The proof about `TcpServer`

`SafeUse` names what the four theorems ask of the user: there is a pool of io loops; no
callback force-closes another connection; none stops reading where another sends; no
other thread calls `shutdown`; who calls `force_close` keeps his pointer until it ran. Each of
these is needed: the table of constants above has, for each, what TLC finds violated
without it.

The calls a loop thread is inside of, the rest of its batch and its queue are read as
one *line*. A step of the thread replaces the first entry by the calls it makes
(`Does`), an event puts its handlers in front, a task from elsewhere comes last, and
starting a task or swapping the queues moves nothing. The invariant `IInv` speaks about
lines only, so it need not know how far a call is from being run:

- `Placed`, `Agreed`, `OneHandOver`: an entry is in the line of its thread, finds the
  status and the map that its assert names, and of being set up, `close_cb`,
  `remove_conn_run_in_loop`, `connect_destroy` and `Channel::remove` a connection has at
  most one, in one line. That is why a status cannot change behind a waiting call.
- `ClosesFirst`, `Events`: `handle_close` is never behind another handler, and an event
  that waits is of an open connection its loop is not inside of. That is why a close
  inside one handler does not meet the next one; it needs that a channel which watches
  at all reads (`Stage`), so that HUP comes with IN.
- `Guarded`, `HandledFirst`: what runs on a raw `this` has behind it in its own line a
  call whose `shared_ptr` holds the connection, or the map or the user holds it.
- `Stages`: status, map and registration in the poller go together; a closed connection
  that either still knows has its next hand-over in a line (`Closing`, `Removing`).
- `Rounds`, `Queues`, `Calling`: what a loop may hold in each phase, what may be queued.
- `Alive`: what is referenced exists, and no assert failed.

The steps of a connection have six effects on status and line (`ConnEffect`), and each
part of the invariant is shown once per effect, then once for the steps that put a call
at the end (`NewConn`, `UserActs`), the two hand-overs (`CloseCb`, `RemoveConn`) and
an event. `Alive` comes last: `RefersByLine` reads `Referenced` off the lines, and a
connection is destroyed only when its last entry left. TLC finds `IInv` invariant on
the instance of the run `TcpServer` (219,653 states).

### What is only model-checked

Every liveness property, because fairness and `ENABLED` are beyond the prover; of
`ClosedIsReleased`, `TimersExpire` and the promises of `EventLoop` the safe halves are
proved (`CloseGoesOn`, `ArmedInTime`, `NoLostWakeup`): what has to happen next is
always on its way. `HttpServer`, whose parser is a fold over the lines of a
read: what it returns for every input takes an induction over that fold. The runs in
which the code departs from its documentation are counterexamples and need no proof,
`TcpServerStop` among them. What follows a `stop()` of the connector or a second
`connect()` is not proved, because it fails.

## Limits of the models

- History variables that the code does not have: `cancelled` in `TimerQueue`, `taken`,
  `lost` and `left` in `TcpConnection`, `failed` in `TcpServer` and `TcpClient`, counters
  of calls, `submitted` in `ThreadPool`. No step depends on them but through a bound or
  because an assert has aborted.
- `TimerQueue` has relative time. The code compares wall-clock times against a monotonic
  timerfd; a jump of the wall clock is left out. `add_timer` and `cancel_timer` have no
  lock, and the model calls them in the loop thread as the library does.
- `TcpConnection` has two outcomes of a failing `write` to the socket: full (EAGAIN) and shut
  down by its own side (SIGPIPE, `killed`, after which no step is left). A reset by the
  peer, with which a write fails before the loop hears of it, is left out: such a
  connection is about to close.
- `TcpServer` knows of the output only whether some waits, `TcpConnection` has no end of
  life; that the bytes which wait when a connection is destroyed are lost is in neither.
- `TcpClient` models the connection only as far as its end. A user who force-closes in
  the connection callback destroys the connector inside its own `handle_write`; that is
  left out, as is a `connect()` in the loop thread, which runs `start_in_loop` at once
  instead of as its first task.
- `HttpServer` cuts a text into two halves: a read that ends inside a text is one case,
  whatever the byte. Headers other than `Connection` are skipped by the parser and left
  out. `request_cb` builds the same response with status 200 for every request;
  `m_http_cb` is stored and never called by the code.
- `EventLoopThreadPool::start` makes one `EventLoopThread` after the other and is not
  modelled by itself; `TcpServer` has its loops from the beginning.

## Not modelled

- `Socket`, `SockOps`, `SockAddr` (wrappers of system calls; an accepted descriptor is an
  input of `TcpServer`), `Atomic`, `Everythread`.
- `LogStream`, `Logger`, `String`: sequential formatting.
- The write-complete callback: for a delayed write the code binds it to the data member
  (`net/TcpConnection.cc:263`), so that it does not run. The high-water callback, which
  nothing in the library sets.
- `Connector::restart` and `TcpClient::disconnect`, which do nothing or are not called.
- The example programs.

## Plan

Done, in this order: `EventLoop`, `EpollPoller`, `TimerQueue`, `ThreadPool`,
`TcpServer` with `TcpServerStop`, `TcpConnection`, `TcpClient`, `RingBuffer`,
`EventLoopThread`, `HttpServer`, the events of `Channel::handle_event` and the waiting
output in `TcpServer`, and proofs of every safety property that a run checks, but for
those of `HttpServer`. Next:

1. Proofs about `HttpServer`: that its answers are those of `HttpService`, with the
   parser's fold as a recursive function.
2. `TcpServer` over `EventLoopThread`: loops that start and stop with the server.
3. The output of `TcpConnection` up to its destruction.
