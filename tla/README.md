# libiomgr in TLA+

Specifications of [libiomgr](../src/README.md), a C++11 library for asynchronous
I/O: a thread pool, timers, an epoll loop, and TCP and HTTP clients and servers on
top. The modules are written from the source in `src/`; `PROJECT.json` names, for
every definition, the lines it stands for.

## The system

One process-wide `TaskRunner`, one `TimerManager` and one `IOManager`, each a
function-local static. The threads are those of the program, the workers of the
task runner, and the poll thread of the I/O manager.

| component | state | operations | talks to |
|---|---|---|---|
| task runner (`threading/`) | queue of tasks, `stop_triggered_`; per task an atomic state, the id of its runner, a notification | `PostTask`, `RunTasks` (workers), `TaskHandle::CancelTask`, `WaitIfRunning`, destructor | everything below posts to it |
| timer manager (`timer/timer_manager.cc`) | 8 shards with a heap and a cached `min_deadline` each, `shard_queue_` sorted by it | `TimerInit`, `TimerCancel` (any thread), `TimerCheck` (poll thread) | posts closures to the task runner, wakes the I/O manager |
| timer heap (`timer/timer_heap.cc`) | array of timers, index kept in each timer | `Add`, `Remove`, `Pop`, `Top` | used under a shard's mutex |
| I/O manager, poller (`io/io_manager.cc`, `io/io_poller.cc`, `io/io_watcher.cc`) | per descriptor the controllers and the mode registered with epoll; per controller descriptor, mode and last task | `WatchFileDescriptor`, `StopWatching` (any thread, callbacks too), `Run` (poll thread), `HandleIO` (workers), destructor | epoll (edge triggered), `TimerCheck`, task runner |
| TCP client, server (`io/tcp_*_impl.cc`) | socket, connect state, one pending read, write and connect (or accept) with callbacks | `Connect`, `Read`, `Write`, `Disconnect`, `Accept`; completion from watcher callbacks and the connect timer | I/O manager, timer manager |
| HTTP client, server, parser (`io/http_*.cc`, `util/http_parser.cc`) | state of the read and write loops, of the parser | one request and response over a TCP client | TCP client, server |
| I/O buffers, URI parser, time, reference counts, statistics | values | sequential | |
| status, addresses, system call wrappers, threads, examples | values, or none | one system call each | |

What is hard here:

* *Two mutexes, one after the other.* `TimerInit` puts the timer into the heap under
  the mutex of its shard and publishes the new minimum under `mutex_` afterwards;
  `TimerCheck` nests them. In between the cached minimum is wrong.
* *Atomics without a mutex.* A task's state, runner and notification are changed one
  by one while other threads cancel and await it.
* *A wait under a mutex.* `StopWatching` waits for a running task with `mutex_` held,
  and that task's callback may want `mutex_`.
* *Edge-triggered epoll.* An event is reported once; a change of the registration, a
  cancelled task or a stale event must not lose it.
* *Wakeups.* The poll thread sleeps in `epoll_wait`; an eventfd gets it out, and a
  worker, not the poll thread, reads that eventfd.
* *Callbacks from other threads.* A TCP client has no lock: the application, the
  workers that handle its events and the connect timer use the same slots, and a
  callback may start the next operation or destroy the client that is calling it.
* *Streams that come in pieces*, break, or take no more data, under loops that were
  written for the case in which they do not.
* *Shutdown* of each part while the others still call it.

The hazards are listed line by line in `PROJECT.json`.

## Modules

| module | models |
|---|---|
| `TaskRunner` | the pool. A block under `mutex_` is one action; every load, store and compare-exchange on a task is an action of its own |
| `Executor` | what the pool promises its callers: tasks are handed out in the order of `PostTask`, each run at most once and, if cancelled first, not at all; who waits for a task waits for its end; nothing is handed out once the destructor has begun, and nothing is left undone when it returns |
| `TaskRunnerProofs` | the theorems of `TaskRunner`, the refinement of `Executor` among them |
| `TimerManager` | the shards, the queue, and the loop of `IOManager::Run` as far as timers go: check, poll, wakeup, and the task that drains the wakeup descriptor. A heap is the set of its timers |
| `TimerManagerProofs` | its theorems |
| `TimerSet` | what a heap promises: a set of timers, one of the earliest on top, and `Add` returning whether its timer came first |
| `TimerHeap` | the array, one step per turn of the loops; implements `TimerSet` |
| `TimerHeapProofs` | its theorems, the refinement among them |
| `IOManager` | controllers, the descriptor table, an edge-triggered epoll, the poll loop, `HandleIO` on the workers, the destructor |
| `IOManagerProofs` | its theorems |
| `SequenceFacts` | lemmas the other proofs share: induction over `0..n` in the form of a set (`UpTo`, `DownFrom`), and the operators on sequences that `IOManager` is written with |
| `TCPClient` | one client: the calls of the application, the handlers on the workers, the connect timer, with the socket and the peer |
| `TCPClientProofs` | its theorems |
| `TCPServer` | `Listen`, `Accept` and its handler, with the accept loop of `HTTPServer` as the application |
| `HTTPParser` | the parser byte by byte, and a definition of lines and headers to compare it with |
| `HTTP` | requests and responses: `InternalRequest`, `InternalResponse`, the connections; extends `TCPServer` and `HTTPParser` |
| `HTTPProofs` | the theorems about `HTTP`: the accept loop, and what is sent and received |
| `URIParser` | `URI` and its escapes, on sequences of bytes |
| `Time` | the arithmetic between `Timer::Start` and `epoll_wait`, with the ranges of the integer types |
| `MC*` | the sets and functions that the `.cfg` files use; `MCPure` also enumerates the inputs of the algorithms |
| `PureProofs` | the theorems about `Time`, `URIParser` and `HTTPParser` |

They compose by abstraction: `TimerManager` uses a heap the way `TimerSet` describes
it, and `TimerHeap` is checked and proved to implement `TimerSet`. `IOManager` uses of a task what
`Executor` says, and `TaskRunner` is checked and proved to implement `Executor`: a task is
handed to one worker and started once, a task dropped while it waits never starts, and
`WaitIfRunning` blocks only on a task that another thread runs. It keeps the atomic
accesses inside `Run` and `CancelTask` as one step each. `TCPClient` and `TCPServer` use of a
controller what `IOManager` shows: an edge is reported while the controller is
registered; every event posts a `HandleIO` task and overwrites the handle of the one before
(`io_manager.cc:144-150`); `StopWatching` cancels the task of the last handle if it has not
started, cannot reach the others and does not wait for one that runs.
`HTTP` is composed of `TCPServer`, `HTTPParser` and both ends of a connection. Of
`TCPClient` it uses outcomes, not what `tcp_client.h` promises: the connect callback may come
before `tcp_` is set, and a `Read` that waits ends as `TCPClient` shows (below).

### TaskRunner

`pc` and `held` are the position of a worker in `RunTasks` and `Task::Run` and its
local `task`; `at`, `arg` and `seen` are the position of any thread in `CancelTask` or
`WaitIfRunning`, with its argument and local `state`. A worker makes calls only
inside a functor. `SpuriousWakeup` is the wakeup that a condition variable is
allowed. `started`, `doomed` and `noReached` are history variables.

`ImplementsExecutor` maps this to `Executor`. `Stage(k)` reads a task's stage off its
`task_state_`: *new* until it has a handle, *refused*, *posted*, *running*, *finished*;
a `kCanceled` task is *dropped* if it was pending when it was cancelled (`doomed`), from
the successful compare-exchange on, although a worker may still pop it, and otherwise
goes on *running*. `Hand(w)` is the task a worker holds from the pop to the store of
the final state, `Awaited(t)` the task whose notification a thread is blocked on, `Queue`
is `tasks_` until `stop_triggered_` is set, `Pool` follows the destructor. A dropped task that
ran, a task run twice or out of turn, or a waiter that came back too early would each be a
step that `Executor` does not have.

### TimerManager

`pc`, `timer`, `deadline`, `is_first` are the locals of `TimerInit`; `loop` is the
position of the poll thread, which is also the holder of `mutex_` while it checks.
Time is in ticks, `Ms` ticks to a millisecond, so that the rounding of
`IOManager::Run` shows. `wakeup` stands for the wakeup descriptor being on epoll's
ready list, `drains` for `HandleIO` tasks of the wakeup watcher that have not read it
yet. `Reorder` gives the result of the two loops of adjacent swaps: where the shard
stops, and the others in their order. `heap_capacity` starts infinite and nothing
reachable lowers it, so `RefillHeap` and the list of less urgent timers are left out,
as are infinite timeouts.

### TimerHeap

Slots `0..count-1` of `timers_` are the vector; `i` and `moving` the locals of the
loop. The division that gives the parent of the root rounds towards zero as in C.
`MaybeShrink` only reallocates.

### IOManager

A call under `mutex_` is split where the code may wait: getting the mutex, up to
`WaitIfRunning`, the registration. `level` is what holds of a descriptor, `ready_list`
epoll's list; a registration that finds the descriptor ready puts it on the list.
`hup` stands for `EPOLLHUP` and `EPOLLERR`, which epoll reports unasked and the
poller turns into both modes. `Dispatch` is the body of the loop over the events: the
controllers that an event is for, in the order of the list, get a task each. Task numbers are reused once nothing refers to them.
`unseen` is a history variable: edges for which the watcher has not been called.

### TCPClient

A step is what one thread does up to the next access that another can see. `callback`
is the four callback slots; an operation is a number, `Retry` is `RetryRead` bound as a
callback, and 0 an empty `std::function`, which throws when it is called. `call` is the
operation a thread is in, between the registration of its watch and the store of its
callback (for `Read` two stores); `at` is where a handler on a worker is: started, in
`RetryRead`, inside the application's callback, or about to clear the slot. `armed` is
epoll's list. `posted` has the controllers whose `task_` is a `HandleIO` task that has not
started, `loose` counts the tasks, not started either, whose handle a later event overwrote:
there is no limit on them. `link`, `inbox`, `eof`, `room` are the socket.
`Builds` says whether a failing `DCHECK` ends the process. `crash` is how the process
died: in a call of an empty slot, in a destroyed client, or in a `DCHECK`.

The races of this class are not assumed away: they are recorded in `mishap` —
`early` (an event before the callback was stored), `twice` (two handlers of one
operation), `again` (an operation started before the handler of the last one cleared
its slot), `timeout`, `stopped` (disconnected under a handler, a call or a posted timer),
`stale` (a `StopWatching`, of a handler, of `CancelReadIfReady` or of `Disconnect`, while a
task with no handle is still to start) — and the properties say what holds without them and that nothing else goes wrong.

`OnConnectDone` declares a second `status` that hides its parameter, so a refused
connection is reported as OK and leaves the client `kConnected`; `Disconnect` tests
`write_callback_` the wrong way round and keeps it. Both are in the model as they are
in the code. `SO_ERROR` is never `EINPROGRESS`, so the `TryAgain` of `OnConnectDone` is not
there.

### TCPServer, HTTP, HTTPParser

`at` is where each worker is in the accept loop; `accept_socket_` stands for the socket
and the callback, stored together. `posted` and `loose` are as in `TCPClient`: every connection
that arrives while an accept is pending is an edge and posts a task. `trouble` records a failed
`listen`, `accept` or watch, an aborted connection, the races of the handler (`early`,
`twice`, and `stale` for a task that `StopWatching` left behind), and `died`: the process ended in
one of its connections. `down` is the end of the process
(in a build without DCHECKs `Accept` returns an error instead, and the loop is over all
the same). The connections are those of `HTTP`: of its clients, and of others that connect and
say nothing (`SilentClient`).

`client[r]` and `server[r]` are the two objects of a connection: `pc`, bytes read, the
parser. `up` and `down_` are the streams; `Reads` gives what a `Read` may return of them.
A byte is a symbol: the first line is one, and so are the name `content-length` (`key`), a
colon, a blank, `cr`, `lf`, a digit and anything else (`x`). `harm` records what went wrong
on a connection: `early`, `reset`, `full` (a write would block), `split` (the body came
apart from the headers), and what a waiting `Read` leads to.

A `Read` that finds nothing waits (`pending`). When its data arrive, a debug build ends in the
`DCHECK` of `ReadIfReady` (`dcheck`, the finding of `MCTCPClientRead`); a release build calls back,
and the next `Read` is started inside that callback (`inside`). If that one waits too
(`again`), its callbacks are cleared when the first one returns (`tcp_client_impl.cc:410` and
`447`), and the data that arrive find an empty function: the process ends, unless they arrive
in between. A wait may also end in one of the races of `TCPClient` (`race`). Both `Finish`
functions delete the TCP client, as a rule inside its own callback; on the server's side
the process may end of what the handler then touches (`freed`). Each client is a
process of its own; the server is one, and all its connections end with it.

What `harm` covers is the code's behaviour, followed to its end: a server whose write
was pending sends the response a second time; one whose write fails goes on using
the deleted object, and the process ends; one whose read fails is never deleted (`leaked`); one
that got the headers without the whole body waits for ever. A client whose write would
block spins, calling `Write` with a write pending; only its end by a reset is followed
further.

### URIParser, Time

Operators only. `Ambiguous` names the URIs that `ToString` cannot write: a path that
begins with two slashes and no authority, and a path or authority that ends in an
ampersand, which `ToString` takes for its own. `Time` keeps the ranges of `int64_t` and of
the `int` that `epoll_wait` takes, as half the number of their values (2^63, 2^31).

## Runs

Passing runs:

| cfg | question | bounds |
|---|---|---|
| `MCTaskRunner` | the safety of the pool in every interleaving, and that it implements `Executor`; posted tasks are settled, waiters and the destructor return | 2 workers, 1 client, 2 tasks: a task can be queued behind another, cancelled and awaited from a functor and from outside. The proofs cover more |
| `MCTimerManager` | minimums, order of the queue, timeout of the poll; a started timer fires | 2 shards, one with two timers, so that a cancelled timer leaves a stale minimum and a shard can move behind the other; 2 callers; clock to 2 ticks, 2 to a millisecond. The proofs cover more shards and timers started again |
| `MCTimerHeap` | order, indices, refinement of `TimerSet` | 6 timers, deadlines 1..4: three levels, equal deadlines, and a removal that must go up. The proofs cover any number of timers |
| `MCIOManager` | tables agree with epoll, no edge lost, called as asked | a reader and a writer of one descriptor, 1 user, 2 workers, 2 tasks. The proofs cover any number of them |
| `MCIOManagerLive` | calls return; the destructor returns although wakeups of `TimerManager` come at any time, unless a task that reads the wakeup descriptor is under way when it writes | 1 user, 1 worker, a hang-up, calls from both callbacks; 2 tasks, so that the one of an earlier wakeup and the one of the destructor's can be there together |
| `MCTCPClient` | which races make the client call an empty slot or use freed memory; short of them every pending operation is watched, misses no edge and is called once, and nothing is called after `Disconnect` | 2 workers, so that two handlers overlap; one operation of each kind becomes pending (a read callback can start a `ReadIfReady`); two pieces of data and the end of the stream, so that three tasks of one watch are posted at a time; a connect timer; both builds. The proofs cover more workers, operations and data |
| `MCHTTP` | the accept loop survives, requests and responses arrive whole, and a request finishes | 2 connections, one with as much body as it says and one with more, of which one carries a request and the other may be a client that connects and says nothing: the connections share only the accept loop and the process, so that another one matters by arriving, in a burst too, and by ending the process, which is `trouble`; 2 workers, so that two tasks of the accept watch overlap; streams cut inside the headers and before the body; one trouble or harm, and a break of the connection of a full buffer; both builds. The proofs cover any number of requests, connections and workers |
| `MCPure` | `HTTPParser` against its definition of lines; URIs survive `ToString` and `Parse`; `epoll_wait` gets the deadline to the millisecond | texts of 6 pieces, lines up to 8 bytes, so that lines end both ways, headers repeat and overrun; all values of an `int64_t` of 6 bits, with an `int` of 3 and 4 microseconds to a millisecond. The proofs cover all widths |

Runs that show a disagreement between the code and what the repository says of it
(`findings` in `PROJECT.json` has the details):

| cfg | what TLC finds |
|---|---|
| `MCTaskRunnerCancelTwice` | the drain of `~TaskRunner` cancels a task that is cancelled already: the branch marked "No reached" |
| `MCTimerManagerLostWakeup` | a drain task swallows a wakeup, and a started timer is never served. The same race threatens the wakeup of `~IOManager`: without its condition `DestructorReturns` is violated in the same way, but no line of the repository says that the destructor returns, so this is not a finding of its own |
| `MCIOManagerStop` | `OnFileReadable` is called after `StopWatching` returned |
| `MCTCPClientRead` | a `Read` that had to wait fails the `DCHECK` "no read pending" of `ReadIfReady` when its data arrive |

Seen while modelling, and not the subject of a run: two controllers with a common mode
on one descriptor disturb each other (`io_manager.cc:199`: the first to stop takes the mode
away); with `NDEBUG` the constructor of `IOManager` does not watch the wakeup descriptor,
because the call is the argument of a `DCHECK` (line 53; the constant `NDebug` selects that
build); `HTTPRequest::AddHeader` applies `tolower` to the result of a comparison, so that
`Content-Length` is not recognised in capitals (`http_request.cc:14`); `OnWriteDone` passes
the buffer object rather than its data to `write` (`tcp_client_impl.cc:452`). The following are in
the models as `mishap`, `trouble` or `harm`, with their outcome, and the properties except them:
`Connect`, `ReadIfReady` and `Write` register the watch before they store the callback, and an
event in between calls an empty function (`tcp_client_impl.cc:177`, `214`; `early`); of two tasks
of one watch `StopWatching` cancels only the second, and the first may call a client that was
destroyed, or, after a burst of connections, find `accept_socket_` null (`io_manager.cc:146`,
`tcp_server_impl.cc:202`; `stale`); in a release build a `Read` that is started in the callback of
another one and has to wait loses its callbacks when that one returns (`tcp_client_impl.cc:410`,
`447`; `again`); a body that comes after the headers is never counted, and both sides wait for
ever (`http_server.cc:95`; `split`).

Every property has a mutant of the code (a dropped guard, a wrong comparison, a
missing call; `mutants` in `PROJECT.json`) that TLC refutes.

### Bounds

`MaxTime`, `MaxArms`, `MaxDrains` (TimerManager), `Capacity` (TimerHeap),
`MaxTasks` (IOManager), `Limit` and `MaxChunks` (TCPClient), `Cuts` and `MaxRequests` (HTTP) and `MaxPieces`
(MCPure) are bounds that the code does not have; each is a guard of the
action that would pass it. In TCPClient nothing new is started once a mishap is
recorded (`Unharmed`), although the threads that are under way go on: the outcome of
the first mishap is followed to its end, combinations of independent ones are not.
HTTP likewise admits one trouble of the kernel's making, or one race, at a time (`Fine`), and
TCPServer one failure of `accept` or of the watch. A connection of HTTP is made once. The `HandleIO`
tasks of TCPClient and TCPServer are not bounded: as many are posted as there are
edges, and `MaxChunks` and the connections bound those. Nothing else is bounded
but the sets of threads, tasks, timers, descriptors and connections.

### Fairness

Threads that can run do run (weak fairness), the clock advances, and functors and
callbacks return. A thread that waits for a mutex others keep taking gets it in the
end (strong fairness): `std::mutex` does not promise it, but every implementation in
use gives it with probability one. Not assumed: that a client posts, cancels or
stops, that the destructor is called, that another event ends a poll, that `epoll_wait`
times out in `IOManager`. `Prompt` in `TimerManager` is an assumption about scheduling
that the code does *not* guarantee: the tasks of the wakeup watcher end before the
poll thread comes round. `MCTimerManager` is under it and `MCTimerManagerLostWakeup`
shows that it is needed. `IOManager` does not assume it: `DestructorReturns` has the
condition in its statement (`DrainUnderWay`), and covers the destructor that writes when no
such task is there. The poll thread's way through the events of a call is one fair thread, whichever controller
comes next. TCPClient has no liveness property and no fairness. In HTTP the two objects of a connection, the
handshake, the accept loop and its event are fair; nobody has to issue a request.

## Proofs

TLAPS checks the theorems for every value of the constants that satisfies the named
assumptions, which TLC evaluates in the runs:

* `WorkersAssumption`, `ThreadsAssumption`, `TasksAssumption`: the pool has a finite,
  non-empty set of workers, and the threads and tasks are distinct;
* `TimerAssumption`: finitely many shards, at least one, times are naturals and `Infinite`
  is above the clock;
* `HeapAssumption`: deadlines are naturals, the capacity is not zero;
* `IOAssumption`: controllers ask for non-empty modes, the wakeup controller may ask to
  read, users and workers are distinct. Nothing is said of how many there are;
* `TCPAssumption`: finitely many workers, the application is not one of them, at least one
  operation of each kind;
* `HTTPAssumption`, `HeaderAssumption`: the sizes of bodies, cuts and headers are numbers;
* `TimeAssumption`: `int` is no wider than `int64_t` and holds 1; a millisecond fits.

All safety invariants, action properties and refinements of the passing runs are proved;
nearly none is inductive by itself. What was added, by module:

### TaskRunnerProofs

`TaskRunnerProofs` proves `TypeOK`, `NoLostWakeup`, `OneHolder`,
`NotifiedMeansCompleted`, `CanceledNeverStarts` and `BlockedHasRunner` from one inductive
invariant `IInv`. None of them is inductive by itself. The parts added:

* `QueueInv`: a queued task is pending or cancelled, and pills are there only after the stop;
* `HeldInv`: a worker past the pop holds a task that no one else has;
* `RunInv`: what the state, the runner and the notification of a held task can be at
  each position in `Run` — in particular it is kRunning or kCanceled from the claim to
  the completion;
* `CallInv`, `WaitInv`: what a thread inside `CancelTask` or `WaitIfRunning` saw is still
  possible, and a waiter is not the runner;
* `HistoryInv`, `DtorInv`: the history variables and the destructor.

`PoolIsExecutor` is the refinement. It needs `SettleInv` on top: a pending task is
queued or with a worker that has not claimed it yet (`PendingInv`), a cancelled task was
pending when it was cancelled or is still run by a worker (`CanceledInv`), and the
destructor's drain pops a task only after it has cancelled it (`DrainInv`); without them
`Vanish`, which asks that no task be posted or running, does not follow. The lemma
`OneCaller` says that a step of one thread's call leaves the calls of the others alone.
Every atomic access then maps to one step of `Executor` or to none; the step that decides
is the compare-exchange, between a start and a drop.

A lost wakeup is excluded because a signal is skipped only when the queue was not
empty, and then `NoLostWakeup` held before: some worker is awake and will come
back to the test with the queue still to be looked at.

### TimerManagerProofs

`TimerManagerProofs` proves `TypeOK`, `MinDeadlineCovers`, `QueueSorted`,
`EachStartEndsOnce`, `NoOversleep` and the action property `NeverEarly`, again from one
`IInv`, with `HeapInv` (the heaps hold the pending timers of their shard), `CallerInv`
(what a `TimerInit` between its mutexes knows) and `SleepInv` (what the poll thread goes
by when it sleeps). `LoopsSort` and `ReorderFacts` say what the two loops of swaps do to
a queue that was sorted but for one shard; `FrontIsEarliest` that the front shard has
the least minimum; `PollTimeoutBound` what the rounding costs. The
argument for `MinDeadlineCovers` is that the value about to be stored covers the heap
of the front shard, except for timers added after it was computed, and those have a
`TimerInit` in flight that will publish a smaller value once `mutex_` is free.
`NoOversleep` holds as long as no wakeup was swallowed; the theorem says exactly
that.

### TimerHeapProofs

Proves `TypeOK`, `HeapOrder`, `IndexIsPosition` and the refinement `ImplementsTimerSet`.
Inside an operation the array has a hole at `i` and a timer, `moving`, that is on its way
into it. `HoleInv` says that `moving`, and a timer that is being removed, are in no other
slot; `AroundHole` that the children of the hole are no earlier than its parent, and that
`moving` fits on the side it comes from, so that the loop may stop where it does. For
the refinement, `TopInv` ties `Top()` to the root, and `AroundHole` has a strict form for
`Add`: the timer is earlier than all it went past, and so `Add` returns TRUE exactly if
it is earlier than all others. That the root is least is an induction along the path
to the root. It is done on sets: a slot earlier than the root would be one of a set of
slots, the least element of that set has a parent outside it, and `HeapOrder` between the
two is the contradiction (`LeastNatural`).

### IOManagerProofs

`IInv` holds whatever the users do and gives `TypeOK` and `CalledAsAsked`: one call is inside
`mutex_` at a time (`OneInside`), a controller is on one list, that of its descriptor, and
once (`OnceListed`), a task is queued once or with one worker (`TasksApart`), and what a
queued task will call was asked for (`Asked`).

`RegistrationAgrees` and `EdgeNotLost` do *not* hold for all users: of two controllers with a
common mode on one descriptor the first to stop takes the mode away
(`io_manager.cc:199`). The theorems have the hypothesis `[]NoSharedMode`: no controller is
added with a mode that another one watches on the same descriptor. `TCPClientImpl` keeps
to it, having one controller to read and one to write, and stopping the one to connect before
it may write; so do the instances of the runs.
Under it `RInv` says that the controllers of a descriptor share its mode out among
them (`SharedOut`, `ModeIsTheirs`) and that only a controller being stopped is off the list
(`AllListed`). `EInv` follows an edge: it is in the kernel, at hand in the poll thread, in
a posted task that is still pending, or in a task that has begun with the other
callback (`AllServed`); nothing but `StopWatching` of the controller itself takes a
posted task away (`HandleIsOwn`).

### TCPClientProofs

Proves `TypeOK`, `CalledAtMostOnce`, `CrashExplained`, `PendingIsWatched`, `ReadyIsServed` and the action
property `SilentAfterDisconnect`. The invariant has three layers, by what went wrong before:

* `Base` holds always: where a handler can be, that one thread at most is inside a read, a
  write and a connect, numbers in order, and that before the socket is opened and after
  it was closed in peace nothing is registered, posted, loose or under way. The last gives
  `SilentAfterDisconnect`.
* `Calm` is about behaviours without a mishap. For the reads, the connect and the write
  it says which combinations of slot, watch and handler are possible: an operation
  between its watch and the store of its callback has no handler; a pending one has its
  callback stored, and its watch, or (for a `Read`) a handler in `RetryRead`; a
  watch is there for the sake of an operation. A handler that starts then finds a
  callback, which is `CrashExplained`. That handlers may start from tasks without a handle
  is what `DueInv` in `Base` is for: short of a `stale` mishap a task that is still to start, with
  a handle or without, has its watch registered, since a `StopWatching` took the one with
  the handle along and found no other.
  `ServedInv` adds where the edge of a socket that is ready can be: with epoll, in a task, or
  with a handler that has not begun. `StopWatching` and a new watch put the others back on
  epoll's list, `OnWriteDone` gives an edge up only when the buffer is full again, and
  `OnReadDone` stops the watch before it reads; this is `ReadyIsServed`.
* `Single` allows every mishap but two overlapping handlers and a task left behind. A callback that was called
  and is still in its slot has the handler that called it inside of it, so nobody
  else calls it; and nothing is written while the client connects, so `OnFileWritable`,
  which serves both, does not take one for the other.

### HTTPProofs

Proves `AcceptorAlive`, `WholeRequest` and `WholeResponse`.

For the first, `AcceptInv` says that, short of trouble (`OneLoop`), at most one worker is in the
accept loop, with `pending_accept_` and the watch set when `Accept` is about to return, or the loop
is posted, or an accept is pending, watched and stored, and that a task of the watch that is
still to start, one of an overwritten handle included, finds it so. It holds for any number
of such tasks: the one that leaves some behind makes the trouble `stale`. The steps of the
connections leave all this alone, or end the process, which is trouble too.

The other two hold for bodies of every size, streams cut at any places, any limit on
the length of a line and any number of connections. `RequestAt` and `ResponseAt` say
where the parser is after n bytes of a request and of a response; `RequestStep` and
`ResponseStep` show it for one byte, through `AddByte`, `FinishLine` and `AddHeader`.
`Parse` is a recursive function: `ParseFollows` gives a function that solves its
equation, so that the one it chooses solves it too, and finds its value by induction
along the bytes. `ExchangeInv` then says of each connection that both parsers are where the
bytes read put them (`RequestInv`, `ResponseInv`), that a server which goes on reading after
the headers has counted less than the promised body and will never count again,
and that, short of a full buffer, what the server has to say goes out in the step that
closes the connection; a read that waits (`Reading`) changes none of this. A success thus has read five or six bytes and, with the headers
complete, all of them.

The proof needed one change of the model: two `CASE` expressions had arms that overlap, and
`CASE` does not take the first that applies, as the code does. They are chains of
`IF` now.

### PureProofs

`DeadlineKept`: `ServedInTime` for all ranges of the two integer types and all times, and
`EpollInTime`, the property of the run. `SignedIdentity` (a value in range is not changed by
a conversion) and `RoundsDown` carry it; the rest is that the sleep fits an `int`.

`DecodingUndoesEncoding`: `DecodesBack` for every string of bytes, and `DecodeInverts`, the
property of the run. The loops of `PercentEncode` and `PercentDecode` are recursive functions,
the second from the end of the text to its start. That such a function exists is proved
by extending a partial one position by position (`Concatenations`, `DecodingExists`).
`JoinPrefix` finds the code of a byte in the text, `CodeDecoded` decodes it, and an
induction from the last byte to the first puts the string together.

`ParsedSurvives`: `ParsesBack` for every text of bytes that `Parse` accepts, and
`URIsSurvive`, the property of the run; `WrittenAndRead` says it of any strings in the
parts of a URI, wherever they come from. Both sides are cut into the same parts.
`Parse` looks for the first delimiter (`Cut`, `CutsText`); the sets of `ToString` leave out
the delimiters that end each part, and so do the hexadecimal digits (`Charsets`), so that
`Parse` cuts where `ToString` joined (`CutsBack`, `SchemeBack`, `AuthBack`, `PathBack`,
`QueryBack`, `FragmentBack`). A query is the words *key=value&* in a row: `FieldBack`
finds each word again and `PairsBack` is the induction over them. `DropsAmpersand` is where
`Ambiguous` is needed: the `&` that `ToString` removes is that of the last pair only if there
is a query; without one it is the last byte of a path or an authority that ends so, and is
lost. That form, and a path that begins with two slashes without an authority before it,
are the only exceptions.

`ParsesAsRead`: `FollowsLines` for every message that begins with a well-formed first line,
and `ParserFollows`, the property of the run, for any number of pieces and any
`kMaxHeaderLength`. `FollowsLines` speaks of all the lines of a message and says nothing of
the line that is still open, so it is not inductive. The inductive form is `Tracks`: as
long as no line was malformed or too long, either the empty line was met and the parser
collects the body, or `cur_line_` is the message from the last lf on, the state says whether
a line was ended before, `cur_line_end_length_` is how all lines so far ended (2 before the
first; `Uniform` is what makes one number enough), and in both cases `headers` is the list of the header
lines in their order and `content_length_` the first of that name (`Position`,
`HeadersAre`). The proof has two halves that meet in it. One is about the definition of
lines alone: what one more byte does to it (`ByteDoes`: nothing, or it ends the first line,
the empty line or a header; `LengthGrows`: when a line gets too long; `UniformBack`). The
other is about `AddByte` alone, case by case (`BodyByte`, `LongByte`, `LineByte`, `LastByte`,
`FirstFinished`, `BlankFinished`, `HeaderFinished`): that `AddHeader` finds the same key and
value in the line with its end as the definition in the line without it (`HeaderRead`).
`StepTracks` puts them together for a byte, `ParseRuns` unrolls `Parse`, and
`ParseTracks` is the induction over a piece.

The induction theorems of the library take an operator as a parameter, which the provers
used here cannot instantiate. All these inductions are on sets of numbers instead: the
least number that is not in the set would be a counterexample (`UpTo`, `DownFrom`).

### Only model-checked

* All liveness (`PostedIsSettled`, `BlockedReturns`, `DestructorReturns`, `StartedFires`,
  `CallsReturn`, `RequestFinishes`): fairness and `ENABLED` are beyond the
  prover.

## Not modelled, and the plan

What is left of the modelled parts: `RunTaskForTEST`, `ResetDeadline` (tests only);
`RefillHeap` and the list of less urgent timers (unreachable); the error that ends
`IOManager::Run` and the limit of 100 events a call; `IsConnected`, the address getters and
the socket options of the TCP classes (they change nothing the modelled operations read,
except that `IsConnected` calls a client with unread data not connected); the fields
of the first line of a message; `WallTime`.

Left out for good: I/O buffers and reference counts (an offset; an atomic counter),
status and address types, the wrappers of system calls, threads, the statistics
(floating point, read only by unreachable code), the examples.
