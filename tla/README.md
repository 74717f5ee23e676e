# A TLA+ model of dwframe

dwframe is a C++ server framework built on coroutines: fibers are scheduled on a
pool of threads, blocking system calls are hooked so that they yield to the
scheduler, and a TCP and an HTTP server stand on top. This directory models the
scheduler, the timers, the epoll loop and the hooked calls, on which everything
else rests, and above them the descriptors, the TCP server, the HTTP server from
its generated parsers to its servlets, the byte buffers, and the configuration
with the loggers that follow it. It is checked with TLC on small instances; the
safety of the scheduler, the timers, the epoll loop, the hooked calls, the
descriptors and the TCP server, the generated parsers, the servlets' registration,
the byte buffers with their codecs, and the configuration with its loggers is
proved with TLAPS for every size.

All paths below are relative to `src/dwframe/`.

## Inventory

| Component | State | Operations | Interacts with |
|---|---|---|---|
| Scheduler (`scheduler.*`) | run queue `m_fibers`, thread counters, `m_stoping`, `m_autoStop`, `m_threads` | `schedule`, `start`, `stop`, `run`, `idle`, `stopping` | swaps into fibers, base of IOManager |
| Fiber (`fiber.*`) | `m_state`, a context and a stack | `swapIn`, `swapOut`, `call`, `back`, `reset`, `YieldToHold`, `YieldToReady`, `MainFunc` | called by `run()` and by task bodies |
| Thread, locks (`thread.*`) | pthread objects, `m_locked` of a guard | construct, `join`; guards over mutexes and rwlocks | used by all |
| TimerManager (`timer.*`) | the ordered set `m_timers`, `m_tickled`; `m_next`, `m_cb` of a timer | `addtimer`, `addConditionTimer`, `cancel`, `refresh`, `reset`, `getNextTimer`, `listExpiredCb` | base of IOManager, polled by `idle()` |
| IOManager (`IoManager.*`) | a context per descriptor, `m_pendingEventCount`, the epoll registration | `addEvent`, `delEvent`, `cancelEvent`, `cancelALL`, `idle`, `stopping` | schedules fibers and timers' callbacks |
| hook (`hook.*`) | `timer_info` of a call | `do_io` (read, write, accept ...), `connect`, `sleep`, `close`, `fcntl`, socket options | IOManager, TimerManager, FdManager |
| FdManager (`fd_manager.*`) | a FdCtx per descriptor: timeouts, non-blocking flags | `get`, `del` | hook |
| TcpServer (`Tcp_server.*`), Socket (`socket.*`) | `m_socks`, `m_isStop`; the descriptor, `m_isConnected` | `bind`, `start`, `startAccept`, `stop`, `handleClient`; wrappers of system calls | IOManager, hook |
| Stream, SocketStream | the socket | `readFixSize`, `writeFixSize` | Socket |
| HttpSession, HttpServer, ServletDispatch, HTTP parser (`http/`) | a receive buffer, the parser, the servlets by path | `recvRequest`, `sendResponse`, `handle` | Stream, TcpServer |
| ByteArray (`bytearray.*`) | a list of nodes, position, size | typed reads and writes, varints, `setPosition` | Socket |
| Config, Log (`config.*`, `log.*`) | variables with listeners; loggers with appenders | `setValue`, `LookUp`, `LodeFromYaml`; log events | all |
| Address, utilities | none | conversions | all |

What is hard, and what must hold:

- **Scheduler and fibers.** A fiber can be woken before it has left its stack:
  `YieldToHold` leaves it EXEC, and only the EXEC test of the scan in `run()`
  keeps a second thread from swapping into a stack in use. The wake-up must not
  be lost either. `stopping()` reads a counter that is decremented before a
  READY fiber is queued again. `cb_fiber` is reused although a callback may have
  yielded in it.
- **Timers.** Users change the set while a poller holds an old clock; `cancel`
  erases without a check; due times have 32 bits and the clock 64.
- **IOManager.** A batch from `epoll_wait` is handled after other threads have
  changed what is registered; the epoll registration, `FdContext::events`, the
  contexts and the counter must agree; `stopping()` reads three things one after
  the other.
- **Hooked calls.** The event, the timeout and `close()` race to wake one fiber;
  a timeout's callback may run in a later round, in a later call, or too early.
- **Descriptors and the TCP server.** Numbers are reused at once, while FdCtx,
  timers and events name a descriptor by its number; accept runs against
  `stop()` and against the limit of descriptors; a Socket is closed several
  times.
- **HTTP.** The parser's offsets point into a buffer that moves under it; one
  `mark` serves five parts of the first line; body bytes come from the buffer
  and from further reads; words are recognised inside ordinary header lines.
- **Buffers.** Every operation must leave `m_cur` at the node of the position,
  also when the position is the end of the last node.
- **Configuration and logs.** Listeners are called under one lock and the value
  assigned under another; a listener must bring the loggers from any old value
  to any new one.

`PROJECT.json` lists these hazards line by line, with the property that watches
each of them, or the reason why none does yet.

## Modules

| Module | Models | Grain |
|---|---|---|
| `Scheduler` | `scheduler.*`, the life cycle of `fiber.*`, creation and join of `thread.*` | one step per critical section of `m_mutex`, and `run()` split wherever another thread can look |
| `SchedulerProofs` | theorems about `Scheduler` | |
| `AbstractTimers` | what TimerManager promises to its users | |
| `TimerManager` | `timer.*`, refining `AbstractTimers` | one step per critical section, the clock read before the lock |
| `TimerManagerProofs` | theorems about `TimerManager`, and the refinement | |
| `IOManager` | `IoManager.*`, with the run queue and the timers as sets | one step per operation under the mutex of a FdContext, `idle()` and `stopping()` in single reads |
| `IOManagerProofs` | theorems about `IOManager` | |
| `HookIo` | `do_io` and `close` of `hook.cc` for one fiber and one descriptor | one step per call that others can observe |
| `HookIoProofs` | theorems about `HookIo` | |
| `FdManager` | `fd_manager.*`, `socket`, `accept`, `close`, `fcntl`, `ioctl` of `hook.cc`, with the kernel's table of descriptors | operators for the steps of `TcpServer` |
| `TcpServer` | `Tcp_server.*`, the life of a `Socket`, `connect_with_timeout`; composed with `FdManager` | one step per call that others can observe |
| `TcpServerProofs` | theorems about `TcpServer` with `FdManager` | |
| `Http11Parser`, `HttpClientParser` | the state machines of `http11_parser.rl.cc` and `httpclient_parser.rl.cc` | `Delta`: a state and a character give the next state and the Ragel actions |
| `ParserWalk` | both machines reading any message (`WalkSpec`) | one step per character |
| `HttpMessages` | `http.*` | operators |
| `HttpParser` | `http_parser.*`: the callbacks, `execute` with its offsets | operators, one call of `execute` is a fold over the buffer |
| `ServletDispatch` | `servlet.*` | one step per operation under `m_mutex` |
| `ApplicationProofs` | theorems about `ServletDispatch`, `ConfigLog` with `Log`, and `ParserWalk` with both machines | |
| `HttpServer` | `http_session.*`, `http_server.*`, `stream.cc`, the reads of `socket_stream.cc`; composed with the four above | one step per read, one for the dispatch, one per write |
| `Digits` | the shifts and masks of the integer encodings in `bytearray.cc` | operators |
| `ByteArray` | `bytearray.*`, the buffers' use in `socket_stream.cc` | one step per call of the interface |
| `ByteArrayProofs` | theorems about `ByteArray` and its encodings | |
| `CommonLemmas` | arithmetic of digits, sequences, induction on the naturals: used by the proofs | |
| `Address` | computations of `address.cc` | operators |
| `Conversions` | `ByteArray`'s steps beside every input of the codecs and of `Address` | each input is an initial state |
| `Log` | `log.*`: loggers, appenders, the listener of "logs" | operators |
| `LogPattern` | `LogFormatter::init`: how a pattern is taken apart | operators, recursive |
| `ConfigLog` | `config.*` with several threads; composed with `Log` | `setValue` split at its two locks |
| `MC...` | the instances for TLC (`MCScheduler` and `MCIOManager` add the symmetry of threads, for the safety runs; `MCConfigLog` also evaluates `LogPattern`) | |

### Scheduler

`pc[w]` is where thread `w` is in `run()`: `scan` (under the lock), `taken` (an
entry was erased, the thread is counted), `exec` (inside the task's body),
`leaving` (state set to READY, TERM or EXCEPT, context not saved yet), `out`
(swapped out), `post` (uncounted, before requeue, hold or forget), `idle`, and
`off` / `done` outside. `cur[w]` is the task, `cbFiber[w]` the local `cb_fiber`
(`Spare` after `reset(nullptr)`). A task is a fiber or a callback; its body may
register a wake-up and call `YieldToHold` (`WaitTasks`, what `sleep` and `do_io`
do), call `YieldToReady` (`ReadyTasks`), end or throw. A wake-up happens at any
time after its registration. `main` follows the main thread through `stop()`.

`tickle()` does nothing in this class and is left out; a task that is queued,
carried or waiting is not scheduled a second time by a user (the code has no
defence against that).

### TimerManager

A timer is its address, since the comparator breaks ties by address. `life` says
whether users hold the pointer: `addtimer` constructs the timer, reading the
clock, before it takes the lock. `due`, `fired` and `seen` are history:
the exact due time, the number of times a callback was handed out, and what the
last `getNextTimer` saw first. The conversion to the 32-bit `m_next` is `Trunc`,
modulo `Width`. The address of the temporary `Timer` in `listExpiredCb` is chosen
freely.

### IOManager

`interest`, `level` and `rdy` are the kernel's side (external): what epoll was
asked to watch, what the descriptor is ready for, and whether it is on the ready
list; edge triggered, with every `epoll_ctl` re-arming the descriptor. `batch[p]`
is what thread `p` got from `epoll_wait` and has not handled yet, `cbs[p]` the
expired timers it has not scheduled yet. `epoll_wait` may return at once with
nothing: in the code its timeout is always 0, because `stopping(uint64_t)` takes
it by value (line 255), so the tickle pipe has nothing to do. A failed assertion
of `triggerEvent` sets `aborted`, which stops the model. Callers keep to the rule
of line 109: no event is added twice.

### HookIo

`pc` is the place in `do_io`; `registered` and `queued` say where the fiber can
be woken from; `timer` is the timer of the current round; `cbQueued` and
`cbFlagged` count the callbacks of expired timers that have not run, and that
have set `cacelled` and not called `cancelEvent` yet. A `timer_info` is known by
the number of its call; the `weak_ptr` is dead when the call has returned.
`close()` takes its three steps one at a time.

### FdManager and TcpServer

`kernel[f]` says which Socket a number belongs to and whether it is
non-blocking; the kernel gives the lowest free number, or none (EMFILE).
`m_datas[f]` is the FdCtx, with the Socket it was made for as history. A new
descriptor blocks until `FdCtx::init` has changed that. `close` takes its steps one
at a time (`CloseBegin`, `CloseLast`), and happens again in the destructors
(`CloseAgain`).

The accept worker is an IOManager with `pool` threads, which take tasks from
`queue` (`Take`) and keep them, in `running`, until they yield or end. Its tasks are
the accept loops and the callback of `stop()`, which for each listening socket calls
`cancelALL`, then `cancelALL` and `FdManager::del` within `close`, then `close_f`
(`StopCancels`, `StopDeletes`, `StopShuts`). With more than one thread an accept loop
runs between these steps. It tests for EAGAIN (`AcceptAgain`) and registers later
(`AcceptWaits`), without a second look at `m_isStop` or the FdCtx; `late` remembers an
acceptor that registered when its FdCtx was gone. A registration left behind when the
descriptor is closed is `stale`: epoll has forgotten it, the FdContext has not, and
a later `addEvent` on the number fails. With `shared`, the default of
the constructor, handlers and connecting fibers run on the accept worker's threads
too, and wait while all of these are held (`HasThread`).

A dialer is a fiber in `Socket::connect`; the callback of its timer first marks
(`TimerMarks`), later cancels by number (`TimerCancels`), when the number may have a
new owner. `disturbed` remembers that a dialer was woken by something that was not its
own, `unwatched` that its `addEvent` failed (`DialUnwatched`), `forced` that an owner's
last word was `ioctl(FIONBIO)` with 0. The server is started again only when the task
of the last `stop()` has run and the acceptors have ended (`Settled`).

### The HTTP modules

The machines are translated state by state, grouped where the generated states
differ only in the position within a word. Characters stand for their classes:
`"A"` and the other capitals, `"g"`, the digits, each delimiter, the blank (`SP`),
`TAB`, `CTL`, `HI` and `NUL`. The machines have disjoint guards where the generated
`switch` depends on the order of its cases, since TLA+'s `CASE` does not choose the
first arm that fits. The words that the response machine spells out are cut to two letters
that branch as the originals do ("Connection" is `cn`, "Content-Length" `ct`,
"Transfer-Encoding" `tr`, "close" `cl`, "chunked" `ck`), `HTTP/` there to `H/`, and
three methods stand for thirty-four. `ParserWalk` abstracts the offsets to the part of the
message they were set for, and a chunk's size to whether it is zero and how many
significant digits it has: with `IntDigits` (8) or more, `strtol` into the int
`content_len` can give anything, so `chunks_done` gets any value. The action
`chunk_size` sets `chunked` too. `HttpParser` has the offsets themselves, clears the
ones `execute` clears and keeps `query_start`. `HttpServer` reads from `wire` in
any portions up to the buffer; `clean` and `dropped` are history: whether a read
ended inside a token, and whether bytes beyond a request were lost with the
buffer. A response is sent in one or more writes (`Write`); `room` says whether the
socket's buffer takes more, which is up to the client (`ClientReads`). While it does
not, the fiber waits in `send`, for which there is no timeout; a failed write
(`WriteFails`) is not looked at by `handleClient`. `uri_relaxed` is never initialised in the code, so it has any value.

### ByteArray and Address

The nodes lie one behind the other in `mem`, `cur` is the number of the node or
`Null`. Bytes have three bits and integers five, so that all values are taken;
the arithmetic of the encodings depends on the widths only through
`GroupBits` and `Width`, and the theorems cover every width. Integers are taken
apart and put together in `Digits`, whose recursions are functions on the naturals
so that they can be reasoned about. `entries` is history: what was written where, and not
overwritten since; `got` is the result of the last read. Addresses are sets of
bits, of 6 (IPv4) and 9 (IPv6) bits instead of 32 and 128; the text of an IPv6
address has its 8 groups.

### ConfigLog and Log

A thread works through the pairs of a document (`work`); `setValue` compares and
calls the listeners under the read lock, then assigns under the write lock, and
other threads step in between. Several threads can be inside the read lock at
once. A listener is one step. `mixed` and `overlapped` are history: the last, or
any, call of `setValue` on a variable overlapped another. A definition that a new
value of "logs" keeps unchanged makes the listener use a null pointer
(`log.cc:656`), and the model ends in `crashed`.

## Runs

| Run | Expected | Shows |
|---|---|---|
| `sched_safe` | pass | No fiber on two threads (`OneCarrier`), the assertions of `swapIn` and `reset` hold (`SwapAssertions`), `m_activeThreadCount` is exact (`ActiveCountExact`), no resumption lost and none doubled (`NoLostWakeup`), the last thread leaves no unpinned task (`LastThreadDrains`) |
| `sched_live` | pass | `stop()` returns (`StopReturns`), a queued task is taken while the pool runs (`QueuedIsTaken`) |
| `timers` | pass | The unguarded erase of `cancel` is safe (`CallbackIffInSet`), a new front is announced (`FrontIsTickled`), the manager refines `AbstractTimers` (`ImplementsAbstract`), an overdue timer is handed out (`DueIsHandedOut`) |
| `iom_safe` | pass | Counter, registration and contexts agree (`PendingExact`, `KernelAgrees`, `OnePlace`); nobody who is registered or queued is left behind when the threads leave (`NoWaiterStranded`) |
| `iom_live` | pass | A registered event that is ready is delivered (`EventIsDelivered`) |
| `hook_safe` | pass | One wake-up per wait (`OneWakeup`), a timeout is the call's own (`TimeoutIsOwn`), no timer left behind (`NoTimerLeft`) |
| `parsers` | pass | Callbacks get the text of their own part (`OffsetsAreOwn`), a complete message had its parts reported once and in order (`CompleteInOrder`), the response's flags are what its lines and its chunk's size say (`FlagsMatchLines`) |
| `http_session` | pass | Requests are dispatched as sent (`DeliveredAsSent`), responses are read back (`RoundTrip`), globs answer with the last registration (`GlobsExact`) and a connection ends, unless its client leaves a response unread for ever (`ConnectionEnds`) |
| `tcp_server` | pass | Nobody uses another's descriptor or FdCtx (`OwnDescriptor`, `CtxIsOwn`), no open socket blocks its thread unless its owner forced it (`NeverBlocks`), `connect` tells the truth unless its event was cancelled or could not be added (`ConnectTrue`), `stop()` ends the accept loops, on one thread all of them (`StopEndsAccept`), a running server accepts unless EMFILE starves its handlers (`ClientIsServed`) |
| `bytearray` | pass | `m_cur` is the node of the position (`CurIsPosition`), what was written is read back (`ReadsBack`), all views of the data agree (`ViewsAgree`), the codecs, masks and texts are exact (`CodecExact`, `AddressExact`) |
| `config_log` | pass | Loggers and copies follow the variables and deleted loggers are silent (`ListenersFollow`), formatters agree (`FormattersFollow`), patterns made of items, braces and escapes are taken apart exactly (`PatternExact`) |
| `hook_timeout` | violation | A timer that expires between `addConditionTimer` and `addEvent` leaves the call without any wake-up |

`hook_timeout` contradicts a statement of the repository, which `PROJECT.json`
quotes under "findings". Where a property has an exception (a read that ends inside
a token, an overlapping `setValue`, a disturbed or unwatched `connect`, an acceptor
that registers late, a starved handler, an unread response), the model contains the
excepted behaviour, and the hazard in `PROJECT.json` says what the code does there.

The runs are spent on properties that could fail. `TypeOK` of `Scheduler`,
`HookIo`, `TimerManager`, `IOManager`, `TcpServer` and `ByteArray` is proved, as the
first part of the inductive invariants.

### Bounds

- `sched_safe`: two pool threads and the caller's. The tasks are one of each
  kind that behaves differently: a fiber that yields READY, a callback that
  waits, and a second callback, which is what the reuse of `cb_fiber` needs. Three
  calls of `schedule` allow each task once, or an ended fiber again. Two calls of
  `stop()` reach the root fiber that has already ended. The theorems cover every
  other size.
- `sched_live`: the same threads with two tasks, because liveness is expensive.
  No task is pinned: a task pinned to a thread that has already left is never
  taken (see the hazards).
- `timers`: two timers, so that one can be in front of the other; a clock of
  three values and delays of one and two, so that a recurring timer expires
  twice. The clock starts at the modulus and stays within one period of it, where
  truncation keeps the order. A delay of zero is left out, because a recurring
  timer would then fire without end.
- `iom_safe`: one descriptor with both events, two threads, two fibers and a
  callback. The contexts of different descriptors are independent except for the
  counter. `iom_live` has no callback.
- `hook_safe`: three calls, three arrivals; late callbacks of two earlier calls
  can meet the third.
- `parsers`: a character of every class that the machines tell apart, so every
  modelled state is reached; messages of any length, since the states are finite
  (digits are counted up to `IntDigits`).
- `http_session`: five messages (written by `HttpRequest::dump`, by hand with bare
  line feeds and mixed case, and two malformed ones), at most three operations of
  client and administrator beyond the bytes' arrival, every way to cut the bytes.
  The buffer of 64 holds every message and not two of the longer ones.
- `tcp_server`: one listener, one client at a time, one dialer and two numbers,
  one fewer than they need, so that EMFILE and reuse happen all the time; two
  starts, two dials. The accept worker has one thread or two, shared with the handlers
  or not: one thread can be held by the spinning loop, two let the loop run against
  the callback of `stop()`.
- Conversions without state (the integer codecs, masks, address texts, log patterns)
  are checked in `bytearray` and `config_log` with each input as an initial state of
  its own (`input` in `Conversions` and `MCConfigLog`).
- `bytearray`: nodes of two bytes and at most six bytes, so that each item crosses
  a boundary somewhere and the position meets the end of the last node; five
  operations.
- `config_log`: two threads and four loads of five documents, which define, change,
  keep and drop loggers, and contain a text that cannot be converted, an unknown
  and an invalid name.

Deadlock checking is off where the system may come to rest: everything ended, or
the bounds are used up.

### Fairness

- `Scheduler`: every thread is run by the operating system (weak fairness of its
  steps in `run()`); a body that is resumed again and again ends (strong
  fairness of `Finish`: a body that yields for ever keeps `stop()` waiting by
  design); `stop()` goes on. Users' calls and wake-ups are owed to nobody.
- `TimerManager`: time passes and the poller goes round its loop in `idle()`.
- `IOManager`: every thread is run; a body yields or ends. The kernel owes
  nothing beyond what is on its ready list.
- `HookIo`: the fiber, the callbacks and the poll go on, and a timer that is not
  cancelled expires. Nothing has to arrive on the descriptor.
- `HttpServer`: the connection's fiber is run, and a receive that nothing answers
  fails: `startAccept` gives every client a receive timeout (`Tcp_server.cc:83`,
  two minutes by default), which `do_io` applies. A write goes on when there is room
  or the client is gone; a send has no timeout (`fd_manager.cc:16`), so a full buffer
  with a client that stays promises nothing. The client owes nothing.
  `hook_timeout` shows the one way in which that timeout can fail to wake the
  fiber; `ConnectionEnds` is relative to its not happening.
- `TcpServer`: each thread of the accept worker goes on with the task it has, an idle
  one takes the next and polls, attempts to connect end or time out. A handler ends
  while there is a thread for it: on a worker of its own always, on a shared one only
  when not all threads are held. Users and clients owe nothing.

## Proofs

`SchedulerProofs` proves, for any finite pool, any set of tasks and any bounds,
from the named assumptions of `Scheduler`, that the specification implies the
type invariant, `OneCarrier`, `SwapAssertions`, `ActiveCountExact`,
`NoLostWakeup` and the action property `LastThreadDrains`.

None of these is inductive. `OneCarrier` for instance is kept by `Take` only
because a queued fiber that a thread still carries is EXEC, so that the scan
skips it; this is so because it was queued by its wake-up, and a wake-up can only
be registered by a fiber that is EXEC and stays so until `run()` writes HOLD.
`IndInv` says this in three groups:

- `QueueInv`: no task is queued twice; a queued task that a thread carries is
  EXEC and its wake-up has fired; an armed wake-up's task is not queued; a fired
  one of a running fiber is queued; a fiber that must run again is queued or
  carried.
- `FiberInv`: one carrier; `cur` is set exactly where `run()` has a task; the
  fiber's state at `taken` and `exec`; only suspended or suspending fibers have
  wake-ups; an EXEC fiber is carried; `cbFiber` holds a fiber only while it runs;
  joined threads are gone.
- `CountInv`: both counters are cardinalities.

There is one lemma per action, or group of actions of the same effect, on top of
lemmas about removing one entry from a sequence, appending one, and moving one
thread between labels. `LastThreadDrains` then follows from the guard of
`LeaveRun`, which is the failed scan: the last thread to leave has just seen that
every entry is pinned elsewhere or EXEC, and by `ExecCarried` an EXEC entry would
be carried by a thread that has not left.

`HookIoProofs` proves the type invariant, `OneWakeup`, `TimeoutIsOwn` and
`NoTimerLeft` for any number of calls and arrivals. `IndInv` adds that a fiber
about to yield can be woken (`WillBeWoken`), that callbacks and flags of a call
stem from a timer of that call that expired (`CallbackIsOwn`), and that a fiber
inside `do_io` is in one of its calls.

`TimerManagerProofs` has two groups of results. `TypeCorrect` and
`CallbackCorrect` hold without any hypothesis, also when `m_next` wraps: beside the
types, `CallbackIffInSet` needs only that a timer under construction has its
callback. `TickleCorrect` (`FrontIsTickled`) and `Refinement` (`ImplementsAbstract`)
assume `OnePeriod`: the clock and every due time stay within one period of the
32-bit key. The hypothesis is needed, since across the wrap a later timer has the
smaller key and the code compares keys; the instance of the `timers` run satisfies
it. `TimeInv` then says that a poller's clock is not ahead of the clock
(`PollInv`), and that the key of a timer is its exact due time less the start of
the period, with the current round begun in the past (`DueInv`); this is what
makes a timer taken by `listExpiredCb` due in `AbstractTimers`. The refinement is
proved action by action, each a step of `AbstractTimers` or a stutter.

`IOManagerProofs` proves the type invariant, `PendingExact`, `KernelAgrees`,
`OnePlace` and `NoWaiterStranded` for any descriptors, threads, fibers and
callbacks. `PendingExact` counts with cardinalities, so the proof rests on a
lemma for one event set or removed at one descriptor. The rest of `IndInv`:

- `PlaceInv`: a context is set exactly for the events of its descriptor; a waiter
  waits for one event; an expired timer is in the hands of one thread; run queue,
  sleepers, registrations and expired timers exclude each other; a fiber that
  executes and has not yielded is in none of them.
- `PcInv`: where in its loop a thread has a fiber, expired timers, or a
  terminated idle fiber.
- `StopInv`: when every thread has ended its idle fiber or has just found the
  queue empty, the queue is empty and nobody executes; when all idle fibers have
  ended, nothing is registered. It is stated over all threads, because no single
  thread's reads in `stopping()` show it: only the last thread's do, when nobody is
  left who could register something between them.

`TcpServerProofs` proves the type invariant, `OwnDescriptor`, `CtxIsOwn`,
`NeverBlocks` and `ConnectTrue` for any listeners, clients, dialers, numbers and
threads, and `SingleThread`, the safety part of `StopEndsAccept` for one thread.
`FdInv` adds to the first three which fibers hold a number at all (`HasFd`), that
an FdCtx belongs to whom the kernel has given the number (`CtxOf`), and that between
`FdManager::del` and the system call of `close` there is none (`DeletedCtx`): a number
that the kernel gives out is free, so nobody holds it and it has no FdCtx. `DialInv`
adds to `ConnectTrue` that a registered dialer waits on its own number, that timers
are set only inside `connect_with_timeout`, and that a dialer which was neither
timed out nor disturbed was woken by the end of its attempt.

`SingleThread` says that with one thread no acceptor ever registers late, so that the
exception of `StopEndsAccept` needs two. `ThreadInv` has what this rests on: no more
tasks run than there are threads, and an acceptor between EAGAIN and `addEvent` holds
one (`Threads`); a registered acceptor waits where it called `accept`
(`AcceptorWaits`); the number it uses is never another listening socket's
(`AcceptFd`); so with one thread the callback of `stop()` cannot step in there, and the
descriptor still listens (`OneThread`).

`ApplicationProofs` has three groups of results. The first is `GlobsExact` of the
registration on its own (`DispatchSpec`, whose step `Register` is also the
administrator's step in `HttpServer`). `DispatchInv` is `GlobsExact` entry by entry: each entry is what was
registered last, each registered glob has an entry, and none has two. From it
follows what a request gets (`AnswersFollowRegistration`).

The second is `ListenersFollow` and `FormattersFollow` of `ConfigLog`, for any number
of threads, loads and documents. Neither is inductive, because `setValue` calls the
listeners before it assigns, and others step in between. `ConfigInductive` establishes:

- `TypeInv`: the value of "logs" is always a set with one definition per name, and each
  logger is in order: its formatter is usable, and an appender has a usable one of its
  own or the logger's (`FormattersFollow`).
- `SetInv`: a thread inside `setValue` works on a variable that exists, with the value
  its text converts to; nobody changes this under it.
- `SoloInv`: of two threads inside `setValue` of one variable both know that they
  overlapped (`solo` is false for both, whichever came first).
- `FollowInv`, `CacheInv`: outside `setValue` the listener's copy is that of the
  variable; between the call of the listener and the assignment it is that of the value
  about to be assigned, provided the call did not overlap another.
- `SilentInv`: the names that were defined at any time and are not in the value last
  handed to the listener belong to loggers that write nothing, as long as no two calls
  ever overlapped.

The listener has to bring the loggers from *any* old value to the new one: lemmas say
what it makes of a logger that is defined (`DefineGood`), of one that is dropped
(`DeleteGood`), and of all of them (`ListenerGood`).

The third is `OffsetsAreOwn`, `CompleteInOrder` and `FlagsMatchLines` of `ParserWalk`,
for messages of any length over any set of characters: the theorems need no assumption
on the alphabet, so a character that no machine knows is covered as well. `WalkInv`
has beside `OffsetsAreOwn`:

- `RequestInv`, `ResponseInv`: for every state of a machine, what `mark` and
  `field_start` with `field_len` point at, and which callbacks have been made so far.
  `CompleteInOrder` is what the latter says in the final states.
- `LinesInv`: for every state of the response's header, what the line holds that is
  being read, and how far `close`, `chunked` and `content_len` have caught up with the
  lines: `close` is written when the next line begins, `content_len` when the value
  ends. It is claimed only while no recognised name had an empty value (`emptySeen`),
  since the code then takes the value from the next line.
- `ChunkInv`: while a chunk's size is read, whether it is zero is whether it has a
  significant digit so far; afterwards `chunks_done` says so, for sizes of fewer than
  `IntDigits` digits.

There is a lemma for each group of states that `Delta` distinguishes, for requests
(`Request...`), responses (`Response...`) and lines (`Line...`), on top of lemmas about
adding a callback (`RequestOrder`, `ResponseOrder`) and about what a line can become
with one more character (`NameLines`, `OpenLines`, `HalfLines`, `WholeLines`).

`ByteArrayProofs` proves, for any size of node, width of bytes and integers, items
and chunks:

- `CodecCorrect`: every value survives its encodings, within the bytes that the
  writer's array has and the reader's loop takes. `CodecAlwaysExact` is
  from it `CodecExact` of the run, for every width instead of the one that TLC
  enumerates. It rests on
  lemmas of `CommonLemmas` about powers and digits: a number is the sum of its
  digits, `PowOfPow` relates groups of bits to bits, `AllDigitsBack` puts a number
  together again.
- `MasksCorrect`: the masks that `address.cc` computes with shifts (broadcast
  address and subnet mask) have exactly the bits of the prefix, for every prefix length
  and every width of address, with the exceptions that `MasksExact` names. This is the part of `AddressExact` about masks.
- The type invariant, `CurIsPosition`, `ReadsBack` and `ViewsAgree`. `IndInv` has
  `Sane`, the chain of nodes (position, size and capacity in order, the capacity a
  multiple of the node, `m_cur` the node of the position or none behind the last),
  and `Stored`: each recorded item's encoding lies in memory at its place.
  `ReadsBack` follows from `Stored` and `CodecCorrect`. For `writeToFile` the loop is
  followed round by round (`FileStates`): after each round the file has the bytes up
  to the place where the loop stands.

Induction over the naturals is done without the library's theorems, whose operator
parameters the provers cannot instantiate: `NatInduct` of `CommonLemmas` is stated for
sets of naturals and proved from the order of the naturals, and `NatRecursion`
gives the existence of a function defined by recursion. A step that unfolds a
recursive function (`Pow`, `FromDigits`, the file loop) cites the lemma that shows the
function to exist.

The assumptions are the named ones of the modules: `IOManager` has at least one
thread (asserted in `scheduler.cc:12`), the sets of sockets are disjoint and contain
none of the special values, the items written are values of the types that the
functions take (`ItemsAssumption`), node size and widths are positive
(`AddressAssumption` for addresses), documents are sequences of pairs of a name and a
converted text, and a text that converts to a value of "logs" gives a set with one
definition per name, as `std::set<LogDefine>` does (`DocumentsAssumption`). TLC
evaluates them in the runs.

Only model-checked:

- liveness (`sched_live`, `iom_live` and the temporal properties of the other runs),
  which is out of the prover's reach;
- `DeliveredAsSent` and `RoundTrip` of `HttpServer`: `execute` is a fold of the machine
  over a buffer, and what it computes for every buffer is induction over data, out of
  the prover's reach. What each character does is proved (`ParserWalk`);
- `PatternExact`: the scanner of `LogPattern` is a recursive operator, which is why it has
  a module of its own, apart from the loggers that the theorems are about;
- the texts in `AddressExact`, a finite table of inputs.

## What the code does outside the properties

Seen while modelling, and beyond what a property of the runs states:

- A `stop()` that returns early leaves `m_threads` filled, so that a following
  `start()` fails its assertion (`scheduler.cc:53`, `113`); a second `stop()` with
  `use_caller` enters the terminated root fiber (`scheduler.cc:110`).
- `getNextTimer` compares a 64-bit clock with the 32-bit `m_next` and
  `stopping(uint64_t)` takes its result by value, so `epoll_wait` never sleeps
  (`timer.cc:150`, `IoManager.cc:255`).
- `~IOManager` frees the contexts although threads may not have been joined
  (`IoManager.cc:65`).
- A fiber that registers an event after `cancelALL` and before `close_f` of the same
  descriptor is stranded (`hook.cc:352`); an accept worker of two threads, as in
  `tests/test_tcp_server.cc:23`, can do so in `stop()`. Its registration stays in the
  FdContext, which belongs to the number: a later `connect` that gets the number and
  finds `addEvent` failing reports success for an attempt that still goes on
  (`hook.cc:270-275`), and a fiber that adds the same event there meets the assertion of
  `IoManager.cc:105-110`; the model leaves the latter out. A late `cancelEvent` of a connect timer
  names a number that may have a new owner (`hook.cc:256`).
- A chunk size of eight hexadecimal digits or more may not fit the int `content_len`:
  it can come out negative or zero, and the chunk is taken for the last
  (`httpclient_parser.rl.cc:163-165`). The test for a full buffer (`http_session.cc:34`) is never true before the header has ended.
- `send` has no timeout, so a client that reads nothing holds its fiber and descriptor
  (`fd_manager.cc:16`). SIGPIPE is ignored nowhere, so a write to a client that is gone
  may end the process; the model takes it for a failed write.
- On EMFILE `startAccept` loops without a yield (`Tcp_server.cc:80-90`); with a single
  thread for accept and handlers, as in `tests/test_http_server.cc:58`, no handler can
  then end.
- `ioctl(FIONBIO)` with 0 makes a descriptor blocking under `do_io` (`hook.cc:459`).
- `writeStringF16` truncates the length of a string of 2^16 bytes or more
  (`bytearray.cc:160`); `IsItem` leaves such strings out.
- `setDefault` writes `m_default` without the lock (`servlet.h:205`).
- `read(buf, size, position)` starts at the node of the present position
  (`bytearray.cc:380`).
- `Config::LookUp` of an existing name replaces the variable (`config.h:358-377`);
  `fromString` returns false in every case; the sets of allowed characters lack the
  9; names are tested before they are made lower case (`config.cc:13`, `43`).
- Between `clearAppends` and `addAppender` of a reconfiguration, messages of a logger
  go to the root logger (`log.cc:660`).

## Not modelled

- Fiber stacks, identifiers and object lifetimes; the destructors.
- The growth of `m_fdContexts`, the tickle pipe, failures of `epoll_ctl` on a
  descriptor that is open.
- The socket options of `hook.cc` beyond the receive timeout; calls without a hook;
  `fcntl` beyond F_SETFL. Only handlers and connecting fibers change the mode of their
  descriptors, nothing in the repository changes a listening socket's.
- A second `stop()` of a TcpServer before the callback of the first has run.
- In the request parser the targets with addresses in brackets (states 47 to 172
  and their copies), in `http.*` the websocket flag and the parameter parsing, which
  does nothing in the code.
- A request's body is not compared with `http.request.max_body_size`, in the code
  as in the model.
- A user who schedules a fiber that is already queued or waiting.
- The guards of `thread.h`: no code unlocks a read or write guard by hand; the
  double unlock of `ScopedLockImpl` in `Scheduler::start` is listed as a hazard.
- `Config::LookUp` while documents are loaded: all variables are registered by
  static initialisers. The conversions between texts and containers: a document of the
  model holds converted values (`MCConfigLog` chooses them), or says that the text cannot
  be converted. What the conversion of "logs" drops or fills in (`log.cc:539-600`) is
  left out.
- `Logger::setFormatter` with a pointer: `FormattersFollow` is about the string overload
  and the listener. Patterns with letters outside items, a lone `}` or an unclosed brace:
  `PatternExact` is about the others. `networkAddress`; IPv4 prefix 0 and IPv6 prefix
  128, for which `MasksExact` makes the exceptions: the code shifts by the whole width
  and writes one byte behind the address.
- Message texts, files and time formats of the loggers.
- `getaddrinfo`, `getifaddrs`, Unix addresses; the utilities; the compiler-detection
  sources that CMake has left in the repository.

## Plan

1. Done: `Scheduler`, `TimerManager` with `AbstractTimers`, `IOManager`, `HookIo`;
   proofs for `Scheduler` and `HookIo`.
2. Done: `FdManager` and `TcpServer` with `connect_with_timeout`; the HTTP modules;
   `ByteArray` and `Address`; `ConfigLog` and `Log`.
3. Done: proofs for `TimerManager` with its refinement, `IOManager`, `TcpServer` with
   `FdManager`, `ServletDispatch` and `ByteArray`.
4. Done: `ListenersFollow` and `FormattersFollow` of `ConfigLog`, after the recursive
   scanner of patterns had left `Log`; the invariants of `ParserWalk`; the codecs and
   masks of `Conversions`.
