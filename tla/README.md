# A TLA+ model of libgo

libgo runs stackful coroutines on a set of threads. This directory models the parts of it in which
threads, coroutines, timers and the kernel race each other, checks them with TLC on small
instances, and proves the most important facts with TLAPS for every instance. All paths are below
`src/libgo/`. `PROJECT.json` names, for every definition that models code, the lines it stands for.

## The parts of the system

| Part | Code | Modules |
|---|---|---|
| Processer: a thread and its coroutines | `scheduler/processer.cpp`, `task/task.cpp` | `Processer`, proofs in `ProcesserLoopProofs`, `ProcesserProofs` |
| Queues with stealing | `common/ts_queue.h` | `TSQueue`, `TSQueueLemmas` |
| Scheduler and dispatcher thread | `scheduler/scheduler.cpp` | `Dispatcher` (`Stop` in `Processer`) |
| Mutex | `sync/co_mutex.cpp` | `CoMutex`, abstract lock `Mutex`, proofs in `CoMutexProofs` |
| Read-write mutex | `sync/co_rwmutex.cpp` | `CoRWMutex` |
| Condition variable and its wait queue | `sync/co_condition_variable.h`, `sync/wait_queue.h` | `CondVar`, abstract `FifoCv` |
| Channel and its two implementations | `sync/channel.h`, `sync/locked_channel_impl.h`, `sync/ringbuffer.h`, `sync/cas_channel_impl.h` | `LockedChannel`, `RingBuffer`, `CASChannel`, composed in `Channel` |
| Timer wheels | `common/timer.h` | `Timer` |
| Hooked system calls and epoll reactor | `netio/unix/` | `Reactor` |
| Connection pool, coroutine pool | `pool/` | `ConnectionPool`, `AsyncCoroutinePool`, composed in `Pools` |

The scheduler owns the processers. A coroutine suspends itself (`Processer::Suspend`) and is made
runnable by `Processer::Wakeup`, which every other part uses: the condition variable (and through it
the mutexes and channels), the reactor and the timers. The dispatcher moves coroutines between
processers. The pools are built from channels.

Each module keeps the names of the code. A model of a user (say `CoRWMutex`, which uses a condition
variable) contains what the used part does as far as its user can tell, at the grain at which it can
tell it: the steps of `CondVar` are one atomic step of `LockedChannel`, which holds its lock while it
notifies. An action is a stretch of code between two points at which another thread can interfere: an
atomic operation, a lock's critical section, or a system call.

## Modules

**TSQueue** has the queue operations as operators on sequences, `check_` marks included in the user.

**Processer**. `queue` holds the four lists of a processer (new, runnable, waiting, finished), the one it
holds inside `AddNewTasks` and the dispatcher's two, `pc` where a thread is in `Process()`, `runningTask`/`nextTask` its fields, `entries`
the `SuspendEntry` copies that clients still hold. Actions are the steps of `Process()`
(`TakeFront` .. `EraseDone`), of a coroutine (`CoYield`, `SuspendBegin`, `SuspendEnd`, `RunReturns`), of
`AddTask`, `Wakeup`, `Steal`, `AddTask(SList)` and `Stop`. Suspend ids are counted modulo `IdMod`, and
a coroutine suspends only with an id no client still has an entry of (2^64 ids in the code). A suspension
uses one id and its wakeup the next, so with `IdMod` 4 entries of two suspensions of a coroutine are told apart.

**Dispatcher** takes over where `Processer` has a nondeterministic thief: the rounds of
`DispatcherThread()` with their local state in `d` (loads read in the round, blocked and active
processers, stolen lists), `AddTask`'s choice of a processer, waiting and notified processers, time
(`CycleTimeout`) that makes a marked coroutine count as blocking. The loads are stale when they are used, as
in the code. A stuck coroutine is one that never gives its thread back.

**CoMutex** has one action per atomic step of `lock`, `try_lock` and `unlock`. Its clients are coroutines: only a
notification resumes one that waits without a timeout. Native threads are left out (see Findings), and so is the
sweep of a long wait queue, which `CondVar` has. **Mutex** is a lock that is handed to those who asked.

**CoRWMutex** has the two condition variables' queues with dead entries, waits that end without a
notification (native threads), and the `notify_one` such a waiter sends when it leaves.

**CondVar** is at the grain of single atomic operations: `suspendFlags`, `noTimeoutLock`, the entry of the
coroutine, the timer, the native thread's condition variable, the sweep of the wait queue. `swept` records the
waiters that the sweep has dropped because `isValid()` misjudges them.
**FifoCv** serves waiters in order, once each.

**Channel** chooses the implementation as the constructor does and states what both promise.
**LockedChannel**: a call is one of `Pushes` or `Pops`; each either returns or queues and
waits. The functor of a notification runs as part of the notifier's step. **RingBuffer** keeps `read_`
and `write_` as words that wrap (`Word`, a power of two), with placement construction and destruction of slots.
Where capacity + 1 does not divide the word the slots behind the counters jump at the wrap; `torn` records it.
**CASChannel** has no lock: its steps are the accesses to `wait_` (the numbers of readers and writers that
wait or are about to), to `closed_`, and the critical sections of the two wait queues. `wq` is both the
buffer and the queue of writers; `pos` is the wait queue's `pos_`, the first writer that has to wait.
Taking an entry off and notifying it is one step: without deadlines a notification of a coroutine
succeeds and touches only the entry, as `CondVar` shows.

**Timer**: `Levels` wheels of `Base` slots (8 of 256 in the code), the point, elements with reference
counts, threads that start timers in the steps of `Dispatch(Element*)`, the thread that runs `RunOnce`,
and a thread that stops it (`StopTimer` is left out). `Tick` is the clock.

**Reactor**: descriptors (numbers) and files are different things: closing and `dup2` give a number another
file and another `FdContext`; a file that gets a number again gets a new context and may inherit an
old registration. `reg` and `edge` are the kernel's (interest, ready list), `event`, `entries` the context's,
`call` the hooked call a coroutine is in. The hooked functions are operators that say which `poll` they
make (`ReadCall`, `ConnectCall`, `SelectCall`, ...).

**ConnectionPool** and **AsyncCoroutinePool** have the steps of `Get`, `Reserve`, `CreateOne`, `Put` and
`Delete`, and of `Post`, `Go`, `AddCallbackPoint` (several calls at once) and `CallbackPoint::Run`. Histories record
what the code lets happen: `nulls`, how often a null connection was deleted, and `overtook`, that one
`AddCallbackPoint` published the slot of another. **Pools** composes the two: a worker's task takes a
connection, uses it and gives it back.

## Runs

All instances are small sets of named threads, coroutines, values. `CHECK_DEADLOCK FALSE` is set where
the system may stop: every call of the scenario has returned, nobody creates work, the bounded clock is at its end.

| Run | What it checks | Instance |
|---|---|---|
| `processer_steal` | A coroutine is in exactly one list, runs once, is not lost or stolen while it runs or is next; a suspend entry is valid exactly while its coroutine waits; no wakeup is lost | 2 processers, 2 coroutines that suspend twice in all (both once, or one twice), wakers on a native thread and on a processer, thief that takes one coroutine at a time from one processer to the other |
| `processer_live` | Variables stay in their ranges; `Stop` ends every thread; a queued coroutine runs | 1 processer, 2 coroutines that also wake each other, spurious wakeups |
| `dispatcher` | Conservation, bound on active processers, every coroutine runs unless overlooked (below) | minThreads 1 and 2, maxThreads 2, 3 coroutines, one stuck, one that sleeps and is added late |
| `dispatcher_blocked` | violation, see Findings | same |
| `comutex` | Mutual exclusion, refinement of `Mutex` with its liveness | 5 coroutines |
| `comutex_try` | violation, see Findings | 3 coroutines with `try_lock` |
| `rwmutex` | Exclusion, every call returns | 2 coroutines, 2 native threads, both priorities |
| `condvar` | One outcome per wait, values only to waiters that are there, reachable sleepers, values for those who answer `no_timeout`, FIFO refinement, calls end | 2 coroutines, 1 native thread, 2 notifiers, four scenarios: untimed, timed, and a sweep with a timed coroutine and with a native thread |
| `channel` | Ring slots, FIFO, truthful results, no one stranded, at most once, waits end | `LockedChannelImpl`: 3 pushes, 3 pops, capacities 0, 1, 2, with and without deadlines, words of 3 bits, counters from 0 and from two steps before the wrap (capacity 2 tears there), `Close`; `CASChannelImpl`: capacities 0 and 1, 2 pushes and 2 pops (one of them `TryPop`), or `Push`, `TryPush` and `Pop`, `Close` |
| `timer` | One call each and exact reference counts, all fire, neither early nor late but in the cases below | 3 wheels of 3 slots, 2 timers, clock to 40 |
| `reactor` | Interest covers waiters, closed contexts are empty, untimed calls return events, ready descriptors wake | 2 numbers, 2 files, 2 coroutines, four scenarios |
| `pools` | Count exact and within the limit but for deletes of null, one owner, one run per callback, on a stored point unless it was overtaken, `Get` returns, callbacks run | 3 workers, up to 3 jobs and points, seven scenarios |

Why these bounds are enough for the cases that matter: two contenders and a third that arrives during
their exchange occur in every run; the ring counters wrap; a timer moves down all
three wheels and carries occur between them; a coroutine suspends again, after a steal too, while a client uses the entry of its first suspension; pools are at, below and above their limits
(one, two, three clients on one connection); a descriptor number is reused while a call waits on it. The runs were seen to reach the cases that properties
exempt: a swept native thread and coroutine, a torn ring, an inherited registration, `count_` below zero, a
worker on an empty slot.
They do not show that larger instances are right; that is what the proofs do where there are any.

### Fairness

Threads are scheduled (weak fairness of each thread's steps); a coroutine reaches its next switch; whoever
holds a lock or a connection gives it back; the owner of a callback point calls `Run`; timers fire and time
passes. Strong fairness is used where a step is enabled again and again but not throughout:
`Leave` in `Processer` (a coroutine that makes wakeups ends them), `WaitReturn` in
`CondVar` (a mutex that is free again and again is obtained), `Tick` in `Timer` (the thread sleeps
between rounds, and time passes then), and `Wake`/`RunTask` in `Dispatcher` (the dispatcher sleeps
between its rounds long enough for a processer to take a task; without it two processers could
exchange a coroutine for ever and never run it). A call
on a channel that is past its first step goes on, also in the spin loops of `CASChannelImpl`, which yield
the thread. Nobody is forced to create work, to close, or to steal.

## Findings

* `comutex_try`: `try_lock()` overlapping `unlock()` leaves `notified_` set on a free lock, and two clients get in.
* `dispatcher_blocked`: only active processers are marked, so a coroutine that gets stuck on an inactive one
  is not detected and those behind it are not stolen, which `scheduler.h:99` promises. `EveryTaskRuns` exempts
  coroutines behind such a one (`Overlooked`), also when they are there for a moment only.

Met while modelling, modelled as the code does them or excluded explicitly, and not runs of their own:

* `lock()` returns whenever `cv_.wait` does (`co_mutex.cpp:27`). The wait of a native thread is a
  `std::condition_variable` wait without a predicate (`co_condition_variable.h:353-361`) that may end unnotified: the thread
  then has the lock beside its holder. `CoMutex` and its theorems are about coroutines only.
* A waiter that timed out calls `notify_one()` to clear *its* entry (`co_condition_variable.h:358`), but that pops the
  head: another waiter may be woken without cause, and answers `no_timeout` without a value. `AnsweredAreServed`
  allows one such waiter per timeout; `LockedChannel` calls the wakeup `phantom`.
* A `TimedPop` whose timer fires just before a notification returns true without a value
  (`co_condition_variable.h:105`). `TrueIsReal` is therefore about calls without deadlines, and `AnsweredAreServed` leaves
  timed coroutines out.
* When the wait queue has reached its check size, `isValid()` lets the sweep unlink a native thread that sleeps
  (`notified` is never locked, `co_condition_variable.h:370`) and a coroutine that has set `suspend_begin` and has not
  stored its entry: nobody will notify it. `SleeperReachable` exempts the waiters this happened to (`swept`).
* At the wrap of the ring's counters the slots jump unless capacity + 1 divides 2^64 (`ringbuffer.h:34`): values are
  then read from the wrong slots. `SlotsMatch`, `Fifo`, `TrueIsReal` and `AtMostOnce` claim what a buffer holds
  until the first wrap of such a ring (`torn`); sizes stay right.
* `CASChannelImpl::Close()` wakes readers but leaves them counted in `wait_`. A `Push` with a buffer that has
  passed its test of `closed_` by then looks for a reader for ever (`cas_channel_impl.h:82`); `WaitsEnd` exempts a
  `Push` that never leaves that loop (`Spins`). Its `Close()` also throws the buffered values away. A call with a
  deadline that times out wakes another one of its side, which returns true without a value and stays counted too;
  the model has no deadlines there. `ConditionVariableAnyT::size()` returns `bool`, so `Size()` is at most 1.
* A timer that is linked while a sweep visits slots, or for which the point moves between the check under the slot's lock and
  the linking, may be called early, or a turn of its ring late (`raced`), and a sweep that passes more than a
  turn of ring 0 calls timers of ring 1 and above without looking at their deadlines.
  `NotEarly` and `NotLate` exempt exactly these; `AllFire` holds for them too.
* `Timer::Stop()` waits for a notification that may already have been sent (`timer.h:236`).
* A call that looked up an `FdContext` before a close and adds its entry after it is left waiting (`late` in
  `Reactor`). A replaced context may change the registration of the number's new file, and a new context may
  find a registration that epoll still has of the same file and number, of which its `event_` knows nothing
  (`crossed`). The properties exempt exactly the entries and registrations so marked.
* A `Get` that waits is not woken by `Delete` or a failed factory, though a connection could then be made
  (`connection_pool.h:62`); `GetReturns` and `CallbacksRun` are about scenarios without either. `maxConnection` 0 means
  none, not unlimited (`connection_pool.h:21`). `Reserve` ignores its argument.
* A `Get` woken without a value (see above) asks `checkAliveOnGet` about null and, told no, deletes it
  (`connection_pool.h:84`, `:122`): `count_` falls below the number of connections, so that more than `maxConnection` are made,
  and it may wrap below zero, after which none is. `CountExact` counts these deletes (`nulls`).
* `AddCallbackPoint` is documented as thread-safe (`async_coroutine_pool.h:62`), but its `compare_exchange_weak` overwrites
  `writeIdx` when it fails (`async_coroutine_pool.cpp:67`), so that of two calls the one that stored first may publish the
  slot of the other, and a worker reads a pointer that is not there yet. `CallbackOnce` says that this is the only way
  to do so (`overtook`); `CallbacksRun` says nothing of the job of such a worker.

## Proofs

TLAPS checks them from the assumptions in the modules (`CoMutexAssumption`: the clients are a finite set;
`ProcesserAssumption`: the constants' types).

* `CoMutexProofs`: for any finite number of coroutines that call `lock` and `unlock`, mutual exclusion, a
  truthful `is_lock`, the range of `sem_`, and that every step is a step of `Mutex`. None of these is inductive:
  that `sem_` has become 1 says nothing of who is inside. The inductive invariant `IInv` adds that `sem_` counts the
  contenders, that at most one coroutine owns the right to enter (`OneGrant`: it is inside, handed over, or being
  given away), that `notified_` is that right left for a contender that is not queued yet, that a slow `unlock` has a
  taker, and that whoever is queued waits.
* `ProcesserProofs`, with `ProcesserLoopProofs` and `TSQueueLemmas`: `Spec => []TInv` for any processers,
  coroutines, native threads and steal sizes. `TInv` is `TypeOK` and what makes it inductive, which is what the
  code relies on without testing: `runningTask_` is a task wherever it is dereferenced (`LocalInv`), a coroutine
  that runs or whose entry somebody has knows its processer (`EntryProc`), `Wakeup` has a task and a processer
  (`WakeupTarget`), and `Steal` never asks the runnable queue for a negative number (`StealShort`).

Only model-checked: all liveness and both refinements' liveness, everything about the other modules, and the
other invariants of `Processer` (that a coroutine is in one place needs facts about sequences without repetitions
for every list, which is a proof of its own).

## Not modelled

* Windows: `netio/windows`, about half of all lines, most of them a machine-code patcher with instruction
  tables (`xhook`); no concurrent state of its own. The kqueue reactor, the FreeBSD form of the modelled one.
* Non-blocking mode of descriptors (`fcntl`, `ioctl`, `NonBlockingGuard`), socket options, name
  resolution, the hooked `epoll_wait`, several reactor threads; results of `select` are not converted back.
* `CASChannelImpl` with deadlines (see above; nothing in libgo or its tests gives `choose1`, which is 0 by
  default), `LockFreeRingQueue` (used nowhere), `CoTimer`, `StopTimer` and `NextTrigger` of `Timer`.
* Context switching and stacks, debugging and listeners, coroutine-local storage, `defer`, macros, options,
  error tables: data, output or machine code, without interleavings to explore.
* Memory-order effects weaker than sequential consistency: each atomic operation is one step.
