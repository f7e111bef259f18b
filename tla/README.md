# Server Framework: a verification development

TLA+ models of the coroutine-based server framework in `src/`, the TLC
configurations that check them on small instances, and TLAPS proofs about the
scheduler, IOManager and its event table, the configuration, the loggers, and programs
with threads, locks and a log file, for every number of threads, jobs, events, arguments,
listeners and loggers. Paths below are relative to
`src/source/` unless they say otherwise.

## The system

| Component | State it keeps | Operations |
|---|---|---|
| Fiber (`fiber.*`) | `m_state` (INIT, HOLD, EXEC, TERM, READY, EXCEPT), `m_cb`, a saved context | `swapIn`, `swapOut`, `call`, `back`, `reset`, `yieldToReady`, `yieldToHold`, `mainFunc` |
| Scheduler (`scheduler.*`) | the queue `m_fibers`, `m_activeThreadCount`, `m_autoStop`, `m_isRunning`, the threads; per thread in `run()`: the entry in hand, the coroutine kept for callbacks, the idle coroutine | `start`, `schedule`, `stop`, `run`, `idle`, `stopped`, `notify` |
| IOManager (`iomanager.*`), a Scheduler | the table `m_fdContexts`, per descriptor the registered events and their waiters, `m_pendingEventCount`, an epoll instance and a pipe | `addEvent`, `delEvent`, `cancelEvent`, `cancelAll`, `notify`, `stopped`, `idle` |
| Thread (`thread.*`) | the pthread, a semaphore for its start | constructor, `run`, `join`, destructor |
| Locks (`mutex.*`) | pthread mutex, read-write lock, spin lock, semaphore | scoped locks with explicit `unlock` |
| Config (`config.*`) | the registry of named, typed values; per value the listeners | `lookUp`, `setValue`, `fromString`, listeners, `loadFromYaml`, `Visit` |
| Log (`log.*`) | loggers, their appenders, formatters and levels | `log`, appender and formatter calls, `getLogger`, the `logs` listener, the pattern parser |
| Util, Singleton, macros | none of interest | thread id, backtrace, assertions |

How they interact. `Scheduler::start()` creates Threads whose function is
`run()`; with `useCaller` the owner runs `run()` too, in a coroutine, inside
`stop()`. A thread takes an entry of the queue under `m_mutex`, switches to a
coroutine with `Fiber::swapIn()` and settles its state when it switches back.
Jobs call `schedule()`, yield, return or throw. IOManager overrides `idle()`:
an idle thread waits in epoll and schedules the waiters of the events it gets;
`addEvent()` registers the calling coroutine or a callback as a waiter. Config
values notify listeners; Log registers one, and everything logs.

What is hard in it:

* `Fiber::m_state` is read and written by several threads, some of the time
  without a lock, and it is written before the context it speaks of is saved.
* Each thread decides by itself, from the queue and the counter, that the pool
  is stopped, while other threads still put work back.
* A report from epoll is handled some time after it was taken, when the event
  may have been delivered, cancelled, deleted or registered again by others,
  and the table of contexts may have been resized.
* epoll is edge-triggered: an edge that is lost is lost for good.
* Idle threads sleep in epoll; a byte in a pipe wakes one of them, if it is
  written at all, and IOManager's `stopped()` reads the queue and the count of
  pending events at two moments.
* `FileLogAppender::log()` decides without the lock, by a time that other threads set,
  whether to reopen the file; `Logger::log()` keeps a spinlock while it writes, by
  the root as well, and a new configuration takes loggers apart meanwhile.
* A Thread object is used by the thread it stands for and destroyed by its owner.
* `ConfigArg::setValue()` takes the read lock to compare and to call the
  listeners, and the write lock to assign; listeners may throw in between.

What makes each component correct:

* Fiber and Scheduler: one thread per coroutine; no job lost, duplicated or
  left in the queue with nobody to take it; the count of active threads exact;
  the assertions of `swapIn()` and `reset()` never fail; `stop()` returns, and
  only when all is done; a job runs on the thread it names.
* IOManager: the count of pending events exact; a waiter scheduled at most once,
  and scheduled when its descriptor is ready; the table, the contexts and epoll
  agree; no assertion fails.
* Thread and locks: a thread works on no object that its owner has destroyed, and is
  joined or detached once; a guard unlocks what it locked, once.
* Config: listeners hear of every change, in the order of the changes, with the
  value it replaced; one argument per name; no lock held twice.
* Log: an event reaches the appenders of its logger, or those of the root
  logger, while the configuration changes; loggers are as configured; an appender
  has the formatter it should have, and a whole one; every pattern is parsed as
  documented; the file appender follows a file that is moved away.

## The modules

| Module | What it is |
|---|---|
| `Scheduler` | Fiber and Scheduler: the threads in `run()`, the owner, the jobs |
| `TaskPool` | what a pool of threads promises: jobs wait, run, are suspended, are over |
| `SchedulerRefinement` | reads the abstract state off `Scheduler`, and states that it implements `TaskPool` |
| `MCScheduler` | the values for TLC |
| `SchedulerProofs` | theorems about `Scheduler` and their proofs: types, the queue, the count |
| `ExclusionProofs` | theorems about `Scheduler` and their proofs: one thread per coroutine |
| `JobProofs` | theorems about `Scheduler` and their proofs: no job lost, the refinement of `TaskPool` |
| `IOEvents` | IOManager's event table, and epoll as the code uses it |
| `MCIOEvents` | the values for TLC |
| `IOEventsProofs` | theorems about `IOEvents` and their proofs |
| `IOManager` | the scheduler whose idle threads sleep in epoll: composes `Scheduler` with `notify()`, `stopped()` and `idle()` of IOManager |
| `MCIOManager` | the values for TLC |
| `IOManagerProofs` | theorems about `IOManager` and their proofs: what it inherits, no event orphaned |
| `Config` | the registry of arguments, `setValue()`, listeners, loading from YAML |
| `MCConfig` | the values for TLC |
| `ConfigProofs` | theorems about `Config` and their proofs |
| `LogFormat` | the parser of patterns, and the grammar it is compared with: functions only |
| `LogDefines` | the conversion of a configuration to loggers' definitions and back: functions only |
| `Log` | loggers, appenders, the manager, and the listener of the configuration; uses both |
| `MCLog` | the values for TLC, with the configuration that the repository ships |
| `LogProofs` | theorems about `Log` and their proofs |
| `Thread` | class Thread: the object, its owner, the kernel's thread |
| `Locks` | the scoped guards, and the mutexes below them |
| `LogFile` | the file appender, the clock and the file system |
| `Program` | a program with threads that log to one file or share a count: composes the three |
| `MCProgram` | the values for TLC |
| `ProgramProofs` | theorems about `Program`, with the invariants of its three parts, and their proofs |

Operators whose name has an underscore (`Take_NoErase`, ...) are mutants: what
the operator behind them would be with a plausible bug. No specification uses
them; putting one in the place of its original must break the property named
for it in `PROJECT.json`, which shows that the property can fail.

### Scheduler

State: `queue` is `m_fibers`, `active` is `m_activeThreadCount`; `pc`, `ft`,
`cbFiber` are the locals of `run()` in each thread and `idleDone` says that its
idle coroutine is TERM; `fstate` and `fjob` are `m_state` and `m_cb` of each
coroutine; `ownerPc` is where the owner is between the constructor and the
return of `stop()`. `submitted`, `ended` and `yields` are history.

A coroutine is named by its job, one that `run()` makes for a callback by the
first callback it ran. The state `NONE` is "not created yet". A coroutine that is
kept for the next callback keeps its name, so `fjob` says which job it carries.

| Actions | Code |
|---|---|
| `Start`, `OwnerSchedule`, `StopAtOnce`, `StopBegin`, `EnterRoot`, `SkipRoot`, `LeaveRoot`, `Join` | `scheduler.cpp:61-136`, `scheduler.hpp:46-57, 90-99`, and the root coroutine of `fiber.cpp:126-141, 226-256` |
| `Take`, `FindNothing` | the scan under `m_mutex`, `scheduler.cpp:156-190` |
| `SwapInFiber`, `DropFinished`, `RunCallback`, `EnterIdle`, `LeaveLoop` | the branches on the entry, `scheduler.cpp:192-246`, with `swapIn()` and `reset()` |
| `Idle` | a round of `idle()`, `scheduler.cpp:262-267` |
| `TaskSchedule`, `Wake`, `YieldReady`, `YieldHold`, `Finish`, `Throw` | what a job does: `schedule()`, `fiber.cpp:180-224` |
| `SwapOut`, `Requeue`, `Release`, `FindsHold`, `Park` | after the switch back, `scheduler.cpp:196-205, 216-226` |

The grain: a critical section of `m_mutex` is one step, as `Mutex` excludes the
others. Every access to `m_state` that another thread can get between is a step of
its own: the write in a yield, the switch, the decrement, the read after it
and the write of HOLD. `swapcontext()` and the decrement that follows it are one
step, `SwapOut`: no other thread reads the context other than by switching to it,
which is forbidden up to and including that step. `schedule()` is the push
under the lock; the base class's `notify()` only logs.

`Wake` is how a coroutine that holds comes back: someone schedules it. A job may
also schedule its own coroutine before it yields; that stands for
`addEvent()` followed by `yieldToHold()`, where the event may fire on another
thread before the yield is done.

Jobs are arbitrary within the bounds: at any point a job may submit, wake, yield,
return or throw.

### IOEvents

State: `size` and `made` are the table (`made[fd]` numbers the FdContexts that
were made for a descriptor, because a table that shrinks and grows again makes
another one), `events` and `waiter` are the FdContext's fields, `pending` is
`m_pendingEventCount`, `call` is a caller inside `addEvent()`, `reports` what a
poller has got from `epoll_wait()`. `interest`, `target`, `ready`, `hungUp` and
`edge` are the kernel: the epoll set with its `data.ptr`, the state of the
descriptors, and epoll's ready list. `aborted` is an assertion that failed or an
index out of range.

A critical section of an FdContext's mutex is one step. `delEvent()`, `cancelEvent()` and `cancelAll()` look the
context up under the table's lock and release that before they take the context's (`iomanager.cpp:152-160, 189-197,
226-234`); the model has look-up and work in one step. Contexts are never freed, and as long as the table does not shrink
a later look-up finds the same one, while one that finds nothing is the whole call, so nothing is lost by that. After
the table has shrunk a call could still work on a context that is no longer in it, which the model leaves out;
the run `io` has no table that shrinks below a descriptor in use. `addEvent()` has three:
the look at the size under the read lock (`AddLook`), the resize under the write
lock (`AddResize`), and the registration (`AddRegister`). `Poll` takes everything
on epoll's ready list; `Skip` and `Deliver` handle one report each, at any later
time. The kernel side is external: it is modelled from the flags the code passes
(`EPOLLET`, ADD, MOD, DEL), and the documented effect of those: MOD and ADD report
a descriptor that is ready already, an edge is reported once, ADD fails on a
descriptor in the set and MOD and DEL on one out of it.

What the callers promise, because `addEvent()` asserts it: an event is added only
while it is not registered and nobody else is adding it; and each waiter is
registered once.

### IOManager

`IOManager` extends `Scheduler`: the steps of `run()` and of the jobs are
`Scheduler`'s, each with what IOManager adds to it. State: `idlePc` is where a thread
is in `idle()` (and the owner in the `stopped()` that `stop()` calls), `inHand` what it
got from `epoll_wait()` and has still to handle, `notes` the calls of `notify()` it
has still to make; `registered` and `pending` are the events and their count,
`edges` epoll's ready list, in which the pipe is one element.

| Actions | Code |
|---|---|
| `IOStart`, `OwnerCalls`, `AddEvent` | `iomanager.cpp:47-70, 97-149`: the constructor starts the pool |
| `IOStop`, `RootLooks`, `IOEnterRoot`, `IOSkipRoot`, `IOJoin` | `scheduler.cpp:84-136` with IOManager's `stopped()` and one `notify()` for every thread |
| `IOScan`, `IOSwitch`, `IORequeue`, `IOTask` | `Scheduler`'s steps; those that call `schedule()` or pass over an entry owe a `notify()` |
| `Notify` | `notify()`, `iomanager.cpp:273-280` |
| `IOEnterIdle`, `CheckStopped`, `CheckPending` | `idle()` to the end of its `stopped()`, `iomanager.cpp:282-297` |
| `Poll`, `Timeout` | `epoll_wait()`, which returns reports or nothing, `iomanager.cpp:299-310` |
| `Drain`, `Deliver`, `Stale`, `Uncount` | the loop over the reports, `iomanager.cpp:312-361` |
| `BackToScan` | `swapOut()` of the idle coroutine, `iomanager.cpp:363-367` |
| `Fire` | the kernel: what an event waits for happens |

The grain: in `notify()` the look at `m_idleThreadCount` and the write of the byte are one
step; a byte that comes late only wakes a thread, which `Timeout` does at any
time. `stopped()` has its two reads, so that an event may be delivered between
them. `IOEvents` has the detail of registration and delivery; here an event is
its callback, and registering it takes a step. A coroutine that waits for an event is
not in this module: its being scheduled before its yield is complete is the
subject of `wake_race`. The owner calls `addEvent()` only when `UseCaller` holds, as
its thread has no scheduler otherwise.

### Config

State: `args` is `m_data` with the type and `m_val` of each argument, `cbs` and `funcId` are
`m_cbs` and the counter of `addListener()`, `op` is where a thread is in `setValue()`,
`todo` the nodes that `loadFromYaml()` has listed and not handled. `handles` records what a
declaration got. `mirror`, `expected` and `disturbed` are history.

| Actions | Code |
|---|---|
| `LookUp` | a declaration at static initialization, `config.hpp:404-436` |
| `AddListener`, `DelListener`, `ClearListener` | `config.hpp:366-388` |
| `SetValue`, `Compare`, `CallListener`, `ReleaseRead`, `Assign` | `setValue()`, `config.hpp:347-363`: the call, the comparison under the read lock, each listener, the end of the block, the assignment under the write lock |
| `ListenerThrows` | the same when a listener throws; `fromString()` catches it, `config.hpp:328-340` |
| `LoadFromYaml`, `LoadNode` | `config.cpp:18-61`: the list of nodes first, then one node after the other |

A document is the sequence of its nodes in pre-order; a node whose path has a character
outside the alphabet is not `valid`. `LexicalCast` is a partial function
`Converts` from a type and a text to a value: a text may not convert, and
two texts may be one value, which is then no change.

`setValue()` and `loadFromYaml()` may run in any number of threads. Declarations come
first and are made by one thread, as all are in `src/`. Listeners are added and
removed at any time but while the loop over `m_cbs` runs: the code does not
exclude that (these calls take the read lock), its callers must.

### Log

State: `known` is `m_loggers`, `logger` and `appender` have the members of each Logger and
LogAppender, `lock` and `manager` the holders of their spinlocks, `defines` the value of
the configuration argument `logs`. `calls` is what a thread has still to call: a user has one
call, before which it asks the manager for the logger if it needs one. It may give an appender to any logger that users
change, as often as it likes, take it out and give it to another; `adds` is history: how often each appender was
given to `addAppender()`. The listener is the list of calls it makes, in
the order of a `std::set<LogDefine>`. `at` is where the thread is in the first of them.

| Actions | Code |
|---|---|
| `Load`, `Listener` | `fromString()` of `logs` and the listener of `LogIniter`, `log.cpp:783-848`, with the LexicalCasts of `LogDefine` in `LogDefines` (`log.cpp:640-781`) |
| `Lookup`, `YamlBegin`, `YamlLogger` | `LoggerManager`, `log.cpp:597-622, 856-866` |
| `Macro`, `Recheck`, `Enter`, `RootCheck`, `RootEnter`, `Deliver`, `Leave` | a log statement: the macro's test, `Logger::log()`'s, the lock, appender after appender or the root |
| `SetLevelOf`, `SetFormatterOf`, `Clear`, `Del`, `AddBegin`, `AddEnd` | the operations of Logger |
| `SetOwn`, `Made` | `LogAppender::setFormatter()`, and the appender that the listener makes |

The grain: a call that keeps one lock is one step. `Logger::log()` keeps its own while it
goes from appender to appender and takes the root's inside, so it has a step for each;
`addAppender()` looks for the appender's formatter under the appender's lock, gives that up and
takes it again. Levels are read and written without a lock, and are steps of their own.

`LogFormat` has `LogFormatter::init()` from left to right, with its positions, and
the patterns of the README as a grammar; `FormatterParses` says that the parser
accepts the texts of the grammar and nothing else, with the same items. The
letters are of two kinds, those that name an item and those that name none.
`LogDefines` has a document of the configuration as a set of nodes whose fields
may be absent. The conversion goes through a node's appenders and adds one or none for each
(`ReadAppender`), like the loop in the code. `DocumentAssumption` says what the documents have:
a list where they have appenders (`HasList`), names of the loggers, and patterns of `Formats`.
`NodesAssumption` says that the value for an absent field is not the name of a level and not a list of
appenders. `LogAssumption` says that the loggers which the configuration may define and those that the
users change are different, and that `NameOrder`, the order in which the listener goes through its
`std::set`, has every name once. TLC evaluates all three in the runs.

### Thread, Locks, LogFile and Program

`Thread`: `owner` is where the program's main thread is (in no call, in a constructor, in
`join()`), `object` and `handle` the Thread object and its `m_thread`,
`semaphore` and `held` the semaphore and the callback that the object still has, `kernel` where `run()` is.
`released` and `misused` are history. `Locks`: `writer` and `readers` are the mutex, `guard` the scoped
guard of each thread with its `m_locked`, `undefined` says that a thread unlocked what it did not
have. The three classes of guards differ in what they lock; a Mutex or Spinlock is
the mutex that nobody asks to read. `LogFile`: `stream` is `m_filestream`, `lastTime` is
`m_lastTime`, `line` where each thread is in `log()` with the time of its event; `clock`, `path`,
`rotatedAt`, `openable` are the clock and the file system; `failedAt` is history.

`Program` composes them: the owner makes Threads whose callbacks do some rounds of logging to one
file, or of using one count under guards that may be unlocked and locked again by hand, which is what `mutex.hpp` provides for. `tests/test_thread.cpp` logs from
its threads, declares such a count and its locks (lines 5-7), and has the loop that uses them, without the unlocking,
commented out (lines 15-18). The count is read and written in separate steps, so that
an addition is lost if two guards let their threads in at once.

| Actions | Code |
|---|---|
| `Create`, `CreateFails`, `Created`, `Join`, `Joined`, `Destroy` | `thread.cpp:34-69` |
| `Prepare`, `Notify`, `Rename`, `Returned` | `run()` and `setName()`, `thread.cpp:26-32, 71-98` |
| `Guard`, `Lock`, `Unlock`, `Unguard` | the scoped guards, `mutex.hpp:11-100` |
| `MakeEvent`, `CheckTime`, `Reopen`, `MarkTime`, `Write` | `FileLogAppender::log()` and `reopen()`, `log.cpp:403-415, 438-451` |
| `Tick`, `Rotate`, `Refuse` | the world: time passes, the file is moved away, `open()` stops or comes to succeed |

`Reopened` has what an `std::ofstream` does: a stream that has failed is not
closed by `reopen()`, which tests the stream and not the file, and `open()` fails on a stream whose file is
open.

## The runs

| Run | Instance | Shows |
|---|---|---|
| `pool` | 2 workers and the owner, 2 jobs, 2 yields each, pins to a worker or the owner | one thread per coroutine, no orphaned entry, no job lost (`TypeOK`, `OneThreadPerFiber`, `NoOrphanedTask`, `NoJobLost`); implements `TaskPool`; `StopReturns` |
| `single` | the owner alone, 3 jobs that hold and wake | `AssertsHold`, `ActiveCountExact`, `QueueDrained` under duplicate and stale entries |
| `wake_race` | 2 workers, one coroutine that is scheduled before it yields | violates `OneThreadPerFiber` |
| `late_pin` | 2 workers, a job that submits a pinned one during `stop()` | violates `StopReturns` |
| `io` | 2 pollers, 2 callers, 3 descriptors (READ and WRITE with a hang-up; one that makes a table of one grow; one that epoll refuses) | `TypeOK`, `PendingExact`, `WaiterOnce`, `RegisteredIsWatched`, `RegisteredInTable`; `ReadyFires` |
| `io_hangup` | 1 descriptor, READ, a hang-up | violates `TriggerAssertHolds` |
| `io_delete` | READ and WRITE, `delEvent()` | violates `NoneLeftBehind` |
| `iomanager` | a worker and the owner, an event with a callback, a coroutine that yields and holds | `IOTypeOK`, `NoOrphanedEvent`, `NothingLeft`; `EveryJobRuns`, `EventRuns`, `StopEnds` |
| `config` | a thread that loads documents twice, one that sets one of their arguments twice, two names, two types, two listeners for each | `TypeOK`, `OldIsCurrent`, `ListenersFollow`, `LoadApplies`, `CallsReturn` |
| `log` | 2 users and the listener; the root, a logger that is configured, one that the users change; 2 loads out of 4 documents; patterns of up to 5 characters; definitions with up to 2 appenders | `TypeOK`, `WalkStable`, `NoEventLost`, `DefinesApplied`, `Inherits`, `NoDeadlock`, `FormatterParses`, `DefinesReload` |
| `log_config` | a user, and `bin/config/config.yaml` as it is | violates `AlwaysWritten` |
| `threads` | 2 threads, 2 rounds each, one whose making may fail and that renames itself; a clock of three seconds; one rotation, refusal or full disk | `TypeOK`, `NoUseAfterDestroy`, `CountExact`, `FollowsRotation`, `RetriesOpen`; `OwnerReturns` |

Bounds. `MaxYields` bounds the yields of a job and `MaxQueue` the queue beyond
which nobody wakes a coroutine; submissions are bounded by the number of jobs,
each of which is submitted once. Two threads are what every race here needs, the
third (the owner) makes the case where one thread leaves while two are busy.
The three jobs of `single` let a callback's coroutine be recycled while another one holds or is
queued; with three jobs, the temporal properties of `pool` take too long, and the theorems
about it hold for any number. In IOEvents every waiter is registered once, which bounds everything
else; two pollers give stale reports, `MaxContexts` = 2 lets a context be made
again once. `FirstSize` is 32 in the code; a small one makes growth happen with
small descriptors. In IOManager two threads are what one needs to be asleep while the
other leaves, or both to be asleep when `stop()` is called; one event and
one coroutine give every order of a delivery, a yield and the two reads of
`stopped()`. **A second event is more than `iomanager` covers**: if the callback of the
first yields during `stop()` and adds the second afterwards, `NoOrphanedEvent` and
`NothingLeft` fail (see Findings). The theorems of `IOManagerProofs` say for any number
of threads and events what keeps that from happening. In Config, two threads collide on one name while one of them alone
sets the other; two listeners of a type are told one after the other; `MaxCalls` = 2 lets
a second call meet what the first left. The documents of `MCConfig` name an argument
twice, have text that does not convert and a name that is not valid.

In `log` two users and the listener meet in every pair of calls; two loads go from
nothing to a definition, from one to another and back to nothing, or are
refused. One log call meets the whole of the listener, as the listener's
calls are steps of their own. Patterns of five characters have an item with
braces and a format next to a raw character or an item, and every order of %, letters and braces that the
parser tells apart; `DefinesReload` compares all nodes of the shape of `MCNodes`. In `threads`
two threads are what a lost update, a wrong unlock and two times in the wrong order
need; the clock runs for `Interval`, so that an event may be made before a rotation and
written after the next reopening, and one trouble is what one reopening answers.
The theorems hold for any number of each.

Split of the scheduler's instances. `pool` lets no job wake a
coroutine, because with two threads that breaks `OneThreadPerFiber` (`wake_race`)
and everything that rests on it; `single` has one thread, where it is harmless,
and explores what duplicate entries do. Jobs name no thread in `pool`,
because that breaks `StopReturns` (`late_pin`); the owner does, before `stop()`.

What `io` leaves out. Descriptor 0 has both events and a peer that may hang up, but
is not deleted or cancelled by itself: `cancelEvent()` fails on a descriptor with two
events (the remarks under Findings) and `delEvent()` miscounts (`io_delete`); `cancelAll()`
it meets. The two descriptors beyond the table wait for READ only, and `epoll_ctl()`
refuses one of them, as it does a regular file: its
`addEvent()` resizes the table and registers nothing. `RegisteredInTable` covers
just that: **with two such descriptors registered it does not hold**, since
`addEvent()` decides to grow under the read lock and resizes under the write lock
without a second look (`iomanager.cpp:100-107`), to a size that may be smaller
than the present one. No descriptor of `io` equals a size of the table; for
one that does `cancelAll()` reads behind the last element
(`iomanager.cpp:227`), and `RegisteredInTable` says so.

Fairness. In `Scheduler` each thread in the loop keeps running (a thread of
the operating system is scheduled; the code of a job returns, throws or yields;
a yield is bounded by `MaxYields`), and `stop()` goes on once it is called.
Nobody must call `start()`, `stop()` or `schedule()`. `m_mutex` is fair enough that
a thread that asks for it gets it. In `IOEvents` a poller comes back to
`epoll_wait()` and handles what it got, which supposes that no job keeps its thread
for ever; callers and kernel owe nothing. In `IOManager` a thread in `idle()` keeps going,
so `epoll_wait()` returns: its timeout is what this rests on, and the mutant
`Timeout_Never` shows that a job may be missed for ever without it, as `notify()`
is called for an empty queue only and the first reader of the pipe empties it. No event must
happen; `StopEnds` says that `stop()` returns if those registered do. In `Config`
a call goes on and a listener ends; the write lock is given once the readers have left,
and the bounded number of calls keeps readers from coming for ever. In `Program` the
owner, each `run()` and each callback goes on; `pthread_join()` and the semaphore are
given when their time comes, and a lock when nobody keeps it: the rounds are bounded, so no
thread is passed over for ever. The clock and the file system owe nothing. In `Log` nothing
is said about liveness: its locks are spinlocks, which promise nothing to one thread among several,
and `NoDeadlock` says that they are always given back.

## The proofs

`SchedulerProofs` and `ExclusionProofs` prove, for all finite sets of workers, any jobs, pins, holders,
wakers and bounds (the assumptions of `Scheduler`):

* `TypeCorrect`: `TypeOK` always holds. It is not inductive alone: settling the
  coroutine of a callback needs `cbFiber` not to be empty. `Typing` adds
  that a thread which is on a coroutine, or has just left one, has one.
* `ActiveExact`: `m_activeThreadCount` equals the number of busy threads. With the
  types it is inductive; `BusyStep` says how each step changes the set of busy
  threads, and the library's facts about finite sets do the counting.
* `NoOrphan`, under the assumption that jobs name no thread: every entry has a
  thread that will look at the queue again. A thread decides to leave when
  `stopped()` holds, with an empty queue; so the question is who may add an entry
  later. The strengthening `OrphanInv` says: the owner's `stop()` precedes any
  thread's leaving (`OwnerAhead`); a coroutine in EXEC is executed by a thread,
  which therefore is not leaving and will scan again (`ExecutedByThread`); and an entry
  that names a thread is the first of a coroutine nobody has met
  (`PinnedIsFirst`), so it was there before `stop()` and keeps its thread from
  leaving. Whoever adds an entry is in the loop and will scan the queue after it.
* `Drained`, from `NoOrphan`: when `stop()` has returned all threads have left, so
  no entry can be in the queue.
* `OneThread`, under the assumption that no job wakes a coroutine (`Wakers` = {}):
  no two threads are on one coroutine. Nothing in the states of `run()` says so by
  itself: it holds because a coroutine is in at most one place. `Exclusion` says
  that a coroutine has one entry in the queue or one thread (`OneThreadHasIt`,
  `OneEntry`); that a callback does, until it gets a coroutine (`CallbackOnce`), so
  the coroutine made for it is new (`NotMadeNowhere`); that a job not submitted is
  nowhere (`UnsubmittedNowhere`); and that a coroutine kept for callbacks was reset
  (`KeptIsReset`). Steps that let go of a coroutine or change its state are one
  lemma (`ExclusionForget`); taking, making and putting back have one each.
* `NoAbort`, under the same assumption: the assertions of `swapIn()` and `reset()` hold,
  from `Exclusion` and `ExecutedByThread`.
* `NoAbortAlone`: the assertions hold as well when the loop has a single thread, and there
  for any wakers. Then a coroutine may have several entries, so `Exclusion` does not hold; a stale entry may even name
  the coroutine that the thread keeps for callbacks. `KeptAlone` says that this one is empty and in INIT or EXCEPT
  whenever the thread is not on it, that running it by such an entry throws at once and leaves it in EXCEPT, and that it
  never gets to `park`, so that `reset()` always finds one of the states it accepts.

`wake_race` shows that `NoAbort` needs its assumption when there are two threads.

`JobProofs` goes on from there:

* `EveryJobPlaced`, under `Wakers` = {}: `NoJobLost`. `Exclusion` says that a
  coroutine is in at most one place; `JobInv` adds what it carries there (`FiberLife`, `StatesFit`: the
  state of a coroutine tells its job), that no two carry one job (`OneFiber`), and that nothing is
  lost: what can go on is in the queue or with a thread, and a callback is in an
  entry or in a coroutine until it is over (`FibersSomewhere`, `CallbacksSomewhere`).
* `Implements`, if moreover jobs name no thread (`TaskPins` has only `AnyThread`): every
  behaviour of `Scheduler` is one of `TaskPool`. `SchedulerRefinement` reads the status
  of each job and its threads off the scheduler's state; the proof shows for each action which
  step of the pool it is: the push is `Submit`, the entry into the coroutine `Run`, the saving of
  its context (`SwapOut`) `Leave`, the last join `Close`, and all others stutter. `Close` needs `Drained`.

`IOEventsProofs` proves, for any pollers, callers, descriptors and waiters:

* `IOEventsTypeCorrect` and `NoWaiterTwice` without a hypothesis: a waiter is with a caller that will register
  it, in one EventContext, scheduled once, or removed by `delEvent()`, and only one of these (`WaiterInv`).
* `RegisteredFound`, `WatchedExactly` and `CountedExactly` under hypotheses on the constants:
  no size that a resize leaves is too small for a descriptor in use (`RoomForAll`; with
  `contextResize(32)` in the constructor, as long as descriptors are below 48, because the table is resized to fd * 1.5
  without a look at its size); for the first, nobody calls
  `cancelAll()` with the descriptor right behind the table (`NoneBehindTable`, the `<` for
  `<=` at `iomanager.cpp:227`); for the last, `delEvent()` is used where a
  descriptor has one event (`OneKindRemoved`, the `|` at `iomanager.cpp:161`). Each excludes a
  defect named in this README, and the run `io` satisfies all three. `TableInv` says that
  an event is registered in the first context made for its
  descriptor, which the table still has; `interest` and `target`
  follow it, as they are set with it under one lock. The count is a cardinality: each operation
  adds one element to `Registered` or removes one, `cancelAll()` up to two (`CountRemove`).

`IOManagerProofs` proves, for any threads, jobs and events, of `IOSpec`:

* `IOTypeCorrect`, and `IOInherits`: `ActiveCountExact`, `OneThreadPerFiber` and `NoJobLost` hold under
  IOManager too, without a hypothesis, since nothing in this module wakes a coroutine. All steps but six are
  steps of `Scheduler` with additions (`QuietStep`), so `Scheduler`'s invariants and
  lemmas apply; the six (the two reads of `stopped()`, `stop()` without the root, a delivery) are gone through.
* `EventsAttended` and `StopLeavesNothing`: as long as no thread finds the pool stopped while
  another is between `--m_activeThreadCount` and the requeueing of a coroutine that yielded (`StoppedIsTrue`),
  a registered event has a thread that comes back to `epoll_wait()`, and `stop()` returns with every event
  delivered, every job over or on hold and every thread gone. A
  thread decides to leave in two steps, the queue and the count of active threads
  first and the pending events later, and events are delivered in between. The invariant is that there is always somebody left:
  `PendingCounted` (the pending count is that of the registered events and the deliveries not yet
  counted off), and `Attended` (whenever there is work left some thread is not on its way
  out, and whenever an event is registered some thread still has its look at the
  pending count before it). A thread that passed the first read with nothing to do cannot be the last one
  unless the second read is zero too.
* `WithoutYields`: if jobs do not yield (`MaxYields` = 0) `StoppedIsTrue` holds by itself, and both
  follow from a hypothesis about the constants alone.

`StoppedIsTrue` is a hypothesis about the behaviour because the code lacks what would make it true: the decrement and the
requeueing are not one critical section (`scheduler.cpp:196-199, 216-219`).

`ConfigProofs` proves, for any threads, arguments, types, conversions, documents and
listeners:

* `ConfigTypeCorrect`: `TypeOK` always holds. The strengthening `Typing` adds that the value
  a `setValue()` carries is of the type of its argument, and that arguments keep
  their type: that is why a value converted before the locks are taken can be
  assigned after them.
* `OldStaysCurrent`: while the listeners of a change are called, the argument has the
  value that the change replaces. It is inductive with the types, because `Assign`
  waits for the readers and a reader is whoever calls listeners.
* `ListenersHearAll`: `ListenersFollow`. `TellInv` says at every moment of a `setValue()` what a listener of an
  argument with one setter may have heard last: the value that is carried once its turn has come, the
  current one before. A listener that is added then has heard of nothing, which is why
  `IdInv` follows the ids: one is given once to a type, and only listeners of an argument are called. `CallInv` says
  that whoever is in a call on an argument, or will be by a node that is left, is one of its setters.
* `LoadsApplied`: `LoadApplies`. `LoadInv` follows the nodes that are left: if one of them sets the argument,
  the last that does leads to the expected value, otherwise the call that the thread is in or the
  value there already is (`Leads`). Its start is what `listAllMember()` returns: the last node of any kind among the
  listed ones is the last valid one of the document (`ListedAgrees`, an induction over the nodes, by `LeastNat`).

The assumptions are `DeclaredAssumption`, `CallsAssumption` (among them that there are finitely many threads, since the
setters of an argument are counted) and `DocumentsAssumption`, that documents are finite sequences.

`ProgramProofs` proves, for any threads, rounds, clock and troubles, of `Program`'s `Spec`:

* `ObjectsSafe` and `ReleasedExactlyOnce` (which no run repeats): `run()` works on no object that was destroyed, and a
  kernel's thread is released once, and none that `pthread_create()` did not make. `LifeInv` says in which of four states a thread and its object
  are together (`NotMade`, `BeingMade`, `Alive`, `Gone`): while `run()` has still to touch the object the owner
  is in its constructor, because the semaphore is given last and at most once.
* `GuardsKnow` (which no run repeats) and `NothingLost`: a guard's `m_locked` is true exactly when its thread has the mutex, and no
  addition is lost. Neither is inductive alone: `UseInv` adds what a callback has in each step (`UseOf`): between
  reading and writing the count its thread is the writer and `seen` is the count, which
  `GuardsExact` then denies to anybody else. Taking and giving back the mutex are lemmas
  (`AcquireExact`, `ReleaseExact`) for the constructor and `lock()`, the destructor and `unlock()`.
* `FollowsTheFile` and `TriesAgain`: an event made `Interval` after a rotation goes to the new file, and one made
  `Interval` after a failed `open()` meets an open one. The test and the marking of
  `m_lastTime` are outside the lock, so the question is what a late thread may set it to.
  `FileInv` says that whatever `m_lastTime` is, or is about to become, the file
  was reopened no earlier than that (`Follows`, `Retries`): a thread marks the time of its own event,
  which is older than its reopening. So `m_lastTime` may go back, which makes for one reopening
  more and never for one too few.
* `ProgramTypeCorrect`: `TypeOK`. With the above it needs `BoundsInv`: a callback in a round has not
  done all of them, and a stream that is stuck uses up one trouble for good.

`LogProofs` proves, for any threads, loggers, appenders and documents:

* `LogTypeCorrect`: `TypeOK`. It goes together with where a thread is in its call (`Coherent`) and with
  `KnownInv`: every call on a logger comes after one that asks the manager for it (`Asked`), and a logger that the manager
  knows has the root, but the root itself. That the listener's list of calls asks first needs
  `FlattenSeq`, for lists of any length (`FlattenClosed`).
* `WalkIsStable` and `EventsWritten`. `LockInv` says that where a thread is tells which locks it has (`Holds`),
  and `ListChanges` that a list of a known logger changes only in the hands of whoever has its lock, or when nobody has. So what a
  thread in `Logger::log()` has seen stays (`WalkInv`): the list it goes through, the
  emptiness of its logger while it asks the root, and of both when it gives up.
* `LocksOrdered`: `NoDeadlock`. Between two threads of which one waits for the other the order is that
  of the locks: whoever has the manager's waits for a logger's at most, whoever has a logger's for the
  root's, and whoever has the root's for nobody (`HolderWaits`); so there is no circle (`NoCircle`).
* `FormattersPassedOn`: `Inherits`, for every appender that was given to `addAppender()` once (`adds`), while others are given again
  and again. The restriction is the code's: one that is given again keeps what it inherited the first time
  (see Findings). `Inherits` is not inductive alone, since a `setFormatter()` may come
  between the two accesses of `addAppender()`. `PlaceInv` says that
  an appender that was never given is in no logger and has no inherited formatter, and one that was given once
  is in one logger or with one thread that is about to add it (`InOne`, `AddedBy`). `OwnerInv` says that a thread about to add such a one
  has seen it without a formatter or with its own, and that an appender which the listener makes is given only once;
  so `DefinitionsApplied` can use `Inherits` for every appender of the configuration.
* `DefinitionsApplied`: `DefinesApplied`. When the listener has nothing more to call, every logger is as the configuration says. The
  strengthening `ListenerInv` says of each definition that what it asks for is there or still to come: the level and the formatter are
  the defined ones, or a call that sets them is in the list, and no other (`LevelDue`, `FormatterDue`); the appenders of the logger are the
  first ones of the definition, the calls that add the others are in the list in order and next to each other, and no `clearAppenders()` comes
  after the first of them (`AppendersDue`). A logger that is no longer defined is the case of a definition without appenders.
  `FreshInv` is for a logger that a definition makes, `SpareInv` says that no appender of a user gets into a logger of the
  configuration, `PushDue` is for the step between the two accesses of `addAppender()`. A load starts with the
  whole list, joined from one list for each name; that the calls for one logger are then next to each other is `FlattenWithin`:
  the lists of the other names leave the logger alone (`Clean`).
* `DefinitionsReload`: `DefinesReload`, for nodes with lists of any length. What is written of an appender is usable and is read as the
  same one (`AppenderReload`), so the list that is read joins lists of one element each (`FlattenSingles`).

Only model-checked: liveness (`EveryJobRuns`, `StopReturns`, `ReadyFires`, `EventRuns`,
`StopEnds`, `CallsReturn`, `OwnerReturns`), since fairness is beyond the prover; and
`FormatterParses`, which compares the parser with a grammar for all patterns of bounded length and would need an induction over
both. Induction over data cannot be cited as a theorem of the
library, whose induction theorems have an operator as a parameter; where a proof needs one step of it (`LeastNat`,
`FlatExists`, `FlattenClosed`, `FlattenSingles` and `FlattenWithin` in `LogProofs`, `OutputExists` and `ListedAgrees` in `ConfigProofs`) it goes through the least counterexample, by `WFMin` and
`NatLessThanWellFounded`, which have none.

## Findings

The runs that end in a violation are disagreements between the code and what the
repository says of it; `PROJECT.json` quotes both sides. In short: a coroutine can
be run by two threads when it is scheduled before its yield has saved its context
(`wake_race`); a
job pinned to a worker that has left keeps `stop()` from returning (`late_pin`); a
hang-up triggers events that are not registered (`io_hangup`); `delEvent()` tests with `|` and
uncounts an event that is registered (`io_delete`); the configuration file that the
repository ships names appenders by a key that is not read, and with it loaded nothing is
logged any more (`log_config`).

One more has a configuration of its own, `LogReadd.cfg` for `MCLog`, and is not among the runs of
`PROJECT.json`. The comments at `log.cpp:271` and `303` say that an appender without a formatter of its own is given its logger's
(`AlwaysInherits`). `addAppender()` tests the pointer `getFormatter()` and not `m_hasFormatter` (`log.cpp:305`), so an
appender that comes back keeps the formatter that it inherited the first time. TLC finds the steps with one user and four calls: `addAppender(a)`,
`delAppender(a)` or `clearAppenders()`, `setFormatter(f)`, `addAppender(a)`. Giving the appender to another
logger does the same. `Inherits`, which the run `log` checks and `FormattersPassedOn` proves, is about
appenders that were added once.

The window of `late_pin`, between the decrement and the requeueing of a coroutine that yielded, has a second effect
that no run repeats: in `IOManager` with two workers, two event callbacks a and b, a coroutine and one
yield for each, TLC finds 36 steps after which `stop()` has returned with an event registered. During `stop()` a yields; the last other
thread reads the queue (empty), the count of active threads (a is counted off already) and the pending events (a's
is delivered) and leaves; a is requeued and resumed, calls `addEvent()` for b, and its thread, which
had found the pool stopped as well, leaves. `scheduler.hpp:79` and `iomanager.hpp:73` say of
`stopped()` that it holds when all tasks are executed. `EventsAttended` and
`StopLeavesNothing` show that this window is the only way to it.

Beside those: a formatter that `LogAppender::setFormatter()` sets between the two accesses of `addAppender()` (`log.cpp:305-308`)
is overwritten by the logger's while `m_hasFormatter` says that it is the appender's own, and no later `Logger::setFormatter()`
changes it; the model has the step, and `Inherits`, which is about appenders without one of their own, says nothing of it. `cancelEvent()` asserts that no event is left after it has removed one of two
(`iomanager.cpp:221`), which one call on one thread shows, so no run searches for it; a write to the log file that
fails leaves the stream failed with its file open, and `reopen()`, which is to close and
open it (`log.hpp:275`), then never succeeds (`Stuck` in `LogFile`); `reopen()` returns true when it failed, and nobody looks (`log.cpp:410`); the level of an appender in a configuration
(`README.md:130` of the repository) is never read; a doubled % is printed and read again (`log.cpp:485`); the comment at `iomanager.hpp:61` ("-1 error, 0 retry, 1 success") is not
what `addEvent()` returns (0 on success, `iomanager.cpp:96, 148`); a coroutine submitted
for a thread (`scheduler.hpp:45`) is put back without it when it yields
(`scheduler.cpp:199`); and the example `"A.B", 10` at `config.cpp:15-18`, like the `tolower` in
`loadFromYaml()`, has upper-case letters in a name, which `listAllMember()` rejects before
the conversion to lower case (`config.cpp:22`).

## Not modelled

The iterator overload of `schedule()` (it cannot be instantiated), a second `start()` or
`stop()`, `stop()` called by a job, coroutines outside a scheduler, the release of the
contexts in `~IOManager()`; logging, names and ids of threads; memory: a coroutine on
hold that nobody wakes is never freed. A full pipe, at which `notify()` would block; what only
reads the configuration (`getValue`, `toString`, `getListener`, `Visit`); a listener that sets a value; a
`lookUp()` beside other threads.

Of Log: `storeLogger()`, which nothing calls and which takes no lock; a `setFormatter(nullptr)`; what the items of
a pattern print and the text that `toYamlString()` makes. Of Thread: a `sem_wait()`
or `pthread_join()` that fails (the program installs no handler for signals). Of the locks: NullMutex and
NullRWMutex, which exclude nobody, and the assignments `Lock` of NullMutex and CASLock, which
cannot be instantiated as written. Util, Singleton and `main.cpp` have no state of
their own.

## Plan

Done: Fiber and Scheduler, TaskPool, IOEvents, IOManager, Config, Log with its parser, Thread, the guards
and the file appender; proofs about all of them. What is left: abstract specifications of a
register whose changes are heard in order, which `Config` implements for arguments that one thread sets, and of an
event table whose events are delivered once, which `IOEvents` implements.
