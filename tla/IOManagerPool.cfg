\* A worker and the owner's thread, which sleep in epoll when idle; a callback
\* that an event schedules, and a coroutine that yields or holds and that the
\* owner may pin to its own thread.
SPECIFICATION IOFairSpec
CONSTANTS
  w1 = w1
  w2 = w2
  main = main
  a = a
  b = b
  c = c
  Workers = {w1}
  Caller = main
  UseCaller = TRUE
  Callbacks = {a}
  Coroutines = {c}
  Holders = {c}
  Wakers = {}
  OwnerPins = {main, AnyThread}
  TaskPins = {AnyThread}
  MaxYields = 1
  MaxQueue = 2
  AnyThread = AnyThread
  NoJob = NoJob
  EventJobs = {a}
  Pipe = Pipe
INVARIANTS IOTypeOK NoOrphanedEvent NothingLeft
PROPERTIES EveryJobRuns EventRuns StopEnds
