\* The owner's thread alone, and jobs that hold, wake one another, and schedule
\* themselves before they hold: the queue gets entries of coroutines that are
\* over, or recycled, when they come up.
SPECIFICATION Spec
CONSTANTS
  w1 = w1
  w2 = w2
  main = main
  a = a
  b = b
  c = c
  Workers = {}
  Caller = main
  UseCaller = TRUE
  Callbacks = {a, b}
  Coroutines = {c}
  Holders = {a, c}
  Wakers = {a, b, c}
  OwnerPins = {AnyThread}
  TaskPins = {AnyThread}
  MaxYields = 2
  MaxQueue = 3
  AnyThread = AnyThread
  NoJob = NoJob
INVARIANTS AssertsHold ActiveCountExact QueueDrained
