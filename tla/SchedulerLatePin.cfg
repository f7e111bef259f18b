\* Two threads; a job submits another one for a given thread while stop() waits.
SPECIFICATION FairSpec
CONSTANTS
  w1 = w1
  w2 = w2
  main = main
  a = a
  b = b
  c = c
  Workers = {w1, w2}
  Caller = main
  UseCaller = FALSE
  Callbacks = {a, b}
  Coroutines = {}
  Holders = {}
  Wakers = {}
  OwnerPins = {AnyThread}
  TaskPins = {w1, AnyThread}
  MaxYields = 1
  MaxQueue = 2
  AnyThread = AnyThread
  NoJob = NoJob
PROPERTIES StopReturns
