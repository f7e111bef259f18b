\* Two threads and one coroutine that schedules itself before it yields.
SPECIFICATION Spec
CONSTANTS
  w1 = w1
  w2 = w2
  main = main
  a = a
  b = b
  c = c
  Workers = {w1, w2}
  Caller = main
  UseCaller = FALSE
  Callbacks = {}
  Coroutines = {c}
  Holders = {c}
  Wakers = {c}
  OwnerPins = {AnyThread}
  TaskPins = {AnyThread}
  MaxYields = 1
  MaxQueue = 2
  AnyThread = AnyThread
  NoJob = NoJob
INVARIANTS OneThreadPerFiber
