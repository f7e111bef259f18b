\* Two threads and the owner's, two jobs, each of which may yield twice, submit
\* the other and end or throw; the owner pins jobs to its own thread or to a
\* worker.
SPECIFICATION FairSpec
CONSTANTS
  w1 = w1
  w2 = w2
  main = main
  a = a
  b = b
  c = c
  Workers = {w1, w2}
  Caller = main
  UseCaller = TRUE
  Callbacks = {a}
  Coroutines = {c}
  Holders = {}
  Wakers = {}
  OwnerPins = {w1, main, AnyThread}
  TaskPins = {AnyThread}
  MaxYields = 2
  MaxQueue = 2
  AnyThread = AnyThread
  NoJob = NoJob
INVARIANTS TypeOK OneThreadPerFiber NoOrphanedTask NoJobLost
PROPERTIES ImplementsTaskPool StopReturns
