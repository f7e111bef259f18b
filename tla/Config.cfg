\* A thread that loads documents and one that sets an argument they name.
SPECIFICATION FairSpec
CONSTANTS
  t1 = t1
  t2 = t2
  port = port
  logs = logs
  int = int
  set = set
  v1 = v1
  v2 = v2
  one = one
  two = two
  also = also
  junk = junk
  Threads = {t1, t2}
  Names = {port, logs}
  Declared <- MCDeclared
  Converts <- MCConverts
  Setters <- MCSetters
  Documents <- MCDocuments
  Loaders = {t1}
  Throwing = {port}
  MaxCalls = 2
  MaxListeners = 2
  NoArg = NoArg
INVARIANTS TypeOK OldIsCurrent ListenersFollow LoadApplies
PROPERTIES CallsReturn
\* The program may end.
CHECK_DEADLOCK FALSE
