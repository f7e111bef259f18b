\* READ is registered and WRITE is deleted.
SPECIFICATION Spec
CONSTANTS
  p1 = p1
  p2 = p2
  c1 = c1
  c2 = c2
  v = v
  w = w
  Pollers = {p1}
  Callers = {c1}
  Fds = {0}
  Kinds = {"READ", "WRITE"}
  Waiters = {v, w}
  Operations = {"delEvent"}
  Hangups = {}
  ReadOnly = {}
  Removable = {0}
  Refused = {}
  FirstSize = 1
  MaxContexts = 2
  NoWaiter = NoWaiter
INVARIANTS NoneLeftBehind
