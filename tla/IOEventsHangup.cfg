\* The peer of a descriptor that waits for READ hangs up.
SPECIFICATION Spec
CONSTANTS
  p1 = p1
  p2 = p2
  c1 = c1
  c2 = c2
  v = v
  w = w
  Pollers = {p1}
  Callers = {c1}
  Fds = {0}
  Kinds = {"READ"}
  Waiters = {v}
  Operations = {}
  Hangups = {0}
  ReadOnly = {}
  Removable = {0}
  Refused = {}
  FirstSize = 1
  MaxContexts = 2
  NoWaiter = NoWaiter
INVARIANTS TriggerAssertHolds
