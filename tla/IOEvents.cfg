\* Two pollers and two callers on three descriptors: one that waits for READ
\* and WRITE, with a peer that may hang up; one that needs the table to grow;
\* one that epoll_ctl() refuses.
SPECIFICATION FairSpec
CONSTANTS
  p1 = p1
  p2 = p2
  c1 = c1
  c2 = c2
  v = v
  w = w
  Pollers = {p1, p2}
  Callers = {c1, c2}
  Fds = {0, 2, 4}
  Kinds = {"READ", "WRITE"}
  Waiters = {v, w}
  Operations = {"delEvent", "cancelEvent", "cancelAll"}
  Hangups = {0}
  ReadOnly = {2, 4}
  Removable = {2, 4}
  Refused = {4}
  FirstSize = 1
  MaxContexts = 2
  NoWaiter = NoWaiter
INVARIANTS TypeOK PendingExact WaiterOnce RegisteredIsWatched RegisteredInTable
PROPERTIES ReadyFires
