------------------------------ MODULE IOEvents ------------------------------
(***************************************************************************)
(* The event table of class IOManager: the table of FdContexts, the calls  *)
(* addEvent(), delEvent(), cancelEvent() and cancelAll() made by any       *)
(* thread, and the part of idle() that takes reports from epoll and        *)
(* schedules the waiters.  The kernel's epoll instance, edge-triggered, is *)
(* modelled from how the code uses it.                                     *)
(*                                                                         *)
(* Everything between the lock of an FdContext and its release is one      *)
(* step.  What is not under that lock is a step of its own: addEvent()'s   *)
(* look at the size of the table, its resize of the table, and epoll_wait, *)
(* whose reports a poller handles one by one, later.  The other operations *)
(* look up the FdContext under the table's lock and give it up before they *)
(* take the context's; they are one step here.  A context is never freed,  *)
(* so unless the table shrinks, a look-up finds the same one a step later, *)
(* and one that finds nothing is the whole call.                           *)
(***************************************************************************)
EXTENDS Integers, FiniteSets

CONSTANTS
  Pollers,     \* the threads that run idle()
  Callers,     \* the threads that call the operations
  Fds,         \* the file descriptors, small integers as in the kernel
  Kinds,       \* the events that are registered, a subset of READ and WRITE
  Waiters,     \* the callbacks and coroutines that wait, each registered once
  Operations,  \* the operations that callers use besides addEvent()
  ReadOnly,    \* the descriptors that are only ever registered for READ
  Removable,   \* the descriptors that delEvent() and cancelEvent() are used on
  Hangups,     \* the descriptors whose peer may hang up
  Refused,     \* the descriptors that epoll_ctl() refuses
  FirstSize,   \* contextResize(32) in the constructor
  MaxContexts, \* bound: how many FdContexts are made for one descriptor
  NoWaiter     \* an empty EventContext

AllKinds == {"READ", "WRITE"}

ASSUME FdsAssumption ==
  /\ Fds \subseteq Nat /\ FirstSize \in Nat
  /\ Kinds \subseteq AllKinds
  /\ Operations \subseteq {"delEvent", "cancelEvent", "cancelAll"}
  /\ Hangups \subseteq Fds /\ Refused \subseteq Fds /\ Removable \subseteq Fds
  /\ NoWaiter \notin Waiters
  /\ MaxContexts \in Nat \ {0}

VARIABLES
  size,      \* m_fdContexts.size()
  made,      \* how many FdContexts were made for each descriptor
  events,    \* FdContext::events, the registered events, of each FdContext
  waiter,    \* the fiber or cb of each EventContext
  pending,   \* m_pendingEventCount
  call,      \* the addEvent() that each caller is in
  reports,   \* what each poller has got from epoll_wait() and not handled
  interest,  \* kernel: the events epoll watches; {}: not in the epoll set
  target,    \* kernel: which FdContext of the descriptor data.ptr points to
  ready,     \* kernel: the events that would not block
  hungUp,    \* kernel: the descriptors whose peer has hung up
  edge,      \* kernel: the descriptors on epoll's ready list
  aborted,   \* the SERVER_ASSERT or the access that has ended the program
  scheduled, \* history: how often each waiter was given to its scheduler
  dropped    \* history: the waiters that delEvent() has removed

tableVars  == <<size, made>>
kernelVars == <<interest, target, ready, hungUp, edge>>
vars == <<tableVars, events, waiter, pending, call, reports, kernelVars,
          aborted, scheduled, dropped>>

(* An FdContext, by its descriptor and number.  Shrinking the table loses  *)
(* the pointer to a context, growing it again makes another one.           *)
Contexts == Fds \X (1..MaxContexts)
Context(fd) == <<fd, made[fd]>>

(* The events that are registered for a descriptor.                        *)
KindsOf(fd) == IF fd \in ReadOnly THEN Kinds \cap {"READ"} ELSE Kinds

NoCall == [step |-> "none"]

Running == aborted = "no"

Init ==
  /\ size = FirstSize
  /\ made = [fd \in Fds |-> IF fd < FirstSize THEN 1 ELSE 0]
  /\ events = [x \in Contexts |-> {}]
  /\ waiter = [x \in Contexts |-> [e \in AllKinds |-> NoWaiter]]
  /\ pending = 0
  /\ call = [c \in Callers |-> NoCall]
  /\ reports = [p \in Pollers |-> {}]
  /\ interest = [fd \in Fds |-> {}]
  /\ target = [fd \in Fds |-> 1]
  /\ ready = [fd \in Fds |-> {}]
  /\ hungUp = {}
  /\ edge = {}
  /\ aborted = "no"
  /\ scheduled = [w \in Waiters |-> 0]
  /\ dropped = {}

-----------------------------------------------------------------------------
(* The kernel.                                                             *)

(* epoll_ctl() with MOD or DEL needs the descriptor in the set, ADD needs  *)
(* it out of the set.                                                      *)
CtlSucceeds(op, fd) ==
  /\ fd \notin Refused
  /\ (op = "ADD") <=> (interest[fd] = {})

(* What epoll_wait() would report now.                                     *)
Reportable(fd, watched) ==
  (watched \cap ready[fd]) \cup (IF fd \in hungUp THEN {"HUP"} ELSE {})

(* The effect of epoll_ctl(): ADD and MOD put a descriptor that is ready   *)
(* on the ready list.                                                      *)
Watch(fd, x, watched) ==
  /\ interest' = [interest EXCEPT ![fd] = watched]
  /\ target' = [target EXCEPT ![fd] = x[2]]
  /\ edge' = IF watched # {} /\ Reportable(fd, watched) # {}
             THEN edge \cup {fd} ELSE edge \ {fd}
  /\ UNCHANGED <<ready, hungUp>>

(* Data or room arrives: an edge for whoever watches.                      *)
BecomeReady(fd, e) ==
  /\ Running
  /\ e \notin ready[fd]
  /\ ready' = [ready EXCEPT ![fd] = @ \cup {e}]
  /\ edge' = IF e \in interest[fd] THEN edge \cup {fd} ELSE edge
  /\ UNCHANGED <<tableVars, events, waiter, pending, call, reports, interest, target,
                 hungUp, aborted, scheduled, dropped>>

(* The waiter that was scheduled reads or writes until it would block.     *)
Consume(fd, e) ==
  /\ Running
  /\ e \in ready[fd]
  /\ \A x \in Contexts : x[1] = fd => e \notin events[x]
  /\ ready' = [ready EXCEPT ![fd] = @ \ {e}]
  /\ UNCHANGED <<tableVars, events, waiter, pending, call, reports, interest, target,
                 hungUp, edge, aborted, scheduled, dropped>>

HangUp(fd) ==
  /\ Running
  /\ fd \in Hangups \ hungUp
  /\ hungUp' = hungUp \cup {fd}
  /\ edge' = IF interest[fd] # {} THEN edge \cup {fd} ELSE edge
  /\ UNCHANGED <<tableVars, events, waiter, pending, call, reports, interest, target,
                 ready, aborted, scheduled, dropped>>

-----------------------------------------------------------------------------
(* FdContext::triggerEvent() for each event of es, in the order READ,      *)
(* WRITE: the waiter goes to its scheduler and the EventContext is         *)
(* emptied.  The first event that is not registered aborts the program.    *)
(* Mutant: the waiter is scheduled by copy and stays where it was.         *)
Trigger_ByCopy(x, es) ==
  /\ events' = [events EXCEPT ![x] = @ \ es]
  /\ UNCHANGED waiter
  /\ scheduled' = [w \in Waiters |->
       scheduled[w] + Cardinality({e \in es : waiter[x][e] = w})]

Trigger(x, es) ==
  /\ events' = [events EXCEPT ![x] = @ \ es]
  /\ waiter' = [waiter EXCEPT ![x] = [e \in AllKinds |-> IF e \in es THEN NoWaiter ELSE @[e]]]
  /\ scheduled' = [w \in Waiters |->
       scheduled[w] + Cardinality({e \in es : waiter[x][e] = w})]

Abort(what) ==
  /\ aborted' = what
  /\ UNCHANGED <<tableVars, events, waiter, pending, call, reports, kernelVars, scheduled, dropped>>

-----------------------------------------------------------------------------
(* addEvent().                                                             *)

Unused(w) ==
  /\ scheduled[w] = 0 /\ w \notin dropped
  /\ \A x \in Contexts, e \in AllKinds : waiter[x][e] # w
  /\ \A c \in Callers : call[c].step # "none" => call[c].w # w

(* Mutant: addEvent() does not ask whether the table is large enough.      *)
AddLook_NoSizeCheck(c, fd, e, w) ==
  /\ Running
  /\ call[c] = NoCall
  /\ Unused(w)
  /\ call' = [call EXCEPT ![c] =
       [step |-> "register", fd |-> fd, e |-> e, w |-> w, x |-> Context(fd)]]
  /\ UNCHANGED <<tableVars, events, waiter, pending, reports, kernelVars, aborted, scheduled, dropped>>

(* The read lock: is the table large enough?  A caller adds an event only  *)
(* when it is not registered and nobody else is adding it: addEvent()      *)
(* asserts that.                                                           *)
AddLook(c, fd, e, w) ==
  /\ Running
  /\ call[c] = NoCall
  /\ Unused(w)
  /\ \A x \in Contexts : x[1] = fd => e \notin events[x]
  /\ \A d \in Callers : call[d].step # "none" => <<call[d].fd, call[d].e>> # <<fd, e>>
  /\ call' = [call EXCEPT ![c] =
       [step |-> IF size > fd THEN "register" ELSE "resize",
        fd |-> fd, e |-> e, w |-> w, x |-> Context(fd)]]
  /\ UNCHANGED <<tableVars, events, waiter, pending, reports, kernelVars, aborted, scheduled, dropped>>

(* Mutant: contextResize() replaces the contexts it finds.                 *)
AddResize_MakesAll(c) ==
  /\ Running
  /\ call[c].step = "resize"
  /\ LET fd == call[c].fd
         new == (fd * 3) \div 2
     IN  /\ \A f \in Fds : f < new => made[f] < MaxContexts
         /\ size' = new
         /\ made' = [f \in Fds |-> IF f < new THEN made[f] + 1 ELSE made[f]]
         /\ call' = [call EXCEPT ![c] =
                   [step |-> "register", fd |-> fd, e |-> @.e, w |-> @.w, x |-> <<fd, made'[fd]>>]]
  /\ UNCHANGED <<events, waiter, pending, reports, kernelVars, aborted, scheduled, dropped>>

(* The write lock: contextResize(fd * 1.5), to whatever size that is.      *)
AddResize(c) ==
  /\ Running
  /\ call[c].step = "resize"
  /\ LET fd == call[c].fd
         new == (fd * 3) \div 2
     IN  /\ \A f \in Fds : size <= f /\ f < new => made[f] < MaxContexts
         /\ size' = new
         /\ made' = [f \in Fds |-> IF size <= f /\ f < new THEN made[f] + 1 ELSE made[f]]
         /\ IF new > fd
            THEN /\ call' = [call EXCEPT ![c] =
                   [step |-> "register", fd |-> fd, e |-> @.e, w |-> @.w, x |-> <<fd, made'[fd]>>]]
                 /\ UNCHANGED aborted
            ELSE aborted' = "out of bounds" /\ UNCHANGED call
  /\ UNCHANGED <<events, waiter, pending, reports, kernelVars, scheduled, dropped>>

(* Mutant: epoll_ctl() is passed the new event alone.                      *)
AddRegister_WatchesOne(c) ==
  /\ Running
  /\ call[c].step = "register"
  /\ LET fd == call[c].fd
         e == call[c].e
         x == call[c].x
     IN  /\ Watch(fd, x, {e})
         /\ pending' = pending + 1
         /\ events' = [events EXCEPT ![x] = @ \cup {e}]
         /\ waiter' = [waiter EXCEPT ![x][e] = call[c].w]
  /\ call' = [call EXCEPT ![c] = NoCall]
  /\ UNCHANGED <<tableVars, reports, aborted, scheduled, dropped>>

(* Under the lock of the FdContext.                                        *)
AddRegister(c) ==
  /\ Running
  /\ call[c].step = "register"
  /\ LET fd == call[c].fd
         e == call[c].e
         x == call[c].x
         op == IF events[x] = {} THEN "ADD" ELSE "MOD"
     IN IF CtlSucceeds(op, fd)
        THEN /\ Watch(fd, x, events[x] \cup {e})
             /\ pending' = pending + 1
             /\ events' = [events EXCEPT ![x] = @ \cup {e}]
             /\ waiter' = [waiter EXCEPT ![x][e] = call[c].w]
        ELSE UNCHANGED <<kernelVars, pending, events, waiter>>
  /\ call' = [call EXCEPT ![c] = NoCall]
  /\ UNCHANGED <<tableVars, reports, aborted, scheduled, dropped>>

-----------------------------------------------------------------------------
(* delEvent(), cancelEvent(), cancelAll() on an FdContext of the table.    *)

InTable(fd) == fd < size

(* What epoll is told when only the events "left" remain.                  *)
CtlFor(left) == IF left = {} THEN "DEL" ELSE "MOD"

(* delEvent() tests fd_ctx->events | event, which is never zero: it goes   *)
(* on whether the event is registered or not.                              *)
DelEvent(c, fd, e) ==
  /\ Running
  /\ "delEvent" \in Operations /\ call[c] = NoCall
  /\ InTable(fd)
  /\ LET x == Context(fd)
         left == events[x] \ {e}
     IN  /\ CtlSucceeds(CtlFor(left), fd)
         /\ Watch(fd, x, left)
         /\ pending' = pending - 1
         /\ events' = [events EXCEPT ![x] = left]
         /\ waiter' = [waiter EXCEPT ![x][e] = NoWaiter]
         /\ dropped' = dropped \cup ({waiter[x][e]} \ {NoWaiter})
  /\ UNCHANGED <<tableVars, call, reports, aborted, scheduled>>

(* Mutant: cancelEvent() leaves the event counted as pending.              *)
CancelEvent_NotCounted(c, fd, e) ==
  /\ Running
  /\ "cancelEvent" \in Operations /\ call[c] = NoCall
  /\ InTable(fd)
  /\ LET x == Context(fd)
     IN  /\ e \in events[x]
         /\ CtlSucceeds(CtlFor(events[x] \ {e}), fd)
         /\ Watch(fd, x, events[x] \ {e})
         /\ Trigger(x, {e})
  /\ UNCHANGED <<tableVars, pending, call, reports, aborted, dropped>>

(* cancelEvent() ends with the assertion that nothing is registered any    *)
(* more.                                                                   *)
CancelEvent(c, fd, e) ==
  /\ Running
  /\ "cancelEvent" \in Operations /\ call[c] = NoCall
  /\ InTable(fd)
  /\ LET x == Context(fd)
         left == events[x] \ {e}
     IN  /\ e \in events[x]
         /\ CtlSucceeds(CtlFor(left), fd)
         /\ Watch(fd, x, left)
         /\ Trigger(x, {e})
         /\ aborted' = IF left = {} THEN "no" ELSE "cancelEvent"
  /\ pending' = pending - 1
  /\ UNCHANGED <<tableVars, call, reports, dropped>>

(* cancelAll() lets fd = size through: the element behind the last one.    *)
CancelAll(c, fd) ==
  /\ Running
  /\ "cancelAll" \in Operations /\ call[c] = NoCall
  /\ IF fd = size
     THEN Abort("out of bounds")
     ELSE LET x == Context(fd)
          IN  /\ InTable(fd)
              /\ events[x] # {}
              /\ CtlSucceeds("DEL", fd)
              /\ Watch(fd, x, {})
              /\ Trigger(x, events[x])
              /\ pending' = pending - Cardinality(events[x])
              /\ UNCHANGED <<tableVars, call, reports, aborted, dropped>>

-----------------------------------------------------------------------------
(* idle().                                                                 *)

(* epoll_wait(): up to 64 descriptors, each with all that is ready; an     *)
(* edge is reported once.                                                  *)
Poll(p) ==
  /\ Running
  /\ reports[p] = {}
  /\ LET found == {fd \in edge : Reportable(fd, interest[fd]) # {}}
     IN  /\ edge # {}
         /\ reports' = [reports EXCEPT ![p] =
              {[x |-> <<fd, target[fd]>>, mask |-> Reportable(fd, interest[fd])] : fd \in found}]
         /\ edge' = {}
  /\ UNCHANGED <<tableVars, events, waiter, pending, call, interest, target, ready, hungUp,
                 aborted, scheduled, dropped>>

(* EPOLLERR and EPOLLHUP stand for both events, registered or not.         *)
RealEvents(mask) == IF "HUP" \in mask THEN AllKinds ELSE mask

(* A report is handled under the lock of its FdContext.                    *)
Matches(r) == events[r.x] \cap RealEvents(r.mask) # {}
Left(r) == events[r.x] \ RealEvents(r.mask)
CanDeliver(r) == Matches(r) /\ CtlSucceeds(CtlFor(Left(r)), r.x[1])

(* Mutant: a report that is out of date ends the loop over the reports.    *)
Skip_Breaks(p, r) ==
  /\ Running
  /\ r \in reports[p] /\ ~CanDeliver(r)
  /\ reports' = [reports EXCEPT ![p] = {}]
  /\ UNCHANGED <<tableVars, events, waiter, pending, call, kernelVars, aborted, scheduled, dropped>>

(* Nothing that it names is registered any more, or epoll_ctl() fails.     *)
Skip(p, r) ==
  /\ Running
  /\ r \in reports[p] /\ ~CanDeliver(r)
  /\ reports' = [reports EXCEPT ![p] = @ \ {r}]
  /\ UNCHANGED <<tableVars, events, waiter, pending, call, kernelVars, aborted, scheduled, dropped>>

(* Every event that it names is triggered; one that is not registered      *)
(* aborts the program.                                                     *)
Deliver(p, r) ==
  /\ Running
  /\ r \in reports[p] /\ CanDeliver(r)
  /\ IF RealEvents(r.mask) \subseteq events[r.x]
     THEN /\ reports' = [reports EXCEPT ![p] = @ \ {r}]
          /\ Watch(r.x[1], r.x, Left(r))
          /\ Trigger(r.x, RealEvents(r.mask))
          /\ pending' = pending - Cardinality(RealEvents(r.mask))
          /\ UNCHANGED <<tableVars, call, aborted, dropped>>
     ELSE Abort("triggerEvent")

-----------------------------------------------------------------------------
Call(c) ==
  \/ \E fd \in Fds, w \in Waiters : \E e \in KindsOf(fd) : AddLook(c, fd, e, w)
  \/ AddResize(c) \/ AddRegister(c)
  \/ \E fd \in Removable : \E e \in KindsOf(fd) : DelEvent(c, fd, e) \/ CancelEvent(c, fd, e)
  \/ \E fd \in Fds : CancelAll(c, fd)

Handle(p) == \E r \in reports[p] : Skip(p, r) \/ Deliver(p, r)

Kernel ==
  \/ \E fd \in Fds : \E e \in KindsOf(fd) : BecomeReady(fd, e) \/ Consume(fd, e)
  \/ \E fd \in Fds : HangUp(fd)

(* A program that has aborted does nothing more.                           *)
Aborted == ~Running /\ UNCHANGED vars

Next ==
  \/ \E c \in Callers : Call(c)
  \/ \E p \in Pollers : Poll(p) \/ Handle(p)
  \/ Kernel
  \/ Aborted

Spec == Init /\ [][Next]_vars

(* A poller always comes back to epoll_wait() and handles what it got.     *)
FairSpec ==
  /\ Spec
  /\ \A p \in Pollers : WF_vars(Poll(p) \/ Handle(p))

-----------------------------------------------------------------------------
(* What must hold.                                                         *)

(* Every variable has its type; the table never has a context twice.       *)
Calls ==
  {NoCall}
  \cup [step : {"resize"}, fd : Fds, e : Kinds, w : Waiters, x : Fds \X (0..MaxContexts)]
  \cup [step : {"register"}, fd : Fds, e : Kinds, w : Waiters, x : Contexts]
TypeOK ==
  /\ size \in Nat
  /\ made \in [Fds -> 0..MaxContexts]
  /\ events \in [Contexts -> SUBSET Kinds]
  /\ waiter \in [Contexts -> [AllKinds -> Waiters \cup {NoWaiter}]]
  /\ pending \in Int
  /\ call \in [Callers -> Calls]
  /\ reports \in [Pollers -> SUBSET [x : Contexts, mask : SUBSET (Kinds \cup {"HUP"})]]
  /\ interest \in [Fds -> SUBSET Kinds]
  /\ target \in [Fds -> 1..MaxContexts]
  /\ ready \in [Fds -> SUBSET Kinds]
  /\ hungUp \subseteq Fds /\ edge \subseteq Fds
  /\ aborted \in {"no", "out of bounds", "cancelEvent", "triggerEvent"}
  /\ scheduled \in [Waiters -> Nat]
  /\ dropped \subseteq Waiters

Registered == {r \in Contexts \X AllKinds : r[2] \in events[r[1]]}

(* m_pendingEventCount is the number of registered events: stopped() waits *)
(* for exactly those.                                                      *)
PendingExact == Running => pending = Cardinality(Registered)

(* stopped() does not let the threads go while an event is registered.     *)
NoneLeftBehind == Running /\ pending = 0 => Registered = {}

(* A waiter is registered, or has been scheduled once, or was removed by   *)
(* delEvent(), and only one of the three, whoever handles a report that is *)
(* out of date.                                                            *)
WaiterOnce ==
  \A w \in Waiters :
    Cardinality({r \in Contexts \X AllKinds : waiter[r[1]][r[2]] = w})
      + scheduled[w] + (IF w \in dropped THEN 1 ELSE 0) <= 1

(* An event is registered if and only if it has a waiter and epoll watches *)
(* its descriptor for it on behalf of this context.                        *)
RegisteredIsWatched ==
  \A x \in Contexts, e \in AllKinds :
    /\ e \in events[x] <=> waiter[x][e] # NoWaiter
    /\ e \in events[x] <=> e \in interest[x[1]] /\ target[x[1]] = x[2]

(* A registered event can be found again: its context is the one that the  *)
(* table has for the descriptor, so that delEvent() and the cancelling     *)
(* calls reach it, whoever has resized the table since, and none of them   *)
(* looks beyond the end of the table.                                      *)
RegisteredInTable ==
  /\ \A x \in Contexts : events[x] # {} => InTable(x[1]) /\ x = Context(x[1])
  /\ aborted # "out of bounds"

(* The assertion of triggerEvent() holds for every report.                 *)
TriggerAssertHolds == aborted # "triggerEvent"

(* An event whose descriptor is ready gets its waiter scheduled, unless it *)
(* is removed: no edge is lost between the threads that poll, those that   *)
(* register and those that cancel.                                         *)
ReadyFires ==
  \A fd \in Fds, e \in Kinds, w \in Waiters :
    (\E x \in Contexts : x[1] = fd /\ waiter[x][e] = w /\ e \in ready[fd])
      ~> (scheduled[w] > 0 \/ w \in dropped \/ ~Running)
=============================================================================
