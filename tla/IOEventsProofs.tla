--------------------------- MODULE IOEventsProofs ---------------------------
(***************************************************************************)
(* The table of events, for every number of pollers, callers, descriptors  *)
(* and waiters.                                                            *)
(***************************************************************************)
EXTENDS IOEvents, FiniteSetTheorems, TLAPS

(* addEvent() resizes the table to one and a half times its descriptor     *)
(* without a look at the size it finds: two callers may shrink it.  What   *)
(* follows holds when no size that a resize leaves is too small for a      *)
(* descriptor that is registered; with contextResize(32) in the            *)
(* constructor, as long as the descriptors are below 48.                   *)
RoomForAll ==
  \A g \in Fds : g >= FirstSize =>
    g > 1 /\ \A f \in Fds \ Refused : f < (g * 3) \div 2

(* Nobody calls cancelAll() with the descriptor just behind the table.     *)
NoneBehindTable ==
  "cancelAll" \in Operations =>
    /\ FirstSize \notin Fds
    /\ \A g \in Fds : g >= FirstSize => (g * 3) \div 2 \notin Fds

(* delEvent() is used where one event at most is registered: it counts one *)
(* down whether the event it is given is registered or not.                *)
OneKindRemoved ==
  "delEvent" \in Operations =>
    \A fd \in Removable : \A e, f \in KindsOf(fd) : e = f

-----------------------------------------------------------------------------
(* The parts of the inductive invariants.                                  *)

(* A descriptor of the table has a context.                                *)
MadeInTable == \A fd \in Fds : InTable(fd) => made[fd] > 0
TypeInv == TypeOK /\ MadeInTable

(* The table has had one size, and then one that a resize left; it never   *)
(* loses a context that is or will be registered.                          *)
SizeKnown ==
  /\ size >= FirstSize
  /\ size = FirstSize \/ \E g \in Fds : g >= FirstSize /\ size = (g * 3) \div 2
CallKnown(c) ==
  /\ call[c].step = "resize" => call[c].fd >= FirstSize
  /\ call[c].step = "register" /\ call[c].fd \notin Refused =>
       InTable(call[c].fd) /\ call[c].x = <<call[c].fd, 1>>
InPlace(x) ==
  events[x] # {} => x[1] \notin Refused /\ InTable(x[1]) /\ x[2] = 1
TableInv ==
  /\ SizeKnown
  /\ \A fd \in Fds \ Refused : made[fd] = IF InTable(fd) THEN 1 ELSE 0
  /\ \A c \in Callers : CallKnown(c)
  /\ \A x \in Contexts : InPlace(x)
InBounds == aborted # "out of bounds"

(* A waiter is in one place: with a caller that will register it, in one   *)
(* EventContext, scheduled, or dropped.                                    *)
Free(w) == scheduled[w] = 0 /\ w \notin dropped
With(c, w) == call[c].step # "none" /\ call[c].w = w
WaiterInv ==
  \A w \in Waiters :
    /\ scheduled[w] <= 1 /\ (w \in dropped => scheduled[w] = 0)
    /\ \A x \in Contexts, e \in AllKinds : waiter[x][e] = w =>
         /\ Free(w)
         /\ \A y \in Contexts, f \in AllKinds : waiter[y][f] = w => x = y /\ e = f
    /\ \A c \in Callers : With(c, w) =>
         /\ Free(w)
         /\ \A d \in Callers : With(d, w) => c = d
         /\ \A x \in Contexts, e \in AllKinds : waiter[x][e] # w

(* What is counted: a caller is about to register an event that is not     *)
(* registered, and no other caller is.                                     *)
Adding(c) == call[c].step # "none"
Distinct(c) ==
  Adding(c) =>
    /\ call[c].e \in KindsOf(call[c].fd)
    /\ \A x \in Contexts : x[1] = call[c].fd => call[c].e \notin events[x]
    /\ \A d \in Callers : d # c /\ Adding(d) =>
         <<call[d].fd, call[d].e>> # <<call[c].fd, call[c].e>>
CountInv ==
  /\ IsFiniteSet(Registered)
  /\ Running => pending = Cardinality(Registered)
  /\ \A x \in Contexts : events[x] \subseteq KindsOf(x[1])
  /\ \A c \in Callers : Distinct(c)

-----------------------------------------------------------------------------
(* Types.                                                                  *)

(* A call in progress, by its fields.                                      *)
LEMMA CallFields ==
  ASSUME NEW k \in Calls
  PROVE  \/ k = NoCall /\ k.step = "none"
         \/ /\ k.step \in {"resize", "register"}
            /\ k.fd \in Fds /\ k.e \in Kinds /\ k.w \in Waiters
            /\ k.x \in Fds \X (0..MaxContexts)
            /\ k.step = "register" => k.x \in Contexts
<1>1. NoCall.step = "none"
  BY DEF NoCall
<1>2. \A x : x \in Contexts => x \in Fds \X (0..MaxContexts)
  BY FdsAssumption DEF Contexts
<1> QED
  BY <1>1, <1>2 DEF Calls

LEMMA MadeCall ==
  ASSUME NEW fd \in Fds, NEW e \in Kinds, NEW w \in Waiters
  PROVE  /\ \A x \in Fds \X (0..MaxContexts) :
              [step |-> "resize", fd |-> fd, e |-> e, w |-> w, x |-> x] \in Calls
         /\ \A x \in Contexts :
              [step |-> "register", fd |-> fd, e |-> e, w |-> w, x |-> x] \in Calls
  BY DEF Calls

(* The context that the table has for a descriptor.                        *)
LEMMA ContextType ==
  ASSUME TypeInv, NEW fd \in Fds
  PROVE  /\ Context(fd) \in Fds \X (0..MaxContexts)
         /\ InTable(fd) => Context(fd) \in Contexts
         /\ Context(fd)[1] = fd /\ Context(fd)[2] = made[fd]
<1>1. made[fd] \in 0..MaxContexts /\ (InTable(fd) => made[fd] > 0)
  BY DEF TypeInv, TypeOK, MadeInTable
<1> QED
  BY <1>1, FdsAssumption DEF Context, Contexts

(* What epoll_ctl() does keeps the kernel's types.                         *)
LEMMA WatchTypes ==
  ASSUME TypeOK, NEW fd \in Fds, NEW x \in Contexts,
         NEW watched \in SUBSET Kinds, Watch(fd, x, watched)
  PROVE  /\ interest' \in [Fds -> SUBSET Kinds]
         /\ target' \in [Fds -> 1..MaxContexts]
         /\ edge' \subseteq Fds
         /\ UNCHANGED <<ready, hungUp>>
<1>1. x[2] \in 1..MaxContexts
  BY DEF Contexts
<1> QED
  BY <1>1 DEF Watch, TypeOK

LEMMA KindsFinite == IsFiniteSet(AllKinds) /\ Cardinality(AllKinds) = 2
<1>1. IsFiniteSet({"READ"}) /\ Cardinality({"READ"}) = 1
  BY FS_Singleton
<1>2. /\ IsFiniteSet({"READ"} \cup {"WRITE"})
      /\ Cardinality({"READ"} \cup {"WRITE"}) = 2
  BY <1>1, FS_AddElement
<1>3. AllKinds = {"READ"} \cup {"WRITE"}
  BY DEF AllKinds
<1> QED
  BY <1>2, <1>3

(* And triggerEvent() those of the waiters.                                *)
LEMMA TriggerTypes ==
  ASSUME TypeOK, NEW x \in Contexts, NEW es \in SUBSET AllKinds, Trigger(x, es)
  PROVE  /\ events' \in [Contexts -> SUBSET Kinds]
         /\ waiter' \in [Contexts -> [AllKinds -> Waiters \cup {NoWaiter}]]
         /\ scheduled' \in [Waiters -> Nat]
<1>1. events' \in [Contexts -> SUBSET Kinds]
  BY DEF Trigger, TypeOK
<1>2. waiter' \in [Contexts -> [AllKinds -> Waiters \cup {NoWaiter}]]
  BY DEF Trigger, TypeOK
<1>3. ASSUME NEW w \in Waiters
      PROVE  Cardinality({e \in es : waiter[x][e] = w}) \in Nat
  <2>1. IsFiniteSet(AllKinds)
    BY KindsFinite
  <2>2. {e \in es : waiter[x][e] = w} \subseteq AllKinds
    OBVIOUS
  <2> QED
    BY <2>1, <2>2, FS_Subset, FS_CardinalityType
<1>4. scheduled' \in [Waiters -> Nat]
  <2> DEFINE n(w) == Cardinality({e \in es : waiter[x][e] = w})
  <2>1. scheduled' = [w \in Waiters |-> scheduled[w] + n(w)]
    BY DEF Trigger
  <2>2. \A w \in Waiters : n(w) \in Nat /\ scheduled[w] \in Nat
    BY <1>3 DEF TypeOK
  <2> HIDE DEF n
  <2> QED
    BY <2>1, <2>2
<1> QED
  BY <1>1, <1>2, <1>4

(* What contextResize() makes of a descriptor.                             *)
LEMMA Growth ==
  ASSUME NEW n \in Nat
  PROVE  /\ (n * 3) \div 2 \in Nat
         /\ n > 1 => (n * 3) \div 2 > n
  OBVIOUS

LEMMA TypingInit == Init => TypeInv
<1> SUFFICES ASSUME Init PROVE TypeInv
  OBVIOUS
<1>1. \A fd \in Fds : {} \in SUBSET Kinds /\ 1 \in 1..MaxContexts /\ 0 \in 0..MaxContexts
  BY FdsAssumption
<1>2. TypeOK
  BY <1>1, FdsAssumption DEF Init, TypeOK, Calls
<1>3. MadeInTable
  BY FdsAssumption DEF Init, MadeInTable, InTable
<1> QED
  BY <1>2, <1>3 DEF TypeInv

(* The steps of addEvent().                                                *)
LEMMA TypingAdd ==
  ASSUME TypeInv, NEW c \in Callers,
         \/ \E fd \in Fds, w \in Waiters : \E e \in KindsOf(fd) : AddLook(c, fd, e, w)
         \/ AddResize(c) \/ AddRegister(c)
  PROVE  TypeInv'
<1>1. ASSUME NEW fd \in Fds, NEW w \in Waiters, NEW e \in KindsOf(fd), AddLook(c, fd, e, w)
      PROVE  TypeInv'
  <2>1. e \in Kinds
    BY DEF KindsOf
  <2>2. [step |-> IF size > fd THEN "register" ELSE "resize",
         fd |-> fd, e |-> e, w |-> w, x |-> Context(fd)] \in Calls
    BY <2>1, ContextType, FdsAssumption, MadeCall DEF InTable, TypeInv, TypeOK
  <2>3. call' \in [Callers -> Calls]
    BY <1>1, <2>2 DEF AddLook, TypeInv, TypeOK
  <2> QED
    BY <1>1, <2>3 DEF AddLook, TypeInv, TypeOK, MadeInTable, InTable, tableVars, kernelVars
<1>2. CASE AddResize(c)
  <2> DEFINE k   == call[c]
             new == (k.fd * 3) \div 2
  <2>1. k \in Calls /\ k.step = "resize"
    BY <1>2 DEF AddResize, TypeInv, TypeOK
  <2>2. k.fd \in Fds /\ k.e \in Kinds /\ k.w \in Waiters /\ k.fd \in Nat
    BY <2>1, CallFields, FdsAssumption
  <2>4. new \in Nat /\ size \in Nat /\ MaxContexts \in Nat
    BY <2>2, Growth, FdsAssumption DEF TypeInv, TypeOK
  <2>5. /\ size' = new
        /\ made' = [f \in Fds |-> IF size <= f /\ f < new THEN made[f] + 1 ELSE made[f]]
        /\ \A f \in Fds : size <= f /\ f < new => made[f] < MaxContexts
        /\ \/ /\ new > k.fd /\ UNCHANGED aborted
              /\ call' = [call EXCEPT ![c] =
                   [step |-> "register", fd |-> k.fd, e |-> k.e, w |-> k.w, x |-> <<k.fd, made'[k.fd]>>]]
           \/ aborted' = "out of bounds" /\ UNCHANGED call
        /\ UNCHANGED <<events, waiter, pending, reports, kernelVars, scheduled, dropped>>
    BY <1>2 DEF AddResize
  <2> HIDE DEF new
  <2>6. ASSUME NEW f \in Fds
        PROVE  /\ made'[f] \in 0..MaxContexts
               /\ f < new => made'[f] \in 1..MaxContexts
    <3>1. /\ f \in Nat /\ made[f] \in Nat /\ made[f] <= MaxContexts
          /\ f < size => made[f] > 0
      <4>1. f \in Nat /\ made[f] \in 0..MaxContexts /\ (f < size => made[f] > 0)
        BY FdsAssumption DEF TypeInv, TypeOK, MadeInTable, InTable
      <4> QED
        BY ONLY <2>4, <4>1
    <3>2. CASE size <= f /\ f < new
      <4>1. made'[f] = made[f] + 1 /\ made[f] < MaxContexts
        BY <2>5, <3>2
      <4> QED
        BY <2>4, <3>1, <4>1
    <3>3. CASE ~(size <= f /\ f < new)
      <4>1. made'[f] = made[f]
        BY <2>5, <3>3
      <4> QED
        BY <2>4, <3>1, <3>3, <4>1
    <3> QED
      BY <3>2, <3>3
  <2>7. made' \in [Fds -> 0..MaxContexts]
    BY <2>5, <2>6
  <2>8. call' \in [Callers -> Calls]
    <3>1. CASE UNCHANGED call
      BY <3>1 DEF TypeInv, TypeOK
    <3>2. CASE ~UNCHANGED call
      <4>1. <<k.fd, made'[k.fd]>> \in Contexts
        BY <2>2, <2>4, <2>5, <2>6, <3>2 DEF Contexts
      <4>2. [step |-> "register", fd |-> k.fd, e |-> k.e, w |-> k.w, x |-> <<k.fd, made'[k.fd]>>] \in Calls
        BY <2>2, <4>1, MadeCall
      <4> QED
        BY <2>5, <3>2, <4>2 DEF TypeInv, TypeOK
    <3> QED
      BY <3>1, <3>2
  <2>9. MadeInTable'
    <3>1. \A f \in Fds : f < size' => made'[f] > 0
      <4>1. size' = new
        BY <2>5
      <4>2. \A n \in 1..MaxContexts : n > 0
        BY <2>4
      <4> QED
        BY ONLY <2>6, <4>1, <4>2
    <3> QED
      BY <3>1 DEF MadeInTable, InTable
  <2>10. size' \in Nat /\ aborted' \in {"no", "out of bounds", "cancelEvent", "triggerEvent"}
    BY <2>4, <2>5 DEF TypeInv, TypeOK
  <2> QED
    BY <2>5, <2>7, <2>8, <2>9, <2>10 DEF TypeInv, TypeOK, kernelVars
<1>3. CASE AddRegister(c)
  <2>1. call[c] \in Calls /\ call[c].step = "register"
    BY <1>3 DEF AddRegister, TypeInv, TypeOK
  <2>2. PICK fd \in Fds, e \in Kinds, w \in Waiters, x \in Contexts :
          fd = call[c].fd /\ e = call[c].e /\ w = call[c].w /\ x = call[c].x
    BY <2>1, CallFields
  <2>3. call' \in [Callers -> Calls]
    BY <1>3 DEF AddRegister, TypeInv, TypeOK, Calls
  <2>4. UNCHANGED <<size, made, reports, aborted, scheduled, dropped>>
    BY <1>3 DEF AddRegister, tableVars
  <2>5. CASE UNCHANGED <<kernelVars, pending, events, waiter>>
    BY <2>3, <2>4, <2>5 DEF TypeInv, TypeOK, MadeInTable, InTable, kernelVars
  <2>6. CASE /\ Watch(fd, x, events[x] \cup {e})
             /\ pending' = pending + 1
             /\ events' = [events EXCEPT ![x] = @ \cup {e}]
             /\ waiter' = [waiter EXCEPT ![x][e] = w]
    <3>1. events[x] \cup {e} \in SUBSET Kinds
      BY DEF TypeInv, TypeOK
    <3>2. /\ interest' \in [Fds -> SUBSET Kinds] /\ target' \in [Fds -> 1..MaxContexts]
          /\ edge' \subseteq Fds /\ UNCHANGED <<ready, hungUp>>
      BY <2>6, <3>1, WatchTypes DEF TypeInv
    <3>3. events' \in [Contexts -> SUBSET Kinds] /\ pending' \in Int
      <4>1. /\ events' = [events EXCEPT ![x] = events[x] \cup {e}]
            /\ pending' = pending + 1
        BY <2>6
      <4>2. events \in [Contexts -> SUBSET Kinds] /\ pending \in Int
        BY DEF TypeInv, TypeOK
      <4> QED
        BY ONLY <3>1, <4>1, <4>2
    <3>4. waiter' \in [Contexts -> [AllKinds -> Waiters \cup {NoWaiter}]]
      <4>1. waiter \in [Contexts -> [AllKinds -> Waiters \cup {NoWaiter}]]
        BY DEF TypeInv, TypeOK
      <4>2. [waiter[x] EXCEPT ![e] = w] \in [AllKinds -> Waiters \cup {NoWaiter}]
        BY <4>1
      <4>3. waiter' = [waiter EXCEPT ![x] = [waiter[x] EXCEPT ![e] = w]]
        BY <2>6
      <4> QED
        BY ONLY <4>1, <4>2, <4>3
    <3> QED
      BY <2>3, <2>4, <3>2, <3>3, <3>4 DEF TypeInv, TypeOK, MadeInTable, InTable
  <2> QED
    BY <1>3, <2>2, <2>5, <2>6 DEF AddRegister
<1> QED
  BY <1>1, <1>2, <1>3

(* The calls that remove events, and a report that is delivered: what they *)
(* do to the FdContext and to epoll.                                       *)
Removes(x, es) ==
  /\ Watch(x[1], x, events[x] \ es)
  /\ CtlSucceeds(CtlFor(events[x] \ es), x[1])
  /\ \/ Trigger(x, es) /\ UNCHANGED dropped
     \/ \E e \in es :
          /\ es = {e}
          /\ events' = [events EXCEPT ![x] = @ \ es]
          /\ waiter' = [waiter EXCEPT ![x] = [f \in AllKinds |-> IF f \in es THEN NoWaiter ELSE @[f]]]
          /\ dropped' = dropped \cup ({waiter[x][e]} \ {NoWaiter})
          /\ UNCHANGED scheduled
  /\ UNCHANGED <<tableVars, call>>

LEMMA RemovesTypes ==
  ASSUME TypeInv, NEW x \in Contexts, NEW es \in SUBSET AllKinds, Removes(x, es)
  PROVE  /\ size' \in Nat /\ made' \in [Fds -> 0..MaxContexts] /\ MadeInTable'
         /\ events' \in [Contexts -> SUBSET Kinds]
         /\ waiter' \in [Contexts -> [AllKinds -> Waiters \cup {NoWaiter}]]
         /\ call' \in [Callers -> Calls]
         /\ interest' \in [Fds -> SUBSET Kinds] /\ target' \in [Fds -> 1..MaxContexts]
         /\ ready' \in [Fds -> SUBSET Kinds] /\ hungUp' \subseteq Fds /\ edge' \subseteq Fds
         /\ scheduled' \in [Waiters -> Nat] /\ dropped' \subseteq Waiters
<1>1. TypeOK /\ UNCHANGED <<size, made, call>>
  BY DEF TypeInv, Removes, tableVars
<1>2. size' \in Nat /\ made' \in [Fds -> 0..MaxContexts] /\ call' \in [Callers -> Calls]
  BY <1>1 DEF TypeOK
<1>3. MadeInTable'
  BY <1>1 DEF TypeInv, MadeInTable, InTable
<1>4. /\ interest' \in [Fds -> SUBSET Kinds] /\ target' \in [Fds -> 1..MaxContexts]
      /\ ready' \in [Fds -> SUBSET Kinds] /\ hungUp' \subseteq Fds /\ edge' \subseteq Fds
  <2>1. x[1] \in Fds /\ events[x] \ es \in SUBSET Kinds
    BY <1>1 DEF Contexts, TypeOK
  <2>2. /\ interest' \in [Fds -> SUBSET Kinds] /\ target' \in [Fds -> 1..MaxContexts]
        /\ edge' \subseteq Fds /\ UNCHANGED <<ready, hungUp>>
    BY <1>1, <2>1, WatchTypes DEF Removes
  <2> QED
    BY <1>1, <2>2 DEF TypeOK
<1>5. CASE Trigger(x, es) /\ UNCHANGED dropped
  BY <1>1, <1>2, <1>3, <1>4, <1>5, TriggerTypes DEF TypeOK
<1>6. CASE ~(Trigger(x, es) /\ UNCHANGED dropped)
  <2>1. PICK e \in es :
          /\ events' = [events EXCEPT ![x] = @ \ es]
          /\ waiter' = [waiter EXCEPT ![x] = [f \in AllKinds |-> IF f \in es THEN NoWaiter ELSE @[f]]]
          /\ dropped' = dropped \cup ({waiter[x][e]} \ {NoWaiter})
          /\ UNCHANGED scheduled
    BY <1>6 DEF Removes
  <2>2. events' \in [Contexts -> SUBSET Kinds]
    BY <1>1, <2>1 DEF TypeOK
  <2>3. waiter' \in [Contexts -> [AllKinds -> Waiters \cup {NoWaiter}]]
    BY <1>1, <2>1 DEF TypeOK
  <2>4. scheduled' \in [Waiters -> Nat] /\ dropped' \subseteq Waiters
    <3>1. waiter[x] \in [AllKinds -> Waiters \cup {NoWaiter}] /\ e \in AllKinds
      BY <1>1 DEF TypeOK
    <3>2. waiter[x][e] \in Waiters \cup {NoWaiter}
      BY <3>1
    <3> QED
      BY <1>1, <2>1, <3>2 DEF TypeOK
  <2> QED
    BY <1>2, <1>3, <1>4, <2>2, <2>3, <2>4
<1> QED
  BY <1>5, <1>6

(* Which calls remove what.                                                *)
LEMMA DelRemoves ==
  ASSUME TypeInv, NEW c \in Callers, NEW fd \in Fds, NEW e \in AllKinds, DelEvent(c, fd, e)
  PROVE  Context(fd) \in Contexts /\ Context(fd)[1] = fd /\ Removes(Context(fd), {e})
<1> DEFINE x == Context(fd)
<1>1. x \in Contexts /\ x[1] = fd
  BY ContextType DEF DelEvent
<1>2. /\ CtlSucceeds(CtlFor(events[x] \ {e}), fd) /\ Watch(fd, x, events[x] \ {e})
      /\ events' = [events EXCEPT ![x] = events[x] \ {e}]
      /\ waiter' = [waiter EXCEPT ![x][e] = NoWaiter]
      /\ dropped' = dropped \cup ({waiter[x][e]} \ {NoWaiter})
      /\ UNCHANGED <<tableVars, call, scheduled>>
  BY DEF DelEvent
<1> HIDE DEF x
<1>3. waiter' = [waiter EXCEPT ![x] = [f \in AllKinds |-> IF f \in {e} THEN NoWaiter ELSE @[f]]]
  <2>1. waiter \in [Contexts -> [AllKinds -> Waiters \cup {NoWaiter}]]
    BY DEF TypeInv, TypeOK
  <2>2. [waiter[x] EXCEPT ![e] = NoWaiter]
          = [f \in AllKinds |-> IF f \in {e} THEN NoWaiter ELSE waiter[x][f]]
    BY <1>1, <2>1
  <2>3. waiter' = [waiter EXCEPT ![x] = [waiter[x] EXCEPT ![e] = NoWaiter]]
    BY <1>2
  <2> QED
    BY <2>2, <2>3
<1>4. Removes(x, {e})
  BY <1>1, <1>2, <1>3 DEF Removes
<1> QED
  BY <1>1, <1>4 DEF x

LEMMA CancelRemoves ==
  ASSUME TypeInv, NEW c \in Callers, NEW fd \in Fds
  PROVE  /\ \A e \in AllKinds : CancelEvent(c, fd, e) =>
              /\ Context(fd) \in Contexts /\ Context(fd)[1] = fd
              /\ Removes(Context(fd), {e})
         /\ CancelAll(c, fd) /\ fd # size =>
              /\ Context(fd) \in Contexts /\ Context(fd)[1] = fd
              /\ Removes(Context(fd), events[Context(fd)])
<1> DEFINE x == Context(fd)
<1>1. InTable(fd) => x \in Contexts /\ x[1] = fd
  BY ContextType
<1>2. ASSUME NEW e \in AllKinds, CancelEvent(c, fd, e)
      PROVE  x \in Contexts /\ x[1] = fd /\ Removes(x, {e})
  BY <1>1, <1>2 DEF CancelEvent, Removes
<1>3. ASSUME CancelAll(c, fd), fd # size
      PROVE  x \in Contexts /\ x[1] = fd /\ Removes(x, events[x])
  <2>1. /\ InTable(fd) /\ CtlSucceeds("DEL", fd) /\ Watch(fd, x, {}) /\ Trigger(x, events[x])
        /\ UNCHANGED <<tableVars, call, dropped>>
    BY <1>3 DEF CancelAll
  <2>2. events[x] \ events[x] = {} /\ CtlFor({}) = "DEL"
    BY DEF CtlFor
  <2> HIDE DEF x
  <2> QED
    BY <1>1, <2>1, <2>2 DEF Removes
<1> QED
  BY <1>2, <1>3

LEMMA DeliverRemoves ==
  ASSUME TypeInv, NEW p \in Pollers, NEW r \in reports[p], Deliver(p, r), ~Abort("triggerEvent")
  PROVE  /\ r.x \in Contexts /\ RealEvents(r.mask) \in SUBSET AllKinds
         /\ RealEvents(r.mask) \subseteq events[r.x] /\ events[r.x] # {}
         /\ Removes(r.x, RealEvents(r.mask))
         /\ pending' = pending - Cardinality(RealEvents(r.mask))
<1>1. r.x \in Contexts /\ r.mask \in SUBSET (Kinds \cup {"HUP"})
  <2>1. reports[p] \in SUBSET [x : Contexts, mask : SUBSET (Kinds \cup {"HUP"})]
    BY DEF TypeInv, TypeOK
  <2>2. r \in [x : Contexts, mask : SUBSET (Kinds \cup {"HUP"})]
    BY <2>1
  <2> QED
    BY <2>2
<1>2. /\ RealEvents(r.mask) \subseteq events[r.x] /\ events[r.x] # {}
      /\ CtlSucceeds(CtlFor(Left(r)), r.x[1])
      /\ Watch(r.x[1], r.x, Left(r)) /\ Trigger(r.x, RealEvents(r.mask))
      /\ pending' = pending - Cardinality(RealEvents(r.mask))
      /\ UNCHANGED <<tableVars, call, dropped>>
  BY DEF Deliver, CanDeliver, Matches
<1>3. RealEvents(r.mask) \in SUBSET AllKinds
  BY <1>1, <1>2, FdsAssumption DEF TypeInv, TypeOK
<1>4. Removes(r.x, RealEvents(r.mask))
  BY <1>2 DEF Removes, Left
<1> QED
  BY <1>1, <1>2, <1>3, <1>4

(* How many events are counted down is a number.                           *)
LEMMA KindsCounted ==
  ASSUME NEW es \in SUBSET AllKinds
  PROVE  IsFiniteSet(es) /\ Cardinality(es) \in Nat
  BY KindsFinite, FS_Subset, FS_CardinalityType

LEMMA TypingRemove ==
  ASSUME TypeInv,
         \/ \E c \in Callers, fd \in Fds, e \in Kinds : DelEvent(c, fd, e) \/ CancelEvent(c, fd, e)
         \/ \E c \in Callers, fd \in Fds : CancelAll(c, fd)
         \/ \E p \in Pollers : \E r \in reports[p] : Deliver(p, r)
  PROVE  TypeInv'
<1>1. Kinds \subseteq AllKinds /\ pending \in Int
  BY FdsAssumption DEF TypeInv, TypeOK
<1>2. ASSUME NEW c \in Callers, NEW fd \in Fds, NEW e \in Kinds, DelEvent(c, fd, e)
      PROVE  TypeInv'
  <2>1. Removes(Context(fd), {e}) /\ Context(fd) \in Contexts
    BY <1>1, <1>2, DelRemoves
  <2>2. pending' \in Int /\ UNCHANGED <<reports, aborted>>
    BY <1>1, <1>2 DEF DelEvent
  <2> QED
    BY <1>1, <2>1, <2>2, RemovesTypes DEF TypeInv, TypeOK
<1>3. ASSUME NEW c \in Callers, NEW fd \in Fds, NEW e \in Kinds, CancelEvent(c, fd, e)
      PROVE  TypeInv'
  <2>1. Removes(Context(fd), {e}) /\ Context(fd) \in Contexts
    BY <1>1, <1>3, CancelRemoves
  <2>2. pending' \in Int /\ UNCHANGED reports /\ aborted' \in {"no", "cancelEvent"}
    BY <1>1, <1>3 DEF CancelEvent
  <2> QED
    BY <1>1, <2>1, <2>2, RemovesTypes DEF TypeInv, TypeOK
<1>4. ASSUME NEW what \in {"out of bounds", "triggerEvent"}, Abort(what)
      PROVE  TypeInv'
  BY <1>4 DEF Abort, TypeInv, TypeOK, MadeInTable, InTable, tableVars, kernelVars
<1>5. ASSUME NEW c \in Callers, NEW fd \in Fds, CancelAll(c, fd)
      PROVE  TypeInv'
  <2>1. CASE fd = size
    BY <1>4, <1>5, <2>1 DEF CancelAll
  <2>2. CASE fd # size
    <3>1. Removes(Context(fd), events[Context(fd)]) /\ Context(fd) \in Contexts
      BY <1>5, <2>2, CancelRemoves
    <3>2. events[Context(fd)] \in SUBSET AllKinds
      BY <1>1, <3>1 DEF TypeInv, TypeOK
    <3>3. pending' \in Int /\ UNCHANGED <<reports, aborted>>
      <4>1. /\ pending' = pending - Cardinality(events[Context(fd)])
            /\ UNCHANGED <<reports, aborted>>
        BY <1>5, <2>2 DEF CancelAll
      <4> QED
        BY <1>1, <3>2, <4>1, KindsCounted
    <3> QED
      BY <3>1, <3>2, <3>3, RemovesTypes DEF TypeInv, TypeOK
  <2> QED
    BY <2>1, <2>2
<1>6. ASSUME NEW p \in Pollers, NEW r \in reports[p], Deliver(p, r)
      PROVE  TypeInv'
  <2>1. CASE Abort("triggerEvent")
    BY <1>4, <2>1
  <2>2. CASE ~Abort("triggerEvent")
    <3>1. /\ r.x \in Contexts /\ RealEvents(r.mask) \in SUBSET AllKinds
          /\ Removes(r.x, RealEvents(r.mask))
          /\ pending' = pending - Cardinality(RealEvents(r.mask))
      BY <1>6, <2>2, DeliverRemoves
    <3>2. pending' \in Int
      BY <1>1, <3>1, KindsCounted
    <3>3. reports' = [reports EXCEPT ![p] = @ \ {r}] /\ UNCHANGED aborted
      BY <1>6, <2>2 DEF Deliver
    <3>4. reports' \in [Pollers -> SUBSET [x : Contexts, mask : SUBSET (Kinds \cup {"HUP"})]]
      BY <3>3 DEF TypeInv, TypeOK
    <3> QED
      BY <3>1, <3>2, <3>3, <3>4, RemovesTypes DEF TypeInv, TypeOK
  <2> QED
    BY <2>1, <2>2
<1> QED
  BY <1>2, <1>3, <1>5, <1>6

(* A report names a context and what epoll_wait() says of it.              *)
LEMMA TypingQuiet ==
  ASSUME TypeInv,
         \/ \E p \in Pollers : Poll(p) \/ \E r \in reports[p] : Skip(p, r)
         \/ Kernel \/ UNCHANGED vars
  PROVE  TypeInv'
<1>1. CASE UNCHANGED vars
  BY <1>1 DEF vars, TypeInv, TypeOK, MadeInTable, InTable, tableVars, kernelVars
<1>2. ASSUME NEW fd \in Fds, NEW e \in KindsOf(fd), BecomeReady(fd, e)
      PROVE  TypeInv'
  BY <1>2 DEF BecomeReady, KindsOf, TypeInv, TypeOK, MadeInTable, InTable, tableVars
<1>3. ASSUME NEW fd \in Fds, NEW e \in KindsOf(fd), Consume(fd, e)
      PROVE  TypeInv'
  BY <1>3 DEF Consume, TypeInv, TypeOK, MadeInTable, InTable, tableVars
<1>4. ASSUME NEW fd \in Fds, HangUp(fd)
      PROVE  TypeInv'
  BY <1>4 DEF HangUp, TypeInv, TypeOK, MadeInTable, InTable, tableVars
<1>5. ASSUME NEW p \in Pollers, NEW r \in reports[p], Skip(p, r)
      PROVE  TypeInv'
  BY <1>5 DEF Skip, TypeInv, TypeOK, MadeInTable, InTable, tableVars, kernelVars
<1>6. ASSUME NEW p \in Pollers, Poll(p)
      PROVE  TypeInv'
  <2> DEFINE report(fd) == [x |-> <<fd, target[fd]>>, mask |-> Reportable(fd, interest[fd])]
             found      == {fd \in edge : Reportable(fd, interest[fd]) # {}}
  <2>1. ASSUME NEW fd \in found
        PROVE  report(fd) \in [x : Contexts, mask : SUBSET (Kinds \cup {"HUP"})]
    <3>1. fd \in Fds /\ target[fd] \in 1..MaxContexts
      BY DEF TypeInv, TypeOK
    <3>2. Reportable(fd, interest[fd]) \in SUBSET (Kinds \cup {"HUP"})
      BY <3>1 DEF Reportable, TypeInv, TypeOK
    <3>3. <<fd, target[fd]>> \in Contexts
      BY <3>1 DEF Contexts
    <3> QED
      BY <3>2, <3>3
  <2>2. reports' = [reports EXCEPT ![p] = {report(fd) : fd \in found}] /\ edge' = {}
    BY <1>6 DEF Poll
  <2>3. {report(fd) : fd \in found} \in SUBSET [x : Contexts, mask : SUBSET (Kinds \cup {"HUP"})]
    BY <2>1
  <2> HIDE DEF report, found
  <2>4. reports' \in [Pollers -> SUBSET [x : Contexts, mask : SUBSET (Kinds \cup {"HUP"})]]
    BY <2>2, <2>3 DEF TypeInv, TypeOK
  <2>5. UNCHANGED <<size, made, events, waiter, pending, call, interest, target, ready, hungUp,
                    aborted, scheduled, dropped>>
    BY <1>6 DEF Poll, tableVars
  <2> QED
    BY <2>2, <2>4, <2>5 DEF TypeInv, TypeOK, MadeInTable, InTable
<1> QED
  BY <1>1, <1>2, <1>3, <1>4, <1>5, <1>6 DEF Kernel

(* The steps of the whole, in the groups that the proofs treat alike.      *)
LEMMA Steps ==
  ASSUME [Next]_vars
  PROVE  \/ \E c \in Callers :
              \/ \E fd \in Fds, w \in Waiters : \E e \in KindsOf(fd) : AddLook(c, fd, e, w)
              \/ AddResize(c) \/ AddRegister(c)
         \/ \E c \in Callers, fd \in Removable : \E e \in KindsOf(fd) :
              DelEvent(c, fd, e) \/ CancelEvent(c, fd, e)
         \/ \E c \in Callers, fd \in Fds : CancelAll(c, fd)
         \/ \E p \in Pollers : \E r \in reports[p] : Deliver(p, r)
         \/ \E p \in Pollers : Poll(p) \/ \E r \in reports[p] : Skip(p, r)
         \/ Kernel \/ UNCHANGED vars
<1>1. CASE UNCHANGED vars
  BY <1>1
<1>2. CASE Kernel \/ Aborted
  BY <1>2 DEF Aborted
<1>3. ASSUME NEW c \in Callers, Call(c)
      PROVE  \/ \E fd \in Fds, w \in Waiters : \E e \in KindsOf(fd) : AddLook(c, fd, e, w)
             \/ AddResize(c) \/ AddRegister(c)
             \/ \E fd \in Removable : \E e \in KindsOf(fd) :
                  DelEvent(c, fd, e) \/ CancelEvent(c, fd, e)
             \/ \E fd \in Fds : CancelAll(c, fd)
  BY <1>3 DEF Call
<1>4. ASSUME NEW p \in Pollers, Poll(p) \/ Handle(p)
      PROVE  \/ Poll(p)
             \/ \E r \in reports[p] : Skip(p, r)
             \/ \E r \in reports[p] : Deliver(p, r)
  BY <1>4 DEF Handle
<1> QED
  BY <1>1, <1>2, <1>3, <1>4 DEF Next

LEMMA TypingStep == TypeInv /\ [Next]_vars => TypeInv'
<1> SUFFICES ASSUME TypeInv, [Next]_vars PROVE TypeInv'
  OBVIOUS
<1>1. \A fd \in Fds : KindsOf(fd) \subseteq Kinds
  BY DEF KindsOf
<1>2. Removable \subseteq Fds
  BY FdsAssumption
<1> QED
  BY <1>1, <1>2, Steps, TypingAdd, TypingRemove, TypingQuiet

(* Every variable has its type: no caller, poller or resize leaves the     *)
(* table with a context that it does not have, whatever the descriptors    *)
(* are and however often the table shrinks.                                *)
THEOREM IOEventsTypeCorrect == Spec => []TypeOK
<1>1. TypeInv => TypeOK
  BY DEF TypeInv
<1> QED
  BY <1>1, TypingInit, TypingStep, PTL DEF Spec

-----------------------------------------------------------------------------
(* Waiters.                                                                *)

(* A set of which all elements are the same has one element at most.       *)
LEMMA OneAtMost ==
  ASSUME NEW S, \A a, b \in S : a = b
  PROVE  IsFiniteSet(S) /\ Cardinality(S) = IF S = {} THEN 0 ELSE 1
<1>1. CASE S = {}
  BY <1>1, FS_EmptySet
<1>2. CASE S # {}
  <2>1. PICK a \in S : TRUE
    BY <1>2
  <2>2. S = {a}
    BY <2>1
  <2> QED
    BY <1>2, <2>2, FS_Singleton
<1> QED
  BY <1>1, <1>2

LEMMA WaiterInit == Init => WaiterInv
<1> SUFFICES ASSUME Init PROVE WaiterInv
  OBVIOUS
<1>1. \A w \in Waiters : w # NoWaiter
  BY FdsAssumption
<1>2. \A x \in Contexts, e \in AllKinds : waiter[x][e] = NoWaiter
  BY DEF Init
<1>3. \A c \in Callers : call[c].step = "none"
  BY DEF Init, NoCall
<1>4. dropped = {} /\ \A w \in Waiters : scheduled[w] = 0
  BY DEF Init
<1> QED
  BY <1>1, <1>2, <1>3, <1>4 DEF WaiterInv, With

(* A step that leaves every waiter where it is, but may end a call.        *)
LEMMA WaiterStays ==
  ASSUME WaiterInv, UNCHANGED <<waiter, scheduled, dropped>>,
         \A c \in Callers, w \in Waiters : With(c, w)' => With(c, w)
  PROVE  WaiterInv'
  BY DEF WaiterInv, Free

LEMMA WaiterAdd ==
  ASSUME TypeInv, WaiterInv, NEW c \in Callers,
         \/ \E fd \in Fds, w \in Waiters : \E e \in KindsOf(fd) : AddLook(c, fd, e, w)
         \/ AddResize(c) \/ AddRegister(c)
  PROVE  WaiterInv'
<1>1. call \in [Callers -> Calls]
  BY DEF TypeInv, TypeOK
<1>2. ASSUME NEW fd \in Fds, NEW w \in Waiters, NEW e \in KindsOf(fd), AddLook(c, fd, e, w)
      PROVE  WaiterInv'
  <2>1. /\ Free(w) /\ \A x \in Contexts, f \in AllKinds : waiter[x][f] # w
        /\ \A d \in Callers : ~With(d, w)
    BY <1>2 DEF AddLook, Unused, Free, With
  <2>2. \A d \in Callers, v \in Waiters : With(d, v)' => (d = c /\ v = w) \/ (d # c /\ With(d, v))
    BY <1>1, <1>2 DEF AddLook, With
  <2>3. UNCHANGED <<waiter, scheduled, dropped>>
    BY <1>2 DEF AddLook
  <2>4. \A v \in Waiters : Free(v)' = Free(v)
    BY <2>3 DEF Free
  <2> SUFFICES ASSUME NEW v \in Waiters
               PROVE  (/\ scheduled[v] <= 1 /\ (v \in dropped => scheduled[v] = 0)
                       /\ \A x \in Contexts, f \in AllKinds : waiter[x][f] = v =>
                            /\ Free(v)
                            /\ \A y \in Contexts, g \in AllKinds : waiter[y][g] = v => x = y /\ f = g
                       /\ \A d \in Callers : With(d, v) =>
                            /\ Free(v)
                            /\ \A b \in Callers : With(b, v) => d = b
                            /\ \A x \in Contexts, f \in AllKinds : waiter[x][f] # v)'
    BY DEF WaiterInv
  <2>5. (/\ scheduled[v] <= 1 /\ (v \in dropped => scheduled[v] = 0)
         /\ \A x \in Contexts, f \in AllKinds : waiter[x][f] = v =>
              /\ Free(v)
              /\ \A y \in Contexts, g \in AllKinds : waiter[y][g] = v => x = y /\ f = g)'
    BY <2>3, <2>4 DEF WaiterInv
  <2>6. ASSUME NEW d \in Callers, With(d, v)'
        PROVE  (/\ Free(v)
                /\ \A b \in Callers : With(b, v) => d = b
                /\ \A x \in Contexts, f \in AllKinds : waiter[x][f] # v)'
    BY <2>1, <2>2, <2>3, <2>4, <2>6 DEF WaiterInv
  <2> QED
    BY <2>5, <2>6
<1>3. CASE AddResize(c)
  <2>1. call[c].step # "none" /\ UNCHANGED <<waiter, scheduled, dropped>>
    BY <1>3 DEF AddResize
  <2>2. \/ UNCHANGED call
        \/ \E fd, x : call' = [call EXCEPT ![c] =
             [step |-> "register", fd |-> fd, e |-> call[c].e, w |-> call[c].w, x |-> x]]
    BY <1>3 DEF AddResize
  <2>3. \A d \in Callers, w \in Waiters : With(d, w)' => With(d, w)
    BY <1>1, <2>1, <2>2 DEF With
  <2> QED
    BY <2>1, <2>3, WaiterStays
<1>4. CASE AddRegister(c)
  <2>1. call[c] \in Calls /\ call[c].step = "register"
    BY <1>1, <1>4 DEF AddRegister
  <2>2. PICK fd \in Fds, e \in Kinds, w \in Waiters, x \in Contexts :
          fd = call[c].fd /\ e = call[c].e /\ w = call[c].w /\ x = call[c].x
    BY <2>1, CallFields
  <2>3. UNCHANGED <<scheduled, dropped>> /\ e \in AllKinds
    BY <1>4, FdsAssumption DEF AddRegister
  <2>4. \A d \in Callers, v \in Waiters : With(d, v)' => d # c /\ With(d, v)
    BY <1>1, <1>4 DEF AddRegister, With, NoCall
  <2>5. CASE UNCHANGED waiter
    BY <2>3, <2>4, <2>5, WaiterStays
  <2>6. CASE waiter' = [waiter EXCEPT ![x][e] = w]
    <3>1. \A y \in Contexts, f \in AllKinds :
            waiter'[y][f] = IF y = x /\ f = e THEN w ELSE waiter[y][f]
      <4>1. waiter \in [Contexts -> [AllKinds -> Waiters \cup {NoWaiter}]]
        BY DEF TypeInv, TypeOK
      <4> QED
        BY ONLY <2>3, <2>6, <4>1
    <3>2. With(c, w)
      BY <2>1, <2>2 DEF With
    <3>3. /\ Free(w) /\ \A y \in Contexts, f \in AllKinds : waiter[y][f] # w
          /\ \A d \in Callers : d # c => ~With(d, w)
      BY <3>2 DEF WaiterInv
    <3>4. \A v \in Waiters : Free(v)' = Free(v)
      BY <2>3 DEF Free
    <3> SUFFICES ASSUME NEW v \in Waiters
                 PROVE  (/\ scheduled[v] <= 1 /\ (v \in dropped => scheduled[v] = 0)
                         /\ \A y \in Contexts, f \in AllKinds : waiter[y][f] = v =>
                              /\ Free(v)
                              /\ \A z \in Contexts, g \in AllKinds : waiter[z][g] = v => y = z /\ f = g
                         /\ \A d \in Callers : With(d, v) =>
                              /\ Free(v)
                              /\ \A b \in Callers : With(b, v) => d = b
                              /\ \A y \in Contexts, f \in AllKinds : waiter[y][f] # v)'
      BY DEF WaiterInv
    <3>5. (scheduled[v] <= 1 /\ (v \in dropped => scheduled[v] = 0))'
      BY <2>3 DEF WaiterInv
    <3>6. ASSUME NEW y \in Contexts, NEW f \in AllKinds, waiter'[y][f] = v
          PROVE  /\ Free(v)'
                 /\ \A z \in Contexts, g \in AllKinds : waiter'[z][g] = v => y = z /\ f = g
      <4>1. CASE v = w
        BY <3>1, <3>3, <3>4, <3>6, <4>1
      <4>2. CASE v # w
        BY <3>1, <3>4, <3>6, <4>2 DEF WaiterInv
      <4> QED
        BY <4>1, <4>2
    <3>7. ASSUME NEW d \in Callers, With(d, v)'
          PROVE  /\ Free(v)'
                 /\ \A b \in Callers : With(b, v)' => d = b
                 /\ \A y \in Contexts, f \in AllKinds : waiter'[y][f] # v
      <4>1. v # w /\ With(d, v)
        BY <2>4, <3>3, <3>7
      <4> QED
        BY <2>4, <3>1, <3>4, <4>1 DEF WaiterInv
    <3> QED
      BY <3>5, <3>6, <3>7
  <2> QED
    BY <1>4, <2>2, <2>5, <2>6 DEF AddRegister
<1> QED
  BY <1>2, <1>3, <1>4

(* Removing events takes each of their waiters to one place: to its        *)
(* scheduler once, or out of the program.                                  *)
LEMMA WaiterRemove ==
  ASSUME TypeInv, WaiterInv, NEW x \in Contexts, NEW es \in SUBSET AllKinds, Removes(x, es)
  PROVE  WaiterInv'
<1>1. /\ waiter \in [Contexts -> [AllKinds -> Waiters \cup {NoWaiter}]]
      /\ scheduled \in [Waiters -> Nat] /\ NoWaiter \notin Waiters
  BY FdsAssumption DEF TypeInv, TypeOK
<1>2. \A d \in Callers, v \in Waiters : With(d, v)' = With(d, v)
  BY DEF Removes, With
<1>3. \A y \in Contexts, f \in AllKinds :
        waiter'[y][f] = IF y = x /\ f \in es THEN NoWaiter ELSE waiter[y][f]
  <2>1. waiter' = [waiter EXCEPT ![x] = [f \in AllKinds |-> IF f \in es THEN NoWaiter ELSE waiter[x][f]]]
    BY DEF Removes, Trigger
  <2> QED
    BY ONLY <1>1, <2>1
<1> SUFFICES ASSUME NEW v \in Waiters
             PROVE  (/\ scheduled[v] <= 1 /\ (v \in dropped => scheduled[v] = 0)
                     /\ \A y \in Contexts, f \in AllKinds : waiter[y][f] = v =>
                          /\ Free(v)
                          /\ \A z \in Contexts, g \in AllKinds : waiter[z][g] = v => y = z /\ f = g
                     /\ \A d \in Callers : With(d, v) =>
                          /\ Free(v)
                          /\ \A b \in Callers : With(b, v) => d = b
                          /\ \A y \in Contexts, f \in AllKinds : waiter[y][f] # v)'
  BY DEF WaiterInv
<1> DEFINE held == {e \in es : waiter[x][e] = v}
<1>4. \A a, b \in held : a = b
  BY DEF WaiterInv
<1>5. Cardinality(held) = IF held = {} THEN 0 ELSE 1
  BY <1>4, OneAtMost
<1>6. \/ scheduled'[v] = scheduled[v] + Cardinality(held) /\ UNCHANGED dropped
      \/ /\ UNCHANGED scheduled
         /\ v \in dropped' <=> v \in dropped \/ held # {}
  <2>1. CASE Trigger(x, es) /\ UNCHANGED dropped
    BY <2>1 DEF Trigger
  <2>2. CASE ~(Trigger(x, es) /\ UNCHANGED dropped)
    <3>1. PICK e \in es : /\ es = {e} /\ UNCHANGED scheduled
                          /\ dropped' = dropped \cup ({waiter[x][e]} \ {NoWaiter})
      BY <2>2 DEF Removes
    <3>2. v # NoWaiter
      BY <1>1
    <3> QED
      BY <3>1, <3>2
  <2> QED
    BY <2>1, <2>2
<1>7. scheduled[v] \in Nat /\ scheduled[v] <= 1 /\ (v \in dropped => scheduled[v] = 0)
  BY <1>1 DEF WaiterInv
<1>8. CASE held = {}
  <2>1. Free(v)' = Free(v) /\ (scheduled[v] <= 1 /\ (v \in dropped => scheduled[v] = 0))'
    BY <1>5, <1>6, <1>7, <1>8 DEF Free
  <2>2. \A y \in Contexts, f \in AllKinds : waiter'[y][f] = v <=> waiter[y][f] = v
    BY <1>1, <1>3, <1>8
  <2> QED
    BY <1>2, <2>1, <2>2 DEF WaiterInv
<1>9. CASE held # {}
  <2>1. PICK e \in es : waiter[x][e] = v
    BY <1>9
  <2>2. /\ Free(v) /\ e \in AllKinds
        /\ \A y \in Contexts, f \in AllKinds : waiter[y][f] = v => y = x /\ f = e
    BY <2>1 DEF WaiterInv
  <2>3. \A d \in Callers : ~With(d, v)
    BY <2>1, <2>2 DEF WaiterInv
  <2>4. \A y \in Contexts, f \in AllKinds : waiter'[y][f] # v
    BY <1>1, <1>3, <2>1, <2>2
  <2>5. (scheduled[v] <= 1 /\ (v \in dropped => scheduled[v] = 0))'
    BY <1>5, <1>6, <1>7, <1>9, <2>2 DEF Free
  <2> QED
    BY <1>2, <2>3, <2>4, <2>5
<1> QED
  BY <1>8, <1>9

LEMMA WaiterStep == TypeInv /\ WaiterInv /\ [Next]_vars => WaiterInv'
<1> SUFFICES ASSUME TypeInv, WaiterInv, [Next]_vars PROVE WaiterInv'
  OBVIOUS
<1>1. /\ Removable \subseteq Fds
      /\ \A fd \in Fds : KindsOf(fd) \subseteq AllKinds
  BY FdsAssumption DEF KindsOf
<1>2. ASSUME NEW what, Abort(what)
      PROVE  WaiterInv'
  <2>1. UNCHANGED <<waiter, scheduled, dropped, call>>
    BY <1>2 DEF Abort
  <2> QED
    BY <2>1, WaiterStays DEF With
<1>3. ASSUME NEW c \in Callers,
             \/ \E fd \in Fds, w \in Waiters : \E e \in KindsOf(fd) : AddLook(c, fd, e, w)
             \/ AddResize(c) \/ AddRegister(c)
      PROVE  WaiterInv'
  BY <1>3, WaiterAdd
<1>4. ASSUME NEW c \in Callers, NEW fd \in Removable, NEW e \in KindsOf(fd),
             DelEvent(c, fd, e) \/ CancelEvent(c, fd, e)
      PROVE  WaiterInv'
  <2>1. Removes(Context(fd), {e}) /\ Context(fd) \in Contexts /\ {e} \in SUBSET AllKinds
    BY <1>1, <1>4, DelRemoves, CancelRemoves
  <2> QED
    BY <2>1, WaiterRemove
<1>5. ASSUME NEW c \in Callers, NEW fd \in Fds, CancelAll(c, fd)
      PROVE  WaiterInv'
  <2>1. CASE fd = size
    BY <1>2, <1>5, <2>1 DEF CancelAll
  <2>2. CASE fd # size
    <3>1. Removes(Context(fd), events[Context(fd)]) /\ Context(fd) \in Contexts
      BY <1>5, <2>2, CancelRemoves
    <3>2. events[Context(fd)] \in SUBSET AllKinds
      BY <3>1, FdsAssumption DEF TypeInv, TypeOK
    <3> QED
      BY <3>1, <3>2, WaiterRemove
  <2> QED
    BY <2>1, <2>2
<1>6. ASSUME NEW p \in Pollers, NEW r \in reports[p], Deliver(p, r)
      PROVE  WaiterInv'
  BY <1>2, <1>6, DeliverRemoves, WaiterRemove
<1>7. ASSUME \/ \E p \in Pollers : Poll(p) \/ \E r \in reports[p] : Skip(p, r)
             \/ Kernel \/ UNCHANGED vars
      PROVE  WaiterInv'
  <2>1. UNCHANGED <<waiter, scheduled, dropped, call>>
    BY <1>7 DEF Poll, Skip, Kernel, BecomeReady, Consume, HangUp, vars
  <2> QED
    BY <2>1, WaiterStays DEF With
<1> QED
  BY <1>3, <1>4, <1>5, <1>6, <1>7, Steps

(* A waiter is scheduled once at most, however many threads poll, cancel   *)
(* and handle reports that are out of date, and never after delEvent() has *)
(* removed it or while it is still registered.                             *)
THEOREM NoWaiterTwice == Spec => []WaiterOnce
<1>1. TypeInv /\ WaiterInv => WaiterOnce
  <2> SUFFICES ASSUME TypeInv, WaiterInv, NEW w \in Waiters
               PROVE  Cardinality({r \in Contexts \X AllKinds : waiter[r[1]][r[2]] = w})
                        + scheduled[w] + (IF w \in dropped THEN 1 ELSE 0) <= 1
    BY DEF WaiterOnce
  <2> DEFINE P == {r \in Contexts \X AllKinds : waiter[r[1]][r[2]] = w}
  <2>1. ASSUME NEW r \in P, NEW s \in P
        PROVE  r = s
    <3>1. /\ r \in Contexts \X AllKinds /\ s \in Contexts \X AllKinds
          /\ waiter[r[1]][r[2]] = w /\ waiter[s[1]][s[2]] = w
      OBVIOUS
    <3>2. r[1] = s[1] /\ r[2] = s[2]
      BY <3>1 DEF WaiterInv
    <3> QED
      BY ONLY <3>1, <3>2
  <2>2. Cardinality(P) = IF P = {} THEN 0 ELSE 1
    BY <2>1, OneAtMost
  <2>3. P # {} => scheduled[w] = 0 /\ w \notin dropped
    <3> SUFFICES ASSUME NEW r \in P PROVE scheduled[w] = 0 /\ w \notin dropped
      OBVIOUS
    <3>1. r[1] \in Contexts /\ r[2] \in AllKinds /\ waiter[r[1]][r[2]] = w
      OBVIOUS
    <3> QED
      BY <3>1 DEF WaiterInv, Free
  <2>4. scheduled[w] \in Nat /\ scheduled[w] <= 1 /\ (w \in dropped => scheduled[w] = 0)
    BY DEF WaiterInv, TypeInv, TypeOK
  <2> HIDE DEF P
  <2>5. Cardinality(P) + scheduled[w] + (IF w \in dropped THEN 1 ELSE 0) <= 1
    BY <2>2, <2>3, <2>4
  <2> QED
    BY <2>5 DEF P
<1> QED
  BY <1>1, TypingInit, TypingStep, WaiterInit, WaiterStep, PTL DEF Spec

-----------------------------------------------------------------------------
(* The table.                                                              *)

LEMMA TableInit == Init => TableInv /\ InBounds
<1> SUFFICES ASSUME Init PROVE TableInv /\ InBounds
  OBVIOUS
<1>1. size = FirstSize /\ FirstSize \in Nat /\ aborted = "no"
  BY FdsAssumption DEF Init
<1>2. \A fd \in Fds : made[fd] = IF fd < FirstSize THEN 1 ELSE 0
  BY DEF Init
<1>3. \A c \in Callers : call[c].step = "none"
  BY DEF Init, NoCall
<1>4. \A x \in Contexts : events[x] = {}
  BY DEF Init
<1> QED
  BY <1>1, <1>2, <1>3, <1>4 DEF TableInv, InBounds, SizeKnown, CallKnown, InPlace, InTable

(* A step that leaves the table and the calls, or ends one, and registers  *)
(* nothing.                                                                *)
LEMMA TableStays ==
  ASSUME TableInv, UNCHANGED <<size, made>>,
         \A c \in Callers : call'[c] \in {call[c], NoCall},
         \A x \in Contexts : events'[x] \subseteq events[x]
  PROVE  TableInv'
<1>1. SizeKnown' /\ \A fd \in Fds \ Refused : made'[fd] = IF fd < size' THEN 1 ELSE 0
  BY DEF TableInv, SizeKnown, InTable
<1>2. ASSUME NEW c \in Callers
      PROVE  CallKnown(c)'
  <2>1. CallKnown(c)
    BY DEF TableInv
  <2>2. NoCall.step = "none"
    BY DEF NoCall
  <2> QED
    BY <2>1, <2>2 DEF CallKnown, InTable
<1>3. \A x \in Contexts : InPlace(x)'
  BY DEF TableInv, InPlace, InTable
<1> QED
  BY <1>1, <1>2, <1>3 DEF TableInv, InTable

LEMMA TableLook ==
  ASSUME TypeInv, TableInv, NEW c \in Callers,
         NEW fd \in Fds, NEW e \in Kinds, NEW w \in Waiters, AddLook(c, fd, e, w)
  PROVE  TableInv'
<1>1. /\ UNCHANGED <<size, made, events>>
      /\ call' = [call EXCEPT ![c] = [step |-> IF size > fd THEN "register" ELSE "resize",
                                     fd |-> fd, e |-> e, w |-> w, x |-> Context(fd)]]
  BY DEF AddLook, tableVars
<1>2. SizeKnown' /\ \A f \in Fds \ Refused : made'[f] = IF f < size' THEN 1 ELSE 0
  BY <1>1 DEF TableInv, SizeKnown, InTable
<1>3. \A x \in Contexts : InPlace(x)'
  BY <1>1 DEF TableInv, InPlace, InTable
<1>4. \A d \in Callers : d # c => CallKnown(d)'
  BY <1>1 DEF TypeInv, TypeOK, TableInv, CallKnown, InTable
<1>5. CallKnown(c)'
  <2>1. /\ call'[c].step = IF size > fd THEN "register" ELSE "resize"
        /\ call'[c].fd = fd /\ call'[c].x = <<fd, made[fd]>>
    BY <1>1 DEF TypeInv, TypeOK, Context
  <2>2. fd \notin Refused => made[fd] = IF fd < size THEN 1 ELSE 0
    BY DEF TableInv, InTable
  <2>3. size >= FirstSize /\ fd \in Nat /\ size \in Nat /\ FirstSize \in Nat
    BY FdsAssumption DEF TableInv, SizeKnown, TypeInv, TypeOK
  <2> QED
    BY <1>1, <2>1, <2>2, <2>3 DEF CallKnown, InTable
<1> QED
  BY <1>2, <1>3, <1>4, <1>5 DEF TableInv, InTable

(* A resize takes the table to where every registered descriptor fits and  *)
(* keeps the contexts that it finds.                                       *)
LEMMA TableResize ==
  ASSUME RoomForAll, TypeInv, TableInv, NEW c \in Callers, AddResize(c)
  PROVE  TableInv' /\ UNCHANGED aborted
<1> DEFINE k   == call[c]
           new == (k.fd * 3) \div 2
<1>1. k \in Calls /\ k.step = "resize"
  BY DEF AddResize, TypeInv, TypeOK
<1>2. k.fd \in Fds /\ k.fd \in Nat
  BY <1>1, CallFields, FdsAssumption
<1>3. k.fd >= FirstSize
  BY <1>1 DEF TableInv, CallKnown
<1>4. k.fd > 1 /\ \A f \in Fds \ Refused : f < new
  BY <1>2, <1>3 DEF RoomForAll
<1>5. new > k.fd /\ new >= FirstSize /\ new \in Nat
  BY <1>2, <1>3, <1>4, FdsAssumption, Growth
<1>6. /\ size' = new
      /\ made' = [f \in Fds |-> IF size <= f /\ f < new THEN made[f] + 1 ELSE made[f]]
      /\ call' = [call EXCEPT ![c] =
           [step |-> "register", fd |-> k.fd, e |-> k.e, w |-> k.w, x |-> <<k.fd, made'[k.fd]>>]]
      /\ UNCHANGED <<aborted, events>>
  BY <1>5 DEF AddResize
<1>7. SizeKnown'
  BY <1>2, <1>3, <1>5, <1>6 DEF SizeKnown
<1> HIDE DEF new
<1>8. \A f \in Fds \ Refused : InTable(f)' /\ made'[f] = 1
  <2> SUFFICES ASSUME NEW f \in Fds \ Refused PROVE InTable(f)' /\ made'[f] = 1
    OBVIOUS
  <2>1. f \in Nat /\ size \in Nat /\ f < new /\ made[f] = IF f < size THEN 1 ELSE 0
    BY <1>4, FdsAssumption DEF TypeInv, TypeOK, TableInv, InTable
  <2>2. made'[f] = IF size <= f /\ f < new THEN made[f] + 1 ELSE made[f]
    BY <1>6
  <2> QED
    BY <1>6, <2>1, <2>2 DEF InTable
<1>9. \A x \in Contexts : InPlace(x)'
  BY <1>6, <1>8 DEF TableInv, InPlace, Contexts
<1>10. ASSUME NEW d \in Callers
       PROVE  CallKnown(d)'
  <2>1. CASE d = c
    <3>1. call'[c].step = "register" /\ call'[c].fd = k.fd /\ call'[c].x = <<k.fd, made'[k.fd]>>
      BY <1>6 DEF TypeInv, TypeOK
    <3> QED
      BY <1>2, <1>8, <2>1, <3>1 DEF CallKnown
  <2>2. CASE d # c
    <3>1. call'[d] = call[d] /\ call[d] \in Calls
      BY <1>6, <2>2 DEF TypeInv, TypeOK
    <3>2. CallKnown(d)
      BY DEF TableInv
    <3>3. call[d].step = "register" => call[d].fd \in Fds
      BY <3>1, CallFields
    <3> QED
      BY <1>8, <3>1, <3>2, <3>3 DEF CallKnown
  <2> QED
    BY <2>1, <2>2
<1> QED
  BY <1>6, <1>7, <1>8, <1>9, <1>10 DEF TableInv

(* What addEvent() registers is in place.                                  *)
LEMMA TableRegister ==
  ASSUME TypeInv, TableInv, NEW c \in Callers, AddRegister(c)
  PROVE  TableInv' /\ UNCHANGED aborted
<1>1. call[c] \in Calls /\ call[c].step = "register" /\ UNCHANGED <<size, made, aborted>>
  BY DEF AddRegister, TypeInv, TypeOK, tableVars
<1>2. PICK fd \in Fds, e \in Kinds, x \in Contexts :
        fd = call[c].fd /\ e = call[c].e /\ x = call[c].x
  BY <1>1, CallFields
<1>3. \A d \in Callers : call'[d] \in {call[d], NoCall}
  BY DEF AddRegister, TypeInv, TypeOK
<1>4. CASE UNCHANGED events
  BY <1>1, <1>3, <1>4, TableStays
<1>5. CASE events' = [events EXCEPT ![x] = @ \cup {e}] /\ fd \notin Refused
  <2>1. InTable(fd) /\ x = <<fd, 1>>
    BY <1>1, <1>2, <1>5 DEF TableInv, CallKnown
  <2>2. SizeKnown' /\ \A f \in Fds \ Refused : made'[f] = IF f < size' THEN 1 ELSE 0
    BY <1>1 DEF TableInv, SizeKnown, InTable
  <2>3. ASSUME NEW d \in Callers
        PROVE  CallKnown(d)'
    <3>1. CallKnown(d) /\ NoCall.step = "none"
      BY DEF TableInv, NoCall
    <3> QED
      BY <1>1, <1>3, <3>1 DEF CallKnown, InTable
  <2>4. ASSUME NEW y \in Contexts
        PROVE  InPlace(y)'
    <3>1. CASE y = x
      BY <1>1, <1>5, <2>1, <3>1 DEF InPlace, InTable
    <3>2. CASE y # x
      <4>1. events'[y] = events[y]
        BY <1>5, <3>2 DEF TypeInv, TypeOK
      <4> QED
        BY <1>1, <4>1 DEF TableInv, InPlace, InTable
    <3> QED
      BY <3>1, <3>2
  <2> QED
    BY <1>1, <2>2, <2>3, <2>4 DEF TableInv, InTable
<1> QED
  BY <1>1, <1>2, <1>4, <1>5 DEF AddRegister, CtlSucceeds

LEMMA TableRemove ==
  ASSUME TypeInv, TableInv, NEW x \in Contexts, NEW es \in SUBSET AllKinds, Removes(x, es)
  PROVE  TableInv'
<1>1. UNCHANGED <<size, made, call>> /\ events' = [events EXCEPT ![x] = @ \ es]
  BY DEF Removes, Trigger, tableVars
<1>2. \A y \in Contexts : events'[y] \subseteq events[y]
  BY <1>1 DEF TypeInv, TypeOK
<1> QED
  BY <1>1, <1>2, TableStays

(* Every call that removes events, and every report that is delivered,     *)
(* finds the context of the table that its events were registered in.      *)
LEMMA Removals ==
  ASSUME TypeInv, TableInv,
         \/ \E c \in Callers, fd \in Removable : \E e \in KindsOf(fd) :
              DelEvent(c, fd, e) \/ CancelEvent(c, fd, e)
         \/ \E c \in Callers, fd \in Fds : CancelAll(c, fd)
         \/ \E p \in Pollers : \E r \in reports[p] : Deliver(p, r)
  PROVE  \/ Abort("triggerEvent")
         \/ Abort("out of bounds") /\ "cancelAll" \in Operations /\ size \in Fds
         \/ \E x \in Contexts, es \in SUBSET AllKinds :
              /\ Removes(x, es) /\ x[2] = 1 /\ aborted' \in {aborted, "no", "cancelEvent"}
              /\ \/ es \subseteq events[x] /\ pending' = pending - Cardinality(es)
                 \/ \E c \in Callers, fd \in Removable : \E e \in KindsOf(fd) :
                      DelEvent(c, fd, e) /\ x[1] = fd /\ es = {e}
<1>1. /\ Removable \subseteq Fds
      /\ \A fd \in Fds : KindsOf(fd) \subseteq AllKinds
  BY FdsAssumption DEF KindsOf
<1>2. ASSUME NEW x \in Contexts, NEW es \in SUBSET AllKinds, Removes(x, es),
             \/ InTable(x[1]) /\ x = Context(x[1])
             \/ events[x] # {}
      PROVE  x[2] = 1
  <2>1. CASE events[x] # {}
    BY <2>1 DEF TableInv, InPlace
  <2>2. CASE InTable(x[1]) /\ x = Context(x[1])
    <3>1. x[1] \in Fds \ Refused
      BY <1>2 DEF Removes, CtlSucceeds, Contexts
    <3>2. made[x[1]] = 1
      BY <2>2, <3>1 DEF TableInv
    <3> QED
      BY <2>2, <3>1, <3>2, ContextType
  <2> QED
    BY <1>2, <2>1, <2>2
<1>3. ASSUME NEW c \in Callers, NEW fd \in Removable, NEW e \in KindsOf(fd), DelEvent(c, fd, e)
      PROVE  /\ Removes(Context(fd), {e}) /\ Context(fd) \in Contexts
             /\ Context(fd)[1] = fd /\ Context(fd)[2] = 1 /\ UNCHANGED aborted
  <2>1. Removes(Context(fd), {e}) /\ Context(fd) \in Contexts /\ Context(fd)[1] = fd
    BY <1>1, <1>3, DelRemoves
  <2>2. InTable(fd) /\ UNCHANGED aborted /\ {e} \in SUBSET AllKinds
    BY <1>1, <1>3 DEF DelEvent
  <2> QED
    BY <1>2, <2>1, <2>2
<1>4. ASSUME NEW c \in Callers, NEW fd \in Removable, NEW e \in KindsOf(fd), CancelEvent(c, fd, e)
      PROVE  /\ Removes(Context(fd), {e}) /\ Context(fd) \in Contexts /\ Context(fd)[2] = 1
             /\ aborted' \in {"no", "cancelEvent"}
             /\ {e} \subseteq events[Context(fd)] /\ pending' = pending - Cardinality({e})
  <2>1. Removes(Context(fd), {e}) /\ Context(fd) \in Contexts /\ Context(fd)[1] = fd
    BY <1>1, <1>4, CancelRemoves
  <2>2. InTable(fd) /\ aborted' \in {"no", "cancelEvent"} /\ {e} \in SUBSET AllKinds
    BY <1>1, <1>4 DEF CancelEvent
  <2>3. e \in events[Context(fd)] /\ pending' = pending - 1
    BY <1>4 DEF CancelEvent
  <2>4. Cardinality({e}) = 1
    BY FS_Singleton
  <2> QED
    BY <1>2, <2>1, <2>2, <2>3, <2>4
<1>5. ASSUME NEW c \in Callers, NEW fd \in Fds, CancelAll(c, fd), fd # size
      PROVE  /\ Removes(Context(fd), events[Context(fd)]) /\ Context(fd) \in Contexts
             /\ Context(fd)[2] = 1 /\ UNCHANGED aborted
             /\ events[Context(fd)] \in SUBSET AllKinds
             /\ pending' = pending - Cardinality(events[Context(fd)])
  <2>1. Removes(Context(fd), events[Context(fd)]) /\ Context(fd) \in Contexts
    BY <1>5, CancelRemoves
  <2>2. events[Context(fd)] \in SUBSET AllKinds
    BY <2>1, FdsAssumption DEF TypeInv, TypeOK
  <2>3. /\ events[Context(fd)] # {} /\ UNCHANGED aborted
        /\ pending' = pending - Cardinality(events[Context(fd)])
    BY <1>5 DEF CancelAll
  <2> QED
    BY <1>2, <2>1, <2>2, <2>3
<1>6. ASSUME NEW p \in Pollers, NEW r \in reports[p], Deliver(p, r), ~Abort("triggerEvent")
      PROVE  /\ r.x \in Contexts /\ RealEvents(r.mask) \in SUBSET AllKinds
             /\ Removes(r.x, RealEvents(r.mask)) /\ r.x[2] = 1 /\ UNCHANGED aborted
             /\ RealEvents(r.mask) \subseteq events[r.x]
             /\ pending' = pending - Cardinality(RealEvents(r.mask))
  <2>1. UNCHANGED aborted
    BY <1>6 DEF Deliver
  <2> QED
    BY <1>2, <1>6, <2>1, DeliverRemoves
<1>7. ASSUME NEW c \in Callers, NEW fd \in Fds, CancelAll(c, fd), fd = size
      PROVE  Abort("out of bounds") /\ "cancelAll" \in Operations /\ size \in Fds
  BY <1>7 DEF CancelAll
<1>8. CASE \E c \in Callers, fd \in Removable : \E e \in KindsOf(fd) : DelEvent(c, fd, e)
  <2>1. PICK c \in Callers, fd \in Removable : \E e \in KindsOf(fd) : DelEvent(c, fd, e)
    BY <1>8
  <2>2. PICK e \in KindsOf(fd) : DelEvent(c, fd, e)
    BY <2>1
  <2>3. {e} \in SUBSET AllKinds
    BY <1>1
  <2> QED
    BY <1>3, <2>2, <2>3
<1>9. CASE \E c \in Callers, fd \in Removable : \E e \in KindsOf(fd) : CancelEvent(c, fd, e)
  <2>1. PICK c \in Callers, fd \in Removable : \E e \in KindsOf(fd) : CancelEvent(c, fd, e)
    BY <1>9
  <2>2. PICK e \in KindsOf(fd) : CancelEvent(c, fd, e)
    BY <2>1
  <2>3. {e} \in SUBSET AllKinds
    BY <1>1
  <2> QED
    BY <1>4, <2>2, <2>3
<1>10. CASE \E c \in Callers, fd \in Fds : CancelAll(c, fd)
  BY <1>5, <1>7, <1>10
<1>11. CASE \E p \in Pollers : \E r \in reports[p] : Deliver(p, r)
  BY <1>6, <1>11
<1> QED
  BY <1>8, <1>9, <1>10, <1>11

(* A quiet step: reports and the kernel's readiness change.                *)
LEMMA Quiet ==
  ASSUME \/ \E p \in Pollers : Poll(p) \/ \E r \in reports[p] : Skip(p, r)
         \/ Kernel \/ UNCHANGED vars
  PROVE  UNCHANGED <<size, made, events, waiter, pending, call, interest, target, aborted,
                     scheduled, dropped>>
  BY DEF Poll, Skip, Kernel, BecomeReady, Consume, HangUp, vars, tableVars, kernelVars

LEMMA Aborts ==
  ASSUME NEW what, Abort(what)
  PROVE  UNCHANGED <<size, made, events, waiter, pending, call, interest, target,
                     scheduled, dropped>> /\ aborted' = what
  BY DEF Abort, tableVars, kernelVars

LEMMA TableStep == RoomForAll /\ TypeInv /\ TableInv /\ [Next]_vars => TableInv'
<1> SUFFICES ASSUME RoomForAll, TypeInv, TableInv, [Next]_vars PROVE TableInv'
  OBVIOUS
<1>1. \A fd \in Fds : KindsOf(fd) \subseteq Kinds
  BY DEF KindsOf
<1>2. CASE UNCHANGED <<size, made, events, call>>
  BY <1>2, TableStays
<1> QED
  BY <1>1, <1>2, Steps, TableLook, TableResize, TableRegister, Removals, TableRemove, Quiet, Aborts

(* No resize makes the table smaller than a descriptor that is in use.     *)
LEMMA BoundsStep ==
  RoomForAll /\ NoneBehindTable /\ TypeInv /\ TableInv /\ InBounds /\ [Next]_vars => InBounds'
<1> SUFFICES ASSUME RoomForAll, NoneBehindTable, TypeInv, TableInv, InBounds, [Next]_vars
             PROVE  InBounds'
  OBVIOUS
<1>1. "cancelAll" \in Operations => size \notin Fds
  BY DEF NoneBehindTable, TableInv, SizeKnown
<1>2. CASE UNCHANGED aborted
  BY <1>2 DEF InBounds
<1>3. CASE aborted' \in {aborted, "no", "cancelEvent", "triggerEvent"}
  BY <1>3 DEF InBounds
<1>4. ASSUME NEW c \in Callers, NEW fd \in Fds, NEW w \in Waiters, NEW e \in KindsOf(fd),
             AddLook(c, fd, e, w)
      PROVE  UNCHANGED aborted
  BY <1>4 DEF AddLook
<1> QED
  BY <1>1, <1>2, <1>3, <1>4, Steps, TableResize, TableRegister, Removals, Quiet, Aborts

(* Whoever resizes the table, delEvent() and the cancelling calls find a   *)
(* registered event again, and none of them looks beyond the table's end:  *)
(* while the descriptors in use fit into every size a resize leaves.       *)
THEOREM RegisteredFound ==
  ASSUME RoomForAll, NoneBehindTable
  PROVE  Spec => []RegisteredInTable
<1>1. TypeInv /\ TableInv /\ InBounds => RegisteredInTable
  <2> SUFFICES ASSUME TypeInv, TableInv, InBounds, NEW x \in Contexts, events[x] # {}
               PROVE  InTable(x[1]) /\ x = Context(x[1])
    BY DEF RegisteredInTable, InBounds
  <2>1. x[1] \in Fds \ Refused /\ InTable(x[1]) /\ x[2] = 1 /\ x = <<x[1], x[2]>>
    BY DEF TableInv, InPlace, Contexts
  <2>2. made[x[1]] = 1
    BY <2>1 DEF TableInv
  <2> QED
    BY <2>1, <2>2 DEF Context
<1>2. RoomForAll /\ NoneBehindTable
  OBVIOUS
<1>3. Init => TypeInv /\ TableInv /\ InBounds
  BY TypingInit, TableInit
<1>4. TypeInv /\ TableInv /\ InBounds /\ [Next]_vars => (TypeInv /\ TableInv /\ InBounds)'
  BY <1>2, TypingStep, TableStep, BoundsStep
<1> QED
  BY <1>1, <1>3, <1>4, PTL DEF Spec

-----------------------------------------------------------------------------
(* What epoll watches.                                                     *)

LEMMA WatchedInit == Init => RegisteredIsWatched
<1> SUFFICES ASSUME Init, NEW x \in Contexts, NEW e \in AllKinds
             PROVE  /\ e \in events[x] <=> waiter[x][e] # NoWaiter
                    /\ e \in events[x] <=> e \in interest[x[1]] /\ target[x[1]] = x[2]
  BY DEF RegisteredIsWatched
<1>1. x[1] \in Fds
  BY DEF Contexts
<1>2. events[x] = {} /\ waiter[x][e] = NoWaiter /\ interest[x[1]] = {}
  BY <1>1 DEF Init
<1> QED
  BY <1>2

(* When one context of a descriptor, the only one with events, comes to    *)
(* have the events that epoll is told to watch, and waiters for those.     *)
LEMMA WatchedMoves ==
  ASSUME TypeInv, TableInv, RegisteredIsWatched,
         NEW x \in Contexts, x[2] = 1, NEW watched \in SUBSET Kinds,
         Watch(x[1], x, watched),
         events' = [events EXCEPT ![x] = watched],
         \A y \in Contexts, f \in AllKinds : y # x => waiter'[y][f] = waiter[y][f],
         \A f \in AllKinds : f \in watched <=> waiter'[x][f] # NoWaiter
  PROVE  RegisteredIsWatched'
<1>1. x[1] \in Fds /\ x = <<x[1], x[2]>>
  BY DEF Contexts
<1>2. /\ interest' = [interest EXCEPT ![x[1]] = watched]
      /\ target' = [target EXCEPT ![x[1]] = x[2]]
  BY DEF Watch
<1>3. /\ interest'[x[1]] = watched /\ target'[x[1]] = x[2] /\ events'[x] = watched
      /\ \A y \in Contexts : y # x => events'[y] = events[y]
      /\ \A fd \in Fds : fd # x[1] => interest'[fd] = interest[fd] /\ target'[fd] = target[fd]
  BY <1>1, <1>2 DEF TypeInv, TypeOK
<1> SUFFICES ASSUME NEW y \in Contexts, NEW f \in AllKinds
             PROVE  /\ f \in events'[y] <=> waiter'[y][f] # NoWaiter
                    /\ f \in events'[y] <=> f \in interest'[y[1]] /\ target'[y[1]] = y[2]
  BY DEF RegisteredIsWatched
<1>4. CASE y = x
  BY <1>3, <1>4
<1>5. CASE y # x
  <2>1. f \in events'[y] <=> waiter'[y][f] # NoWaiter
    BY <1>3, <1>5 DEF RegisteredIsWatched
  <2>2. y[1] \in Fds /\ y = <<y[1], y[2]>>
    BY DEF Contexts
  <2>3. CASE y[1] # x[1]
    BY <1>3, <1>5, <2>1, <2>2, <2>3 DEF RegisteredIsWatched
  <2>4. CASE y[1] = x[1]
    <3>1. y[2] # 1
      BY <1>1, <1>5, <2>2, <2>4
    <3>2. events[y] = {}
      BY <3>1 DEF TableInv, InPlace
    <3> QED
      BY <1>3, <1>5, <2>1, <2>4, <3>1, <3>2
  <2> QED
    BY <2>3, <2>4
<1> QED
  BY <1>4, <1>5

LEMMA WatchedRegister ==
  ASSUME TypeInv, TableInv, RegisteredIsWatched, NEW c \in Callers, AddRegister(c)
  PROVE  RegisteredIsWatched'
<1>1. call[c] \in Calls /\ call[c].step = "register"
  BY DEF AddRegister, TypeInv, TypeOK
<1>2. PICK fd \in Fds, e \in Kinds, w \in Waiters, x \in Contexts :
        fd = call[c].fd /\ e = call[c].e /\ w = call[c].w /\ x = call[c].x
  BY <1>1, CallFields
<1>3. CASE UNCHANGED <<kernelVars, events, waiter>>
  BY <1>3 DEF RegisteredIsWatched, kernelVars
<1>4. CASE /\ CtlSucceeds(IF events[x] = {} THEN "ADD" ELSE "MOD", fd)
           /\ Watch(fd, x, events[x] \cup {e})
           /\ events' = [events EXCEPT ![x] = @ \cup {e}]
           /\ waiter' = [waiter EXCEPT ![x][e] = w]
  <2>1. fd \notin Refused
    BY <1>4 DEF CtlSucceeds
  <2>2. x = <<fd, 1>>
    BY <1>1, <1>2, <2>1 DEF TableInv, CallKnown
  <2>3. events[x] \cup {e} \in SUBSET Kinds /\ events' = [events EXCEPT ![x] = events[x] \cup {e}]
    BY <1>4 DEF TypeInv, TypeOK
  <2>4. \A y \in Contexts, f \in AllKinds :
          waiter'[y][f] = IF y = x /\ f = e THEN w ELSE waiter[y][f]
    <3>1. /\ waiter \in [Contexts -> [AllKinds -> Waiters \cup {NoWaiter}]]
          /\ waiter' = [waiter EXCEPT ![x][e] = w] /\ e \in AllKinds
      BY <1>4, FdsAssumption DEF TypeInv, TypeOK
    <3> QED
      BY ONLY <3>1
  <2>5. w # NoWaiter
    BY FdsAssumption
  <2>6. \A f \in AllKinds : f \in events[x] \cup {e} <=> waiter'[x][f] # NoWaiter
    BY <2>4, <2>5 DEF RegisteredIsWatched
  <2>7. Watch(x[1], x, events[x] \cup {e}) /\ x[2] = 1
    BY <1>4, <2>2
  <2> QED
    BY <2>3, <2>4, <2>6, <2>7, WatchedMoves
<1> QED
  BY <1>2, <1>3, <1>4 DEF AddRegister

LEMMA WatchedRemove ==
  ASSUME TypeInv, TableInv, RegisteredIsWatched,
         NEW x \in Contexts, NEW es \in SUBSET AllKinds, Removes(x, es), x[2] = 1
  PROVE  RegisteredIsWatched'
<1>1. /\ Watch(x[1], x, events[x] \ es)
      /\ events' = [events EXCEPT ![x] = events[x] \ es]
      /\ waiter' = [waiter EXCEPT ![x] = [f \in AllKinds |-> IF f \in es THEN NoWaiter ELSE waiter[x][f]]]
  BY DEF Removes, Trigger
<1>2. \A y \in Contexts, f \in AllKinds :
        waiter'[y][f] = IF y = x /\ f \in es THEN NoWaiter ELSE waiter[y][f]
  <2>1. waiter \in [Contexts -> [AllKinds -> Waiters \cup {NoWaiter}]]
    BY DEF TypeInv, TypeOK
  <2> QED
    BY ONLY <1>1, <2>1
<1>3. \A f \in AllKinds : f \in events[x] \ es <=> waiter'[x][f] # NoWaiter
  BY <1>2 DEF RegisteredIsWatched
<1> DEFINE watched == events[x] \ es
<1>4. watched \in SUBSET Kinds
  BY DEF TypeInv, TypeOK
<1>5. /\ Watch(x[1], x, watched) /\ events' = [events EXCEPT ![x] = watched]
      /\ \A f \in AllKinds : f \in watched <=> waiter'[x][f] # NoWaiter
  BY <1>1, <1>3
<1>6. \A y \in Contexts, f \in AllKinds : y # x => waiter'[y][f] = waiter[y][f]
  BY <1>2
<1> HIDE DEF watched
<1> QED
  BY <1>4, <1>5, <1>6, WatchedMoves

LEMMA WatchedStep ==
  TypeInv /\ TableInv /\ RegisteredIsWatched /\ [Next]_vars => RegisteredIsWatched'
<1> SUFFICES ASSUME TypeInv, TableInv, RegisteredIsWatched, [Next]_vars
             PROVE  RegisteredIsWatched'
  OBVIOUS
<1>1. CASE UNCHANGED <<events, waiter, interest, target>>
  BY <1>1 DEF RegisteredIsWatched
<1>2. ASSUME NEW c \in Callers, NEW fd \in Fds, NEW w \in Waiters, NEW e \in KindsOf(fd),
             AddLook(c, fd, e, w)
      PROVE  UNCHANGED <<events, waiter, interest, target>>
  BY <1>2 DEF AddLook, kernelVars
<1>3. ASSUME NEW c \in Callers, AddResize(c)
      PROVE  UNCHANGED <<events, waiter, interest, target>>
  BY <1>3 DEF AddResize, kernelVars
<1> QED
  BY <1>1, <1>2, <1>3, Steps, WatchedRegister, Removals, WatchedRemove, Quiet, Aborts

(* epoll watches a descriptor for exactly the events that are registered,  *)
(* on behalf of the context that holds their waiters: no order of          *)
(* addEvent(), delEvent(), cancelling and delivered reports takes the      *)
(* kernel's set and the table apart.                                       *)
THEOREM WatchedExactly ==
  ASSUME RoomForAll
  PROVE  Spec => []RegisteredIsWatched
<1>1. RoomForAll
  OBVIOUS
<1>2. Init => TypeInv /\ TableInv /\ RegisteredIsWatched
  BY TypingInit, TableInit, WatchedInit
<1>3. TypeInv /\ TableInv /\ RegisteredIsWatched /\ [Next]_vars
        => (TypeInv /\ TableInv /\ RegisteredIsWatched)'
  BY <1>1, TypingStep, TableStep, WatchedStep
<1> QED
  BY <1>2, <1>3, PTL DEF Spec

-----------------------------------------------------------------------------
(* The count of pending events.                                            *)

(* The registered events of some kinds of one context, and their number.   *)
LEMMA EventsOfContext ==
  ASSUME NEW x \in Contexts, NEW es \in SUBSET AllKinds
  PROVE  IsFiniteSet({x} \X es) /\ Cardinality({x} \X es) = Cardinality(es)
<1>1. IsFiniteSet({x}) /\ Cardinality({x}) = 1
  BY FS_Singleton
<1>2. IsFiniteSet(es) /\ Cardinality(es) \in Nat
  BY KindsCounted
<1>3. /\ IsFiniteSet({x} \X es)
      /\ Cardinality({x} \X es) = Cardinality({x}) * Cardinality(es)
  BY <1>1, <1>2, FS_Product
<1> QED
  BY <1>1, <1>2, <1>3

(* Registering an event that is not registered adds one, removing some     *)
(* that are registered takes as many away.                                 *)
LEMMA RegisteredGrows ==
  ASSUME TypeInv, IsFiniteSet(Registered), NEW x \in Contexts, NEW e \in AllKinds,
         e \notin events[x], events' = [events EXCEPT ![x] = @ \cup {e}]
  PROVE  IsFiniteSet(Registered') /\ Cardinality(Registered') = Cardinality(Registered) + 1
<1>1. Registered' = Registered \cup {<<x, e>>}
  <2>1. \A y \in Contexts : events'[y] = IF y = x THEN events[x] \cup {e} ELSE events[y]
    BY DEF TypeInv, TypeOK
  <2>2. ASSUME NEW r \in Contexts \X AllKinds
        PROVE  r[2] \in events'[r[1]] <=> r[2] \in events[r[1]] \/ r = <<x, e>>
    <3>1. r[1] \in Contexts /\ r = <<r[1], r[2]>>
      OBVIOUS
    <3>2. r = <<x, e>> <=> r[1] = x /\ r[2] = e
      BY <3>1
    <3> QED
      BY <2>1, <3>1, <3>2
  <2>3. <<x, e>> \in Contexts \X AllKinds
    OBVIOUS
  <2> QED
    BY <2>2, <2>3 DEF Registered
<1>2. <<x, e>> \notin Registered
  BY DEF Registered
<1> QED
  BY <1>1, <1>2, FS_AddElement

LEMMA RegisteredShrinks ==
  ASSUME TypeInv, IsFiniteSet(Registered), NEW x \in Contexts, NEW es \in SUBSET AllKinds,
         es \subseteq events[x], events' = [events EXCEPT ![x] = @ \ es]
  PROVE  /\ IsFiniteSet(Registered')
         /\ Cardinality(Registered') = Cardinality(Registered) - Cardinality(es)
<1>1. Registered' = Registered \ ({x} \X es)
  <2>1. \A y \in Contexts : events'[y] = IF y = x THEN events[x] \ es ELSE events[y]
    BY DEF TypeInv, TypeOK
  <2>2. ASSUME NEW r \in Contexts \X AllKinds
        PROVE  r[2] \in events'[r[1]] <=> r[2] \in events[r[1]] /\ r \notin {x} \X es
    <3>1. r[1] \in Contexts /\ r = <<r[1], r[2]>>
      OBVIOUS
    <3>2. r \in {x} \X es <=> r[1] = x /\ r[2] \in es
      BY <3>1
    <3> QED
      BY <2>1, <3>1, <3>2
  <2> QED
    BY <2>2 DEF Registered
<1>2. Registered \cap ({x} \X es) = {x} \X es
  BY DEF Registered
<1>3. /\ IsFiniteSet(Registered')
      /\ Cardinality(Registered') = Cardinality(Registered) - Cardinality(Registered \cap ({x} \X es))
  BY <1>1, FS_Difference
<1>4. Cardinality({x} \X es) = Cardinality(es)
  BY EventsOfContext
<1> QED
  BY <1>2, <1>3, <1>4

LEMMA CountInit == Init => CountInv
<1> SUFFICES ASSUME Init PROVE CountInv
  OBVIOUS
<1>1. \A x \in Contexts : events[x] = {}
  BY DEF Init
<1>2. Registered = {} /\ pending = 0
  BY <1>1 DEF Registered, Init
<1>3. \A c \in Callers : call[c].step = "none"
  BY DEF Init, NoCall
<1> QED
  BY <1>1, <1>2, <1>3, FS_EmptySet DEF CountInv, Distinct, Adding

LEMMA DistinctStays ==
  ASSUME CountInv, \A x \in Contexts : events'[x] \subseteq events[x],
         \A c \in Callers : Adding(c)' =>
           Adding(c) /\ call'[c].fd = call[c].fd /\ call'[c].e = call[c].e
  PROVE  /\ \A x \in Contexts : events'[x] \subseteq KindsOf(x[1])
         /\ \A c \in Callers : Distinct(c)'
<1>1. \A c \in Callers : Distinct(c)
  BY DEF CountInv
<1>2. ASSUME NEW c \in Callers, Adding(c)'
      PROVE  /\ call'[c].e \in KindsOf(call'[c].fd)
             /\ \A x \in Contexts : x[1] = call'[c].fd => call'[c].e \notin events'[x]
             /\ \A d \in Callers : d # c /\ Adding(d)' =>
                  <<call'[d].fd, call'[d].e>> # <<call'[c].fd, call'[c].e>>
  BY <1>1, <1>2 DEF Distinct
<1> QED
  BY <1>2 DEF CountInv, Distinct, KindsOf

(* A step that registers nothing.                                          *)
LEMMA CountStays ==
  ASSUME CountInv, UNCHANGED <<events, pending>>, Running' => Running,
         \A c \in Callers : Adding(c)' =>
           Adding(c) /\ call'[c].fd = call[c].fd /\ call'[c].e = call[c].e
  PROVE  CountInv'
<1>1. UNCHANGED Registered
  BY DEF Registered
<1>2. /\ \A x \in Contexts : events'[x] \subseteq KindsOf(x[1])
      /\ \A c \in Callers : Distinct(c)'
  BY DistinctStays
<1> QED
  BY <1>1, <1>2 DEF CountInv

LEMMA CountLook ==
  ASSUME TypeInv, CountInv, NEW c \in Callers,
         NEW fd \in Fds, NEW e \in KindsOf(fd), NEW w \in Waiters, AddLook(c, fd, e, w)
  PROVE  CountInv'
<1>1. UNCHANGED <<events, pending, aborted>>
  BY DEF AddLook
<1>2. /\ call'[c].fd = fd /\ call'[c].e = e
      /\ \A d \in Callers : d # c => call'[d] = call[d]
  BY DEF AddLook, TypeInv, TypeOK
<1>3. /\ \A x \in Contexts : x[1] = fd => e \notin events[x]
      /\ \A d \in Callers : Adding(d) => <<call[d].fd, call[d].e>> # <<fd, e>>
  BY DEF AddLook, Adding
<1>4. UNCHANGED Registered
  BY <1>1 DEF Registered
<1>5. ASSUME NEW d \in Callers
      PROVE  Distinct(d)'
  <2>1. CASE d = c
    BY <1>1, <1>2, <1>3, <2>1 DEF Distinct, Adding, KindsOf
  <2>2. CASE d # c
    <3> SUFFICES ASSUME Adding(d)'
                 PROVE  /\ call'[d].e \in KindsOf(call'[d].fd)
                        /\ \A x \in Contexts : x[1] = call'[d].fd => call'[d].e \notin events'[x]
                        /\ \A b \in Callers : b # d /\ Adding(b)' =>
                             <<call'[b].fd, call'[b].e>> # <<call'[d].fd, call'[d].e>>
      BY DEF Distinct, KindsOf
    <3>1. Distinct(d) /\ Adding(d)
      BY <1>2, <2>2 DEF CountInv, Adding
    <3>2. \A b \in Callers : b # c => Adding(b)' = Adding(b)
      BY <1>2 DEF Adding
    <3> QED
      BY <1>1, <1>2, <1>3, <2>2, <3>1, <3>2 DEF Distinct
  <2> QED
    BY <2>1, <2>2
<1> QED
  BY <1>1, <1>4, <1>5 DEF CountInv, Running, KindsOf

LEMMA CountRegister ==
  ASSUME TypeInv, TableInv, CountInv, NEW c \in Callers, AddRegister(c)
  PROVE  CountInv'
<1>1. call[c] \in Calls /\ call[c].step = "register" /\ UNCHANGED aborted
  BY DEF AddRegister, TypeInv, TypeOK
<1>2. PICK fd \in Fds, e \in Kinds, x \in Contexts :
        fd = call[c].fd /\ e = call[c].e /\ x = call[c].x
  BY <1>1, CallFields
<1>3. /\ call' = [call EXCEPT ![c] = NoCall]
      /\ \A d \in Callers : Adding(d)' => d # c /\ Adding(d) /\ call'[d] = call[d]
  BY DEF AddRegister, TypeInv, TypeOK, Adding, NoCall
<1>4. CASE UNCHANGED <<pending, events>>
  BY <1>1, <1>3, <1>4, CountStays DEF Running
<1>5. CASE /\ fd \notin Refused /\ pending' = pending + 1
           /\ events' = [events EXCEPT ![x] = @ \cup {e}]
  <2>1. x = <<fd, 1>>
    BY <1>1, <1>2, <1>5 DEF TableInv, CallKnown
  <2>2. Distinct(c) /\ Adding(c)
    BY <1>1 DEF CountInv, Adding
  <2>3. e \in KindsOf(fd) /\ e \notin events[x] /\ e \in AllKinds
    BY <1>2, <2>1, <2>2, FdsAssumption DEF Distinct
  <2>4. IsFiniteSet(Registered') /\ Cardinality(Registered') = Cardinality(Registered) + 1
    BY <1>5, <2>3, RegisteredGrows DEF CountInv
  <2>5. \A y \in Contexts : events'[y] = IF y = x THEN events[x] \cup {e} ELSE events[y]
    BY <1>5 DEF TypeInv, TypeOK
  <2>6. \A y \in Contexts : events'[y] \subseteq KindsOf(y[1])
    BY <2>1, <2>3, <2>5 DEF CountInv
  <2>7. ASSUME NEW d \in Callers, Adding(d)'
        PROVE  /\ call'[d].e \in KindsOf(call'[d].fd)
               /\ \A y \in Contexts : y[1] = call'[d].fd => call'[d].e \notin events'[y]
               /\ \A b \in Callers : b # d /\ Adding(b)' =>
                    <<call'[b].fd, call'[b].e>> # <<call'[d].fd, call'[d].e>>
    <3>1. Distinct(d) /\ Adding(d) /\ d # c /\ call'[d] = call[d]
      BY <1>3, <2>7 DEF CountInv
    <3>2. call[d].fd # fd \/ call[d].e # e
      BY <1>2, <2>2, <3>1 DEF Distinct
    <3>3. \A y \in Contexts : y[1] = call[d].fd => call[d].e \notin events'[y]
      BY <2>1, <2>5, <3>1, <3>2 DEF Distinct
    <3> QED
      BY <1>3, <3>1, <3>3 DEF Distinct
  <2>8. \A d \in Callers : Distinct(d)'
    BY <2>7 DEF Distinct, KindsOf
  <2>9. Running' => pending' = Cardinality(Registered')
    BY <1>1, <1>5, <2>4 DEF CountInv, Running
  <2> QED
    BY <2>4, <2>6, <2>8, <2>9 DEF CountInv, KindsOf
<1> QED
  BY <1>2, <1>4, <1>5 DEF AddRegister, CtlSucceeds

(* delEvent() on a descriptor that has one event at most: epoll_ctl(DEL)   *)
(* succeeds only if it is registered.                                      *)
LEMMA DelRegistered ==
  ASSUME OneKindRemoved, TypeInv, TableInv, RegisteredIsWatched, CountInv,
         NEW c \in Callers, NEW fd \in Removable, NEW e \in KindsOf(fd), DelEvent(c, fd, e),
         NEW x \in Contexts, x[1] = fd, x[2] = 1, Removes(x, {e})
  PROVE  {e} \subseteq events[x]
<1>1. \A f \in KindsOf(fd) : f = e
  BY DEF OneKindRemoved, DelEvent
<1>2. events[x] \ {e} = {}
  BY <1>1 DEF CountInv
<1>3. interest[fd] # {}
  BY <1>2 DEF Removes, CtlSucceeds, CtlFor
<1>4. fd \in Fds /\ target[fd] \in 1..MaxContexts /\ interest[fd] \subseteq AllKinds
  BY FdsAssumption DEF TypeInv, TypeOK
<1>5. PICK f \in AllKinds : f \in interest[fd]
  BY <1>3, <1>4
<1> DEFINE y == <<fd, target[fd]>>
<1>6. y \in Contexts /\ y[1] = fd /\ y[2] = target[fd]
  BY <1>4 DEF Contexts
<1>7. f \in events[y]
  BY <1>5, <1>6 DEF RegisteredIsWatched
<1>8. y[2] = 1
  BY <1>6, <1>7 DEF TableInv, InPlace
<1>9. y = x
  BY <1>6, <1>8 DEF Contexts
<1> QED
  BY <1>2, <1>7, <1>9

LEMMA CountRemove ==
  ASSUME TypeInv, CountInv, NEW x \in Contexts, NEW es \in SUBSET AllKinds, Removes(x, es),
         es \subseteq events[x], pending' = pending - Cardinality(es), Running
  PROVE  CountInv'
<1>1. UNCHANGED call /\ events' = [events EXCEPT ![x] = @ \ es]
  BY DEF Removes, Trigger
<1>2. /\ IsFiniteSet(Registered')
      /\ Cardinality(Registered') = Cardinality(Registered) - Cardinality(es)
  BY <1>1, RegisteredShrinks DEF CountInv
<1>3. \A y \in Contexts : events'[y] \subseteq events[y]
  BY <1>1 DEF TypeInv, TypeOK
<1>4. /\ \A y \in Contexts : events'[y] \subseteq KindsOf(y[1])
      /\ \A c \in Callers : Distinct(c)'
  BY <1>1, <1>3, DistinctStays DEF Adding
<1>5. pending' = Cardinality(Registered')
  BY <1>2 DEF CountInv
<1> QED
  BY <1>2, <1>4, <1>5 DEF CountInv, KindsOf

LEMMA CountStep ==
  ASSUME OneKindRemoved
  PROVE  TypeInv /\ TableInv /\ RegisteredIsWatched /\ CountInv /\ [Next]_vars => CountInv'
<1> SUFFICES ASSUME TypeInv, TableInv, RegisteredIsWatched, CountInv, [Next]_vars
             PROVE  CountInv'
  OBVIOUS
<1>1. ASSUME UNCHANGED <<events, pending, call>>, UNCHANGED aborted \/ ~Running'
      PROVE  CountInv'
  <2>1. Running' => Running
    BY <1>1 DEF Running
  <2>2. UNCHANGED <<events, pending>>
    BY <1>1
  <2>3. \A c \in Callers : Adding(c)' =>
          Adding(c) /\ call'[c].fd = call[c].fd /\ call'[c].e = call[c].e
    BY <1>1 DEF Adding
  <2> QED
    BY <2>1, <2>2, <2>3, CountStays
<1>2. ASSUME NEW c \in Callers, AddResize(c)
      PROVE  CountInv'
  <2>1. UNCHANGED <<events, pending>> /\ Running
    BY <1>2 DEF AddResize
  <2>2. \/ UNCHANGED call
        \/ \E x : call' = [call EXCEPT ![c] =
             [step |-> "register", fd |-> call[c].fd, e |-> call[c].e, w |-> call[c].w, x |-> x]]
    BY <1>2 DEF AddResize
  <2>3. call[c].step # "none" /\ call \in [Callers -> Calls]
    BY <1>2 DEF AddResize, TypeInv, TypeOK
  <2>4. \A d \in Callers : Adding(d)' =>
          Adding(d) /\ call'[d].fd = call[d].fd /\ call'[d].e = call[d].e
    BY <2>2, <2>3 DEF Adding
  <2> QED
    BY <2>1, <2>4, CountStays
<1>3. ASSUME NEW what \in {"out of bounds", "triggerEvent"}, Abort(what)
      PROVE  CountInv'
  <2>1. UNCHANGED <<events, pending, call>> /\ ~Running'
    BY <1>3, Aborts DEF Running
  <2> QED
    BY <1>1, <2>1
<1>4. ASSUME \/ \E c \in Callers, fd \in Removable : \E e \in KindsOf(fd) :
                  DelEvent(c, fd, e) \/ CancelEvent(c, fd, e)
             \/ \E c \in Callers, fd \in Fds : CancelAll(c, fd)
             \/ \E p \in Pollers : \E r \in reports[p] : Deliver(p, r)
      PROVE  CountInv'
  <2>1. Running
    BY <1>4 DEF DelEvent, CancelEvent, CancelAll, Deliver
  <2>2. ASSUME NEW x \in Contexts, NEW es \in SUBSET AllKinds, Removes(x, es), x[2] = 1,
               NEW c \in Callers, NEW fd \in Removable, NEW e \in KindsOf(fd),
               DelEvent(c, fd, e), x[1] = fd, es = {e}
        PROVE  CountInv'
    <3>1. {e} \subseteq events[x]
      BY <2>2, DelRegistered
    <3>2. pending' = pending - Cardinality({e})
      <4>1. Cardinality({e}) = 1
        BY FS_Singleton
      <4> QED
        BY <2>2, <4>1 DEF DelEvent
    <3> QED
      BY <2>1, <2>2, <3>1, <3>2, CountRemove
  <2> QED
    BY <1>3, <1>4, <2>1, <2>2, Removals, CountRemove
<1>5. CASE \/ \E p \in Pollers : Poll(p) \/ \E r \in reports[p] : Skip(p, r)
           \/ Kernel \/ UNCHANGED vars
  BY <1>1, <1>5, Quiet
<1>6. \A fd \in Fds : KindsOf(fd) \subseteq Kinds
  BY DEF KindsOf
<1> QED
  BY <1>2, <1>4, <1>5, Steps, CountLook, CountRegister

(* m_pendingEventCount is the number of registered events after every      *)
(* call, cancellation and delivered report, so that stopped() waits for    *)
(* exactly those: where delEvent() is used for the only event that its     *)
(* descriptor can have.                                                    *)
THEOREM CountedExactly ==
  ASSUME RoomForAll, OneKindRemoved
  PROVE  Spec => [](PendingExact /\ NoneLeftBehind)
<1>1. TypeInv /\ CountInv => PendingExact /\ NoneLeftBehind
  <2> SUFFICES ASSUME TypeInv, CountInv, Running
               PROVE  pending = Cardinality(Registered) /\ (pending = 0 => Registered = {})
    BY DEF PendingExact, NoneLeftBehind
  <2>1. IsFiniteSet(Registered) /\ pending = Cardinality(Registered)
    BY DEF CountInv
  <2> QED
    BY <2>1, FS_EmptySet
<1>2. Init => TypeInv /\ TableInv /\ RegisteredIsWatched /\ CountInv
  BY TypingInit, TableInit, WatchedInit, CountInit
<1>3. TypeInv /\ TableInv /\ RegisteredIsWatched /\ CountInv /\ [Next]_vars
        => (TypeInv /\ TableInv /\ RegisteredIsWatched /\ CountInv)'
  <2>1. RoomForAll /\ OneKindRemoved
    OBVIOUS
  <2> QED
    BY <2>1, TypingStep, TableStep, WatchedStep, CountStep
<1> QED
  BY <1>1, <1>2, <1>3, PTL DEF Spec


=============================================================================
