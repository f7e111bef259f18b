------------------------------ MODULE IOManager ------------------------------
(***************************************************************************)
(* The scheduler whose idle threads sleep in epoll: what IOManager adds to *)
(* Scheduler by overriding notify(), stopped() and idle().  schedule()     *)
(* pushes under the lock and calls notify() after it; notify() writes to a *)
(* pipe when some thread is idle; an idle thread sleeps in epoll_wait()    *)
(* until the pipe or a descriptor is reported, or for five seconds.        *)
(*                                                                         *)
(* An event is the callback that waits for it; IOEvents has the details of *)
(* the table of events.  The steps of run() and of the jobs are those of   *)
(* Scheduler; a thread takes one only when it has no notify() to call.     *)
(***************************************************************************)
EXTENDS Scheduler

CONSTANTS
  EventJobs,  \* the callbacks given to addEvent(); the others are scheduled
  Pipe        \* the reading end of m_notifyFds

ASSUME EventsAssumption == EventJobs \subseteq Callbacks /\ Pipe \notin Jobs

VARIABLES
  idlePc,     \* where each thread is in idle(), and the owner in the stopped()
              \* that stop() calls
  inHand,     \* what each thread got from epoll_wait() and has not handled
  notes,      \* the calls of notify() that each thread owes
  registered, \* the events registered with epoll
  pending,    \* m_pendingEventCount
  edges       \* epoll's ready list: the pipe and events

eventVars == <<registered, pending>>
ioVars == <<idlePc, inHand, notes, eventVars, edges>>

Actors == Threads \cup {Caller}

IOInit ==
  /\ Init
  /\ idlePc = [t \in Actors |-> "out"]
  /\ inHand = [t \in Threads |-> {}]
  /\ notes = [t \in Actors |-> 0]
  /\ registered = {}
  /\ pending = 0
  /\ edges = {}

-----------------------------------------------------------------------------
(* schedule(): notify() is called after the push, if the queue was empty.  *)
Pushed(a) == notes' = [notes EXCEPT ![a] = IF queue = <<>> THEN 1 ELSE 0]

(* notify(): it reads m_idleThreadCount and writes one byte.  A byte that  *)
(* nobody needs only wakes a thread, as the timeout does.                  *)
Notify(a) ==
  /\ notes[a] > 0
  /\ notes' = [notes EXCEPT ![a] = @ - 1]
  /\ edges' = IF \E t \in Threads : pc[t] = "idle" THEN edges \cup {Pipe} ELSE edges
  /\ UNCHANGED <<vars, idlePc, inHand, eventVars>>

(* addEvent() with a callback: epoll_ctl(), then the count.                *)
AddEvent(w) ==
  /\ w \in EventJobs \ (registered \cup submitted)
  /\ registered' = registered \cup {w}
  /\ pending' = pending + 1
  /\ UNCHANGED <<vars, idlePc, inHand, notes, edges>>

(* The kernel: what a registered event waits for happens.                  *)
Fire(w) ==
  /\ w \in registered
  /\ edges' = edges \cup {w}
  /\ UNCHANGED <<vars, idlePc, inHand, notes, eventVars>>

-----------------------------------------------------------------------------
(* The owner.  The constructor of IOManager calls start(), so nothing is   *)
(* scheduled before.  addEvent() needs a thread that has a scheduler.      *)

IOStart == Start /\ UNCHANGED ioVars

OwnerCalls ==
  /\ ownerPc = "open" /\ notes[Caller] = 0
  /\ \/ /\ \E j \in Jobs \ EventJobs, u \in OwnerPins : OwnerSchedule(j, u)
        /\ Pushed(Caller)
        /\ UNCHANGED <<idlePc, inHand, eventVars, edges>>
     \/ UseCaller /\ \E w \in EventJobs : AddEvent(w)

(* stop(): the flags, and then a notify() for every thread.                *)
IOStop ==
  /\ ownerPc = "open" /\ notes[Caller] = 0
  /\ autoStop' = TRUE
  /\ isRunning' = FALSE
  /\ IF Workers = {} /\ queue = <<>> /\ active = 0 /\ pending = 0
     THEN ownerPc' = "stopped" /\ UNCHANGED notes
     ELSE /\ ownerPc' = "drain"
          /\ notes' = [notes EXCEPT ![Caller] = Cardinality(Threads)]
  /\ UNCHANGED <<queue, active, loopVars, fiberVars, jobVars, idlePc, inHand, eventVars, edges>>

(* stopped() in stop(): Scheduler::stopped() first, and then the count of  *)
(* pending events.                                                         *)
RootLooks ==
  /\ ownerPc = "drain" /\ notes[Caller] = 0
  /\ UseCaller /\ idlePc[Caller] = "out"
  /\ idlePc' = [idlePc EXCEPT ![Caller] = IF Stopped THEN "pending" ELSE "wait"]
  /\ UNCHANGED <<vars, inHand, notes, eventVars, edges>>

IOEnterRoot ==
  /\ ownerPc = "drain" /\ notes[Caller] = 0
  /\ \/ idlePc[Caller] = "wait"
     \/ idlePc[Caller] = "pending" /\ pending # 0
  /\ pc' = [pc EXCEPT ![Caller] = "scan"]
  /\ ownerPc' = "root"
  /\ idlePc' = [idlePc EXCEPT ![Caller] = "out"]
  /\ UNCHANGED <<queue, active, autoStop, isRunning, ft, cbFiber, idleDone, fiberVars, jobVars,
                 inHand, notes, eventVars, edges>>

IOSkipRoot ==
  /\ ownerPc = "drain" /\ notes[Caller] = 0
  /\ UseCaller => idlePc[Caller] = "pending" /\ pending = 0
  /\ ownerPc' = "join"
  /\ idlePc' = [idlePc EXCEPT ![Caller] = "out"]
  /\ UNCHANGED <<queue, active, autoStop, isRunning, loopVars, fiberVars, jobVars,
                 inHand, notes, eventVars, edges>>

IOJoin == (LeaveRoot \/ Join) /\ UNCHANGED ioVars

-----------------------------------------------------------------------------
(* The steps of run() and of the jobs that Scheduler has.                  *)

(* A scan that passes an entry for another thread ends with a notify().    *)
PassesOver(t, seen) == \E i \in seen : queue[i].thread \notin {AnyThread, t}

IOScan(t) ==
  /\ \/ /\ Take(t)
        /\ LET taken == CHOOSE i \in DOMAIN queue :
                          Runnable(t, queue[i]) /\ \A k \in 1..(i - 1) : ~Runnable(t, queue[k])
           IN  notes' = [notes EXCEPT ![t] = IF PassesOver(t, 1..(taken - 1)) THEN 1 ELSE 0]
     \/ /\ FindNothing(t)
        /\ notes' = [notes EXCEPT ![t] = IF PassesOver(t, DOMAIN queue) THEN 1 ELSE 0]
  /\ UNCHANGED <<idlePc, inHand, eventVars, edges>>

IOSwitch(t) ==
  /\ \/ SwapInFiber(t) \/ DropFinished(t) \/ RunCallback(t) \/ LeaveLoop(t)
     \/ SwapOut(t) \/ Release(t) \/ FindsHold(t) \/ Park(t)
  /\ UNCHANGED ioVars

IORequeue(t) == Requeue(t) /\ Pushed(t) /\ UNCHANGED <<idlePc, inHand, eventVars, edges>>

IOTask(t) ==
  \/ /\ \E j \in Jobs \ EventJobs, u \in TaskPins : TaskSchedule(t, j, u)
     /\ Pushed(t)
     /\ UNCHANGED <<idlePc, inHand, eventVars, edges>>
  \/ (YieldReady(t) \/ YieldHold(t) \/ Finish(t) \/ Throw(t)) /\ UNCHANGED ioVars
  \/ RunsJob(t) /\ \E w \in EventJobs : AddEvent(w)

-----------------------------------------------------------------------------
(* idle().                                                                 *)

InIdle(t, at) == pc[t] = "idle" /\ idlePc[t] = at

IOEnterIdle(t) ==
  /\ EnterIdle(t)
  /\ idlePc' = [idlePc EXCEPT ![t] = "check"]
  /\ UNCHANGED <<inHand, notes, eventVars, edges>>

(* stopped(): first Scheduler::stopped() under m_mutex...                  *)
CheckStopped(t) ==
  /\ InIdle(t, "check")
  /\ idlePc' = [idlePc EXCEPT ![t] = IF Stopped THEN "pending" ELSE "wait"]
  /\ UNCHANGED <<vars, inHand, notes, eventVars, edges>>

Leaves(t) ==
  /\ idleDone' = [idleDone EXCEPT ![t] = TRUE]
  /\ pc' = [pc EXCEPT ![t] = "scan"]
  /\ idlePc' = [idlePc EXCEPT ![t] = "out"]
  /\ UNCHANGED <<queue, active, stopVars, ft, cbFiber, fiberVars, jobVars,
                 inHand, notes, eventVars, edges>>

(* Mutant: stopped() does not ask for pending events.                      *)
CheckPending_Ignored(t) == InIdle(t, "pending") /\ Leaves(t)

(* ... and then the count of pending events, without the lock.             *)
CheckPending(t) ==
  /\ InIdle(t, "pending")
  /\ IF pending = 0
     THEN Leaves(t)
     ELSE /\ idlePc' = [idlePc EXCEPT ![t] = "wait"]
          /\ UNCHANGED <<vars, inHand, notes, eventVars, edges>>

(* epoll_wait() returns what is on the ready list.                         *)
Poll(t) ==
  /\ InIdle(t, "wait") /\ edges # {}
  /\ inHand' = [inHand EXCEPT ![t] = edges]
  /\ edges' = {}
  /\ idlePc' = [idlePc EXCEPT ![t] = "handle"]
  /\ UNCHANGED <<vars, notes, eventVars>>

(* Mutant: epoll_wait() sleeps without a limit.                            *)
Timeout_Never(t) == InIdle(t, "wait") /\ edges # {} /\ UNCHANGED <<vars, ioVars>>

(* Or it returns nothing, after MAX_TIMEOUT.                               *)
Timeout(t) ==
  /\ InIdle(t, "wait") /\ edges = {}
  /\ idlePc' = [idlePc EXCEPT ![t] = "handle"]
  /\ UNCHANGED <<vars, inHand, notes, eventVars, edges>>

(* Reading the pipe until it is empty takes the bytes of later notify()    *)
(* calls too.                                                              *)
Drain(t) ==
  /\ InIdle(t, "handle") /\ Pipe \in inHand[t]
  /\ inHand' = [inHand EXCEPT ![t] = @ \ {Pipe}]
  /\ edges' = edges \ {Pipe}
  /\ UNCHANGED <<vars, idlePc, notes, eventVars>>

(* triggerEvent() schedules the waiter; the count goes down after that.    *)
Deliver(t, w) ==
  /\ InIdle(t, "handle") /\ w \in inHand[t] \cap registered
  /\ Submit(w, AnyThread)
  /\ Pushed(t)
  /\ registered' = registered \ {w}
  /\ inHand' = [inHand EXCEPT ![t] = @ \ {w}]
  /\ idlePc' = [idlePc EXCEPT ![t] = "uncount"]
  /\ UNCHANGED <<active, stopVars, loopVars, fiberVars, ended, yields, pending, edges>>

(* Mutant: a delivered event stays counted.                                *)
Uncount_Not(t) ==
  /\ InIdle(t, "uncount")
  /\ idlePc' = [idlePc EXCEPT ![t] = "handle"]
  /\ UNCHANGED <<vars, inHand, notes, eventVars, edges>>

Uncount(t) ==
  /\ InIdle(t, "uncount")
  /\ pending' = pending - 1
  /\ idlePc' = [idlePc EXCEPT ![t] = "handle"]
  /\ UNCHANGED <<vars, inHand, notes, registered, edges>>

(* Another thread had a report of the same event and was first.            *)
Stale(t, w) ==
  /\ InIdle(t, "handle") /\ w \in inHand[t] \cap (Jobs \ registered)
  /\ inHand' = [inHand EXCEPT ![t] = @ \ {w}]
  /\ UNCHANGED <<vars, idlePc, notes, eventVars, edges>>

(* Mutant: idle() goes back to sleep without a look at the queue.          *)
BackToScan_Not(t) ==
  /\ InIdle(t, "handle") /\ inHand[t] = {}
  /\ idlePc' = [idlePc EXCEPT ![t] = "check"]
  /\ UNCHANGED <<vars, inHand, notes, eventVars, edges>>

(* Mutant: the next round of idle() begins where the last one ended.       *)
BackToScan_InPlace(t) ==
  /\ InIdle(t, "handle")
  /\ pc' = [pc EXCEPT ![t] = "scan"]
  /\ UNCHANGED <<queue, active, stopVars, ft, cbFiber, idleDone, fiberVars, jobVars, ioVars>>

(* swapOut(): the thread is back in run().                                 *)
BackToScan(t) ==
  /\ InIdle(t, "handle") /\ inHand[t] = {}
  /\ pc' = [pc EXCEPT ![t] = "scan"]
  /\ idlePc' = [idlePc EXCEPT ![t] = "out"]
  /\ UNCHANGED <<queue, active, stopVars, ft, cbFiber, idleDone, fiberVars, jobVars,
                 inHand, notes, eventVars, edges>>

-----------------------------------------------------------------------------
IdleStep(t) ==
  \/ IOEnterIdle(t) \/ CheckStopped(t) \/ CheckPending(t) \/ Poll(t) \/ Timeout(t)
  \/ Drain(t) \/ Uncount(t) \/ BackToScan(t)
  \/ \E w \in EventJobs : Deliver(t, w) \/ Stale(t, w)

ThreadStep(t) ==
  \/ Notify(t)
  \/ notes[t] = 0 /\ (IOScan(t) \/ IOSwitch(t) \/ IORequeue(t) \/ IOTask(t) \/ IdleStep(t))

IOStopStep == Notify(Caller) \/ RootLooks \/ IOEnterRoot \/ IOSkipRoot \/ IOJoin

IOTerminated == ownerPc = "stopped" /\ UNCHANGED <<vars, ioVars>>

IONext ==
  \/ IOStart \/ OwnerCalls \/ IOStop \/ IOStopStep
  \/ \E t \in Threads : ThreadStep(t)
  \/ \E w \in EventJobs : Fire(w)
  \/ IOTerminated

IOSpec == IOInit /\ [][IONext]_<<vars, ioVars>>

(* As for Scheduler, and the kernel's timer: a thread does not sleep in    *)
(* epoll_wait() for ever.  Nothing obliges an event to happen.             *)
IOFairness ==
  /\ \A t \in Threads : WF_<<vars, ioVars>>(ThreadStep(t))
  /\ WF_<<vars, ioVars>>(IOStopStep)

IOFairSpec == IOSpec /\ IOFairness

-----------------------------------------------------------------------------
(* What must hold, besides the properties of Scheduler.                    *)

(* The variables of the idle threads have their types, and a thread is     *)
(* inside idle() just when run() says so.                                  *)
IOTypeOK ==
  /\ TypeOK
  /\ idlePc \in [Actors -> {"out", "check", "pending", "wait", "handle", "uncount"}]
  /\ inHand \in [Threads -> SUBSET (EventJobs \cup {Pipe})]
  /\ notes \in [Actors -> 0..Cardinality(Threads)]
  /\ registered \subseteq EventJobs /\ edges \subseteq EventJobs \cup {Pipe}
  /\ \A t \in Threads : pc[t] = "idle" => idlePc[t] # "out"
  /\ \A t \in Workers : idlePc[t] # "out" => pc[t] = "idle"

(* An event that is registered has a thread that will look at epoll again  *)
(* before it leaves run(), and will then find the event: stopped() reads   *)
(* the queue and the count of pending events one after the other, while    *)
(* others deliver, add events and leave.                                   *)
NoOrphanedEvent ==
  registered # {} =>
    \E t \in Threads : /\ ~idleDone[t]
                       /\ pc[t] # "off" \/ ownerPc \in {"new", "open", "drain"}

(* stop() returns only when every job is over or on hold, every event was  *)
(* delivered, and every thread has left.                                   *)
NothingLeft == StopDrains /\ (ownerPc = "stopped" => registered = {})

(* An event that happens has its callback run, by a thread that was asleep *)
(* or busy, whatever other thread got the report too, and during stop().   *)
Happened(w) ==
  w \in registered /\ (w \in edges \/ \E t \in Threads : w \in inHand[t])
EventRuns == \A w \in EventJobs : Happened(w) ~> Runs(w)

(* stop() returns unless an event it waits for never happens: the threads  *)
(* that sleep when it is called find out.                                  *)
StopEnds == <>[](registered = {}) => StopReturns
=============================================================================
