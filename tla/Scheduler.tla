------------------------------ MODULE Scheduler ------------------------------
(***************************************************************************)
(* The coroutine scheduler: a pool of threads, each in the loop            *)
(* Scheduler::run(), that takes callbacks and coroutines from one queue,   *)
(* switches to them, and settles what they left behind when they switch    *)
(* back; Scheduler::start() and stop() on the thread that owns the object; *)
(* and the part of class Fiber the two share, the state of every coroutine.*)
(*                                                                         *)
(* A thread is cut at the points where another thread can see a            *)
(* difference: the queue under m_mutex, the atomic counter of active       *)
(* threads, and every separate read or write of Fiber::m_state, which no   *)
(* lock protects.  A write that no other thread can tell from the next one *)
(* is merged with it.  Logging is left out.                                *)
(***************************************************************************)
EXTENDS Integers, FiniteSets, SequencesExt

CONSTANTS
  Workers,      \* the threads start() creates
  Caller,       \* the thread that owns the scheduler and calls start() and stop()
  UseCaller,    \* the constructor's useCaller: stop() runs the loop in Caller too
  Callbacks,    \* the jobs submitted as a functional object
  Coroutines,   \* the jobs submitted as a coroutine
  Holders,      \* the jobs whose code may call Fiber::yieldToHold()
  Wakers,       \* the jobs whose code may schedule a coroutine that holds, or
                \* the one that runs them
  OwnerPins,    \* what the owner passes as "thread" to schedule()
  TaskPins,     \* what a job passes as "thread" to schedule()
  MaxYields,    \* bound: how often one job yields
  MaxQueue,     \* bound: a coroutine is scheduled again only below this length
  AnyThread,          \* thread == -1: any thread may take the entry
  NoJob         \* an empty std::function, and no coroutine

Jobs == Callbacks \cup Coroutines

(* The threads in the loop run(), one way or the other.                    *)
Threads == Workers \cup (IF UseCaller THEN {Caller} ELSE {})

(* A coroutine object.  The object of a coroutine job has its name; one    *)
(* that run() makes for a callback has the name of the first callback.     *)
Fibers == Jobs

ASSUME ThreadsAssumption ==
  /\ IsFiniteSet(Workers)
  /\ Caller \notin Workers
  /\ UseCaller \in BOOLEAN
  /\ Threads # {}
  /\ AnyThread \notin Workers \cup {Caller}

ASSUME JobsAssumption ==
  /\ Callbacks \cap Coroutines = {}
  /\ NoJob \notin Jobs
  /\ Holders \subseteq Jobs
  /\ Wakers \subseteq Jobs

ASSUME PinsAssumption ==
  /\ OwnerPins \subseteq Threads \cup {AnyThread}
  /\ TaskPins \subseteq Threads \cup {AnyThread}

ASSUME BoundsAssumption == MaxYields \in Nat /\ MaxQueue \in Nat

VARIABLES
  queue,      \* m_fibers
  active,     \* m_activeThreadCount
  autoStop,   \* m_autoStop
  isRunning,  \* m_isRunning
  pc,         \* where each thread of the pool is in run()
  ft,         \* run()'s ft: the entry in hand
  cbFiber,    \* run()'s cbFiber: the coroutine kept for callbacks
  idleDone,   \* whether the thread's idle coroutine has terminated
  fstate,     \* Fiber::m_state of every coroutine
  fjob,       \* Fiber::m_cb of every coroutine
  ownerPc,    \* where the owner is: start(), stop() and between
  submitted,  \* history: the jobs handed to schedule()
  ended,      \* history: the jobs whose code returned or threw
  yields      \* history: how often each job has yielded

loopVars  == <<pc, ft, cbFiber, idleDone>>
fiberVars == <<fstate, fjob>>
stopVars  == <<autoStop, isRunning, ownerPc>>
jobVars   == <<submitted, ended, yields>>
vars == <<queue, active, stopVars, loopVars, fiberVars, jobVars>>

-----------------------------------------------------------------------------
(* Entries of the queue and states of a coroutine.                         *)

Entries == [kind : {"fiber"}, id : Jobs, thread : Threads \cup {AnyThread}]
           \cup [kind : {"cb"}, id : Callbacks, thread : Threads \cup {AnyThread}]
NoEntry == [kind |-> "none", id |-> NoJob, thread |-> AnyThread]

FiberEntry(f, u) == [kind |-> "fiber", id |-> f, thread |-> u]
JobEntry(j, u) ==
  [kind |-> IF j \in Coroutines THEN "fiber" ELSE "cb", id |-> j, thread |-> u]

(* NONE: run() has not created the coroutine of this callback.             *)
FiberStates == {"NONE", "INIT", "HOLD", "EXEC", "TERM", "READY", "EXCEPT"}
Over == {"TERM", "EXCEPT"}
Resettable == {"NONE", "INIT"} \cup Over

(* The coroutine that thread t is switched to, or has just come back from. *)
OnFiber(t) == IF ft[t].kind = "fiber" THEN ft[t].id ELSE cbFiber[t]

(* Mutant: stopped() forgets the queue.                                    *)
Stopped_IgnoresQueue == autoStop /\ ~isRunning /\ active = 0

(* Scheduler::stopped(), evaluated under m_mutex.                          *)
Stopped == autoStop /\ ~isRunning /\ queue = <<>> /\ active = 0

Init ==
  /\ queue = <<>>
  /\ active = 0
  /\ autoStop = FALSE
  /\ isRunning = FALSE
  /\ pc = [t \in Threads |-> "off"]
  /\ ft = [t \in Threads |-> NoEntry]
  /\ cbFiber = [t \in Threads |-> NoJob]
  /\ idleDone = [t \in Threads |-> FALSE]
  /\ fstate = [f \in Fibers |-> IF f \in Coroutines THEN "INIT" ELSE "NONE"]
  /\ fjob = [f \in Fibers |-> IF f \in Coroutines THEN f ELSE NoJob]
  /\ ownerPc = "new"
  /\ submitted = {}
  /\ ended = {}
  /\ yields = [j \in Jobs |-> 0]

-----------------------------------------------------------------------------
(* The owner: start(), schedule() and stop().                              *)

(* start() holds m_mutex until every thread is created, so no thread scans *)
(* the queue before the last one exists.                                   *)
Start ==
  /\ ownerPc = "new"
  /\ isRunning' = TRUE
  /\ pc' = [t \in Threads |-> IF t \in Workers THEN "scan" ELSE pc[t]]
  /\ ownerPc' = "open"
  /\ UNCHANGED <<queue, active, autoStop, ft, cbFiber, idleDone, fiberVars, jobVars>>

(* schedule(): one push under m_mutex.                                     *)
Submit(j, u) ==
  /\ j \notin submitted
  /\ submitted' = submitted \cup {j}
  /\ queue' = Append(queue, JobEntry(j, u))

OwnerSchedule(j, u) ==
  /\ ownerPc \in {"new", "open"}
  /\ u \in OwnerPins
  /\ Submit(j, u)
  /\ UNCHANGED <<active, stopVars, loopVars, fiberVars, ended, yields>>

(* stop() sets m_autoStop and then m_isRunning; stopped() needs both, so   *)
(* only the second write is visible.  Without worker threads it returns at *)
(* once when nothing is left to do.                                        *)
StopAtOnce ==
  /\ ownerPc = "open"
  /\ Workers = {} /\ queue = <<>> /\ active = 0
  /\ autoStop' = TRUE
  /\ isRunning' = FALSE
  /\ ownerPc' = "stopped"
  /\ UNCHANGED <<queue, active, loopVars, fiberVars, jobVars>>

StopBegin ==
  /\ ownerPc = "open"
  /\ ~(Workers = {} /\ queue = <<>> /\ active = 0)
  /\ autoStop' = TRUE
  /\ isRunning' = FALSE
  /\ ownerPc' = "drain"
  /\ UNCHANGED <<queue, active, loopVars, fiberVars, jobVars>>

(* m_rootFiber->call(): the owner runs the loop unless stopped() says that *)
(* there is nothing left.                                                  *)
EnterRoot ==
  /\ ownerPc = "drain"
  /\ UseCaller /\ ~Stopped
  /\ pc' = [pc EXCEPT ![Caller] = "scan"]
  /\ ownerPc' = "root"
  /\ UNCHANGED <<queue, active, autoStop, isRunning, ft, cbFiber, idleDone, fiberVars, jobVars>>

(* Mutant: stop() never runs the loop in the owner's thread.               *)
SkipRoot_Always ==
  /\ ownerPc = "drain"
  /\ ownerPc' = "join"
  /\ UNCHANGED <<queue, active, autoStop, isRunning, loopVars, fiberVars, jobVars>>

SkipRoot ==
  /\ ownerPc = "drain"
  /\ UseCaller => Stopped
  /\ ownerPc' = "join"
  /\ UNCHANGED <<queue, active, autoStop, isRunning, loopVars, fiberVars, jobVars>>

LeaveRoot ==
  /\ ownerPc = "root"
  /\ pc[Caller] = "exited"
  /\ ownerPc' = "join"
  /\ UNCHANGED <<queue, active, autoStop, isRunning, loopVars, fiberVars, jobVars>>

Join ==
  /\ ownerPc = "join"
  /\ \A w \in Workers : pc[w] = "exited"
  /\ ownerPc' = "stopped"
  /\ UNCHANGED <<queue, active, autoStop, isRunning, loopVars, fiberVars, jobVars>>

-----------------------------------------------------------------------------
(* run(): take the first entry this thread may run.                        *)

Runnable(t, e) ==
  /\ e.thread \in {AnyThread, t}
  /\ ~(e.kind = "fiber" /\ fstate[e.id] = "EXEC")

(* Mutant: the entry taken is not erased.                                  *)
Take_NoErase(t) ==
  /\ pc[t] = "scan"
  /\ \E i \in DOMAIN queue :
       /\ Runnable(t, queue[i])
       /\ \A k \in 1..(i - 1) : ~Runnable(t, queue[k])
       /\ ft' = [ft EXCEPT ![t] = queue[i]]
  /\ active' = active + 1
  /\ pc' = [pc EXCEPT ![t] = "dispatch"]
  /\ UNCHANGED <<queue, stopVars, cbFiber, idleDone, fiberVars, jobVars>>

Take(t) ==
  /\ pc[t] = "scan"
  /\ \E i \in DOMAIN queue :
       /\ Runnable(t, queue[i])
       /\ \A k \in 1..(i - 1) : ~Runnable(t, queue[k])
       /\ ft' = [ft EXCEPT ![t] = queue[i]]
       /\ queue' = RemoveAt(queue, i)
  /\ active' = active + 1
  /\ pc' = [pc EXCEPT ![t] = "dispatch"]
  /\ UNCHANGED <<stopVars, cbFiber, idleDone, fiberVars, jobVars>>

FindNothing(t) ==
  /\ pc[t] = "scan"
  /\ \A i \in DOMAIN queue : ~Runnable(t, queue[i])
  /\ ft' = [ft EXCEPT ![t] = NoEntry]
  /\ pc' = [pc EXCEPT ![t] = "dispatch"]
  /\ UNCHANGED <<queue, active, stopVars, cbFiber, idleDone, fiberVars, jobVars>>

(* Fiber::swapIn() aborts the program on a coroutine that is executing;    *)
(* here it is not enabled then, and AssertsHold says so.                   *)
SwapInFiber(t) ==
  /\ pc[t] = "dispatch" /\ ft[t].kind = "fiber"
  /\ fstate[ft[t].id] \notin Over \cup {"EXEC"}
  /\ fstate' = [fstate EXCEPT ![ft[t].id] = "EXEC"]
  /\ pc' = [pc EXCEPT ![t] = "run"]
  /\ UNCHANGED <<queue, active, stopVars, ft, cbFiber, idleDone, fjob, jobVars>>

(* Mutant: a dropped entry stays counted.                                  *)
DropFinished_NoDecrement(t) ==
  /\ pc[t] = "dispatch" /\ ft[t].kind = "fiber"
  /\ fstate[ft[t].id] \in Over
  /\ ft' = [ft EXCEPT ![t] = NoEntry]
  /\ pc' = [pc EXCEPT ![t] = "scan"]
  /\ UNCHANGED <<queue, active, stopVars, cbFiber, idleDone, fiberVars, jobVars>>

(* A coroutine that is over when its entry comes up is dropped.            *)
DropFinished(t) ==
  /\ pc[t] = "dispatch" /\ ft[t].kind = "fiber"
  /\ fstate[ft[t].id] \in Over
  /\ active' = active - 1
  /\ ft' = [ft EXCEPT ![t] = NoEntry]
  /\ pc' = [pc EXCEPT ![t] = "scan"]
  /\ UNCHANGED <<queue, stopVars, cbFiber, idleDone, fiberVars, jobVars>>

(* A callback runs in the thread's kept coroutine, or in a new one.        *)
RunCallback(t) ==
  /\ pc[t] = "dispatch" /\ ft[t].kind = "cb"
  /\ LET f == IF cbFiber[t] = NoJob THEN ft[t].id ELSE cbFiber[t]
     IN  /\ fstate[f] \in Resettable
         /\ fstate' = [fstate EXCEPT ![f] = "EXEC"]
         /\ fjob' = [fjob EXCEPT ![f] = ft[t].id]
         /\ cbFiber' = [cbFiber EXCEPT ![t] = f]
  /\ ft' = [ft EXCEPT ![t] = NoEntry]
  /\ pc' = [pc EXCEPT ![t] = "run"]
  /\ UNCHANGED <<queue, active, stopVars, idleDone, jobVars>>

EnterIdle(t) ==
  /\ pc[t] = "dispatch" /\ ft[t] = NoEntry
  /\ ~idleDone[t]
  /\ pc' = [pc EXCEPT ![t] = "idle"]
  /\ UNCHANGED <<queue, active, stopVars, ft, cbFiber, idleDone, fiberVars, jobVars>>

LeaveLoop(t) ==
  /\ pc[t] = "dispatch" /\ ft[t] = NoEntry
  /\ idleDone[t]
  /\ pc' = [pc EXCEPT ![t] = "exited"]
  /\ UNCHANGED <<queue, active, stopVars, ft, cbFiber, idleDone, fiberVars, jobVars>>

(* idle(): one round of its loop.  The idle coroutine ends once stopped()  *)
(* holds; the thread scans the queue once more in either case.             *)
Idle(t) ==
  /\ pc[t] = "idle"
  /\ idleDone' = [idleDone EXCEPT ![t] = Stopped]
  /\ pc' = [pc EXCEPT ![t] = "scan"]
  /\ UNCHANGED <<queue, active, stopVars, ft, cbFiber, fiberVars, jobVars>>

-----------------------------------------------------------------------------
(* What the code of the job on thread t does.                              *)

RunsJob(t) == pc[t] = "run" /\ fjob[OnFiber(t)] # NoJob

TaskSchedule(t, j, u) ==
  /\ RunsJob(t)
  /\ u \in TaskPins
  /\ Submit(j, u)
  /\ UNCHANGED <<active, stopVars, loopVars, fiberVars, ended, yields>>

(* A job schedules the coroutine it runs in, as a prelude to yieldToHold() *)
(* (what an event armed with addEvent() does on another thread), or one    *)
(* that it sees on hold.                                                   *)
Wake(t, f) ==
  /\ RunsJob(t) /\ fjob[OnFiber(t)] \in Wakers
  /\ f = OnFiber(t) \/ fstate[f] = "HOLD"
  /\ Len(queue) < MaxQueue
  /\ queue' = Append(queue, FiberEntry(f, AnyThread))
  /\ UNCHANGED <<active, stopVars, loopVars, fiberVars, jobVars>>

(* Mutant: a yield schedules the coroutine before its context is saved.    *)
Yield_SchedulesFirst(t, s) ==
  /\ RunsJob(t)
  /\ yields[fjob[OnFiber(t)]] < MaxYields
  /\ yields' = [yields EXCEPT ![fjob[OnFiber(t)]] = @ + 1]
  /\ fstate' = [fstate EXCEPT ![OnFiber(t)] = s]
  /\ pc' = [pc EXCEPT ![t] = "swapOut"]
  /\ queue' = Append(queue, FiberEntry(OnFiber(t), AnyThread))
  /\ UNCHANGED <<active, stopVars, ft, cbFiber, idleDone, fjob, submitted, ended>>

(* The state is written first; the context is saved in swapOut() after it. *)
Yield(t, s) ==
  /\ RunsJob(t)
  /\ yields[fjob[OnFiber(t)]] < MaxYields
  /\ yields' = [yields EXCEPT ![fjob[OnFiber(t)]] = @ + 1]
  /\ fstate' = [fstate EXCEPT ![OnFiber(t)] = s]
  /\ pc' = [pc EXCEPT ![t] = "swapOut"]
  /\ UNCHANGED <<queue, active, stopVars, ft, cbFiber, idleDone, fjob, submitted, ended>>

YieldReady(t) == Yield(t, "READY")
YieldHold(t)  == RunsJob(t) /\ fjob[OnFiber(t)] \in Holders /\ Yield(t, "HOLD")

(* mainFunc() after the job returned: m_cb is cleared.                     *)
Finish(t) ==
  /\ RunsJob(t)
  /\ ended' = ended \cup {fjob[OnFiber(t)]}
  /\ fjob' = [fjob EXCEPT ![OnFiber(t)] = NoJob]
  /\ fstate' = [fstate EXCEPT ![OnFiber(t)] = "TERM"]
  /\ pc' = [pc EXCEPT ![t] = "swapOut"]
  /\ UNCHANGED <<queue, active, stopVars, ft, cbFiber, idleDone, submitted, yields>>

(* mainFunc() after an exception: m_cb stays.  An empty m_cb throws.       *)
Throw(t) ==
  /\ pc[t] = "run"
  /\ ended' = ended \cup ({fjob[OnFiber(t)]} \ {NoJob})
  /\ fstate' = [fstate EXCEPT ![OnFiber(t)] = "EXCEPT"]
  /\ pc' = [pc EXCEPT ![t] = "swapOut"]
  /\ UNCHANGED <<queue, active, stopVars, ft, cbFiber, idleDone, fjob, submitted, yields>>

-----------------------------------------------------------------------------
(* run(): the coroutine has switched back to the loop.                     *)

(* swapcontext() has saved the coroutine; then --m_activeThreadCount.      *)
SwapOut(t) ==
  /\ pc[t] = "swapOut"
  /\ active' = active - 1
  /\ pc' = [pc EXCEPT ![t] = "settle"]
  /\ UNCHANGED <<queue, stopVars, ft, cbFiber, idleDone, fiberVars, jobVars>>

(* Mutant: the loop keeps the coroutine of a callback that yielded.        *)
LetGo_KeepsCallback(t) ==
  /\ ft' = [ft EXCEPT ![t] = NoEntry]
  /\ pc' = [pc EXCEPT ![t] = "scan"]
  /\ UNCHANGED cbFiber

(* Mutant: the loop keeps any coroutine that yielded, a job's too.         *)
LetGo_KeepsAny(t) ==
  /\ ft' = [ft EXCEPT ![t] = NoEntry]
  /\ cbFiber' = [cbFiber EXCEPT ![t] = OnFiber(t)]
  /\ pc' = [pc EXCEPT ![t] = "scan"]

(* The coroutine goes to the next one who takes it: the loop forgets the   *)
(* entry, and a callback's coroutine too.                                  *)
LetGo(t) ==
  /\ ft' = [ft EXCEPT ![t] = NoEntry]
  /\ cbFiber' = IF ft[t].kind = "fiber" THEN cbFiber
                ELSE [cbFiber EXCEPT ![t] = NoJob]
  /\ pc' = [pc EXCEPT ![t] = "scan"]

(* Mutant: the coroutine of a callback that yields is not scheduled again. *)
Requeue_ForgetsCallback(t) ==
  /\ pc[t] = "settle" /\ fstate[OnFiber(t)] = "READY"
  /\ queue' = IF ft[t].kind = "fiber"
               THEN Append(queue, FiberEntry(OnFiber(t), AnyThread)) ELSE queue
  /\ LetGo(t)
  /\ UNCHANGED <<active, stopVars, idleDone, fiberVars, jobVars>>

(* READY: schedule(ft.fiber) and schedule(cbFiber) name no thread.         *)
Requeue(t) ==
  /\ pc[t] = "settle" /\ fstate[OnFiber(t)] = "READY"
  /\ queue' = Append(queue, FiberEntry(OnFiber(t), AnyThread))
  /\ LetGo(t)
  /\ UNCHANGED <<active, stopVars, idleDone, fiberVars, jobVars>>

(* TERM or EXCEPT: a coroutine job is forgotten, the coroutine of a        *)
(* callback is reset and kept.                                             *)
Release(t) ==
  /\ pc[t] = "settle" /\ fstate[OnFiber(t)] \in Over
  /\ IF ft[t].kind = "fiber"
     THEN UNCHANGED fiberVars
     ELSE /\ fstate' = [fstate EXCEPT ![cbFiber[t]] = "INIT"]
          /\ fjob' = [fjob EXCEPT ![cbFiber[t]] = NoJob]
  /\ ft' = [ft EXCEPT ![t] = NoEntry]
  /\ pc' = [pc EXCEPT ![t] = "scan"]
  /\ UNCHANGED <<queue, active, stopVars, cbFiber, idleDone, jobVars>>

(* Anything else: the state is read, and then overwritten with HOLD.       *)
FindsHold(t) ==
  /\ pc[t] = "settle" /\ fstate[OnFiber(t)] \notin Over \cup {"READY"}
  /\ pc' = [pc EXCEPT ![t] = "park"]
  /\ UNCHANGED <<queue, active, stopVars, ft, cbFiber, idleDone, fiberVars, jobVars>>

Park(t) ==
  /\ pc[t] = "park"
  /\ fstate' = [fstate EXCEPT ![OnFiber(t)] = "HOLD"]
  /\ LetGo(t)
  /\ UNCHANGED <<queue, active, stopVars, idleDone, fjob, jobVars>>

-----------------------------------------------------------------------------
LoopStep(t) ==
  \/ Take(t) \/ FindNothing(t) \/ SwapInFiber(t) \/ DropFinished(t)
  \/ RunCallback(t) \/ EnterIdle(t) \/ LeaveLoop(t) \/ Idle(t)
  \/ SwapOut(t) \/ Requeue(t) \/ Release(t) \/ FindsHold(t) \/ Park(t)

TaskStep(t) ==
  \/ \E j \in Jobs, u \in TaskPins : TaskSchedule(t, j, u)
  \/ \E f \in Fibers : Wake(t, f)
  \/ YieldReady(t) \/ YieldHold(t) \/ Finish(t) \/ Throw(t)

StopStep == EnterRoot \/ SkipRoot \/ LeaveRoot \/ Join

OwnerStep ==
  \/ Start \/ StopAtOnce \/ StopBegin \/ StopStep
  \/ \E j \in Jobs, u \in OwnerPins : OwnerSchedule(j, u)

(* After stop() returns the scheduler is not used again.                   *)
Terminated == ownerPc = "stopped" /\ UNCHANGED vars

Next ==
  \/ OwnerStep
  \/ \E t \in Threads : LoopStep(t) \/ TaskStep(t)
  \/ Terminated

Spec == Init /\ [][Next]_vars

(* Every thread of the pool is scheduled by the operating system, and the  *)
(* code of a job returns, throws or yields in the end; stop(), once        *)
(* called, goes on.  Nothing obliges the owner to call start() or stop(),  *)
(* or anyone to submit a job.                                              *)
Fairness ==
  /\ \A t \in Threads : WF_vars(LoopStep(t) \/ TaskStep(t))
  /\ WF_vars(StopStep)

FairSpec == Spec /\ Fairness

-----------------------------------------------------------------------------
(* What must hold.                                                         *)

(* Every variable has its type: the queue holds entries of submitted jobs' *)
(* kinds, the coroutine a thread keeps for callbacks is a callback's.      *)
TypeOK ==
  /\ queue \in Seq(Entries)
  /\ active \in Int
  /\ autoStop \in BOOLEAN /\ isRunning \in BOOLEAN
  /\ pc \in [Threads -> {"off", "scan", "dispatch", "run", "swapOut",
                         "settle", "park", "idle", "exited"}]
  /\ ft \in [Threads -> Entries \cup {NoEntry}]
  /\ cbFiber \in [Threads -> Callbacks \cup {NoJob}]
  /\ idleDone \in [Threads -> BOOLEAN]
  /\ fstate \in [Fibers -> FiberStates]
  /\ fjob \in [Fibers -> Jobs \cup {NoJob}]
  /\ ownerPc \in {"new", "open", "drain", "root", "join", "stopped"}
  /\ submitted \subseteq Jobs
  /\ ended \subseteq Jobs
  /\ yields \in [Jobs -> Nat]

(* No two threads are on the stack of one coroutine: between the write of  *)
(* Fiber::m_state in a yield and the swapcontext() that saves the context, *)
(* nobody else may switch to it.                                           *)
OneThreadPerFiber ==
  \A t, u \in Threads :
    /\ pc[t] \in {"run", "swapOut"}
    /\ pc[u] \in {"run", "swapOut"}
    /\ OnFiber(t) = OnFiber(u)
    => t = u

(* The assertions on Fiber::m_state in swapIn() and reset() hold whenever  *)
(* run() calls them, whatever other threads did since the entry was taken. *)
AssertsHold ==
  \A t \in Threads : pc[t] = "dispatch" =>
    /\ ft[t].kind = "fiber" => fstate[ft[t].id] # "EXEC"
    /\ ft[t].kind = "cb" /\ cbFiber[t] # NoJob => fstate[cbFiber[t]] \in Resettable

(* The thread will scan the queue at least once more.                      *)
WillScan(t) ==
  \/ pc[t] \notin {"off", "exited"}
     /\ ~(pc[t] = "dispatch" /\ ft[t] = NoEntry /\ idleDone[t])
  \/ pc[t] = "off" /\ ownerPc \in (IF t = Caller THEN {"new", "open", "drain"}
                                   ELSE {"new"})

(* Every entry of the queue has a thread that may take it and that has not *)
(* decided to leave run() before looking at the queue again.               *)
NoOrphanedTask ==
  \A i \in DOMAIN queue :
    \E t \in Threads : queue[i].thread \in {AnyThread, t} /\ WillScan(t)

(* m_activeThreadCount counts the threads between taking an entry and      *)
(* coming back from its coroutine, neither more nor less: stopped() relies *)
(* on it.                                                                  *)
Busy == {t \in Threads : \/ pc[t] = "dispatch" /\ ft[t] # NoEntry
                         \/ pc[t] \in {"run", "swapOut"}}
ActiveCountExact == active = Cardinality(Busy)

(* Where a job that is not over is: entries that stand for it, threads     *)
(* with it in hand, coroutines on hold with it.                            *)
EntryOf(e, j) == \/ e.kind = "cb" /\ e.id = j
                 \/ e.kind = "fiber" /\ fjob[e.id] = j
QueuedFor(j) == {i \in DOMAIN queue : EntryOf(queue[i], j)}
HeldFor(j) ==
  {t \in Threads : \/ pc[t] = "dispatch" /\ EntryOf(ft[t], j)
                   \/ /\ pc[t] \in {"run", "swapOut", "settle", "park"}
                      /\ fjob[OnFiber(t)] = j}
OnHoldFor(j) ==
  {f \in Fibers : /\ fstate[f] = "HOLD" /\ fjob[f] = j
                  /\ \A t \in Threads :
                       pc[t] \in {"swapOut", "settle", "park"} => OnFiber(t) # f}

(* A job that was submitted and is not over is in exactly one place: in    *)
(* the queue once, in one thread's hands, or on hold.  None is lost when a *)
(* thread drops or recycles a coroutine, none is run from two places.      *)
NoJobLost ==
  \A j \in submitted \ ended :
    Cardinality(QueuedFor(j)) + Cardinality(HeldFor(j))
      + Cardinality(OnHoldFor(j)) = 1

(* When stop() has returned every thread has left run(), and no entry was  *)
(* left behind.                                                            *)
QueueDrained ==
  ownerPc = "stopped" =>
    queue = <<>> /\ \A t \in Threads : pc[t] \in {"off", "exited"}

(* And every job that was submitted, by the owner or by another job, is    *)
(* over or on hold.                                                        *)
StopDrains ==
  /\ QueueDrained
  /\ ownerPc = "stopped" => \A j \in submitted \ ended : OnHoldFor(j) # {}

(* While the pool is open an entry of the queue is taken up without        *)
(* waiting for stop(), unless it is pinned to the owner's thread, which    *)
(* runs nothing before stop(): a job's first entry, and the entries that a *)
(* yield puts back.                                                        *)
Waits(j) ==
  /\ ownerPc = "open"
  /\ \E i \in QueuedFor(j) : queue[i].thread \in Workers \cup {AnyThread}
Runs(j) == \E t \in Threads : pc[t] = "run" /\ fjob[OnFiber(t)] = j
EveryJobRuns == \A j \in Jobs : Waits(j) ~> Runs(j) \/ ownerPc # "open"

(* stop() returns: every thread finds its way out of run(), though each    *)
(* decides by itself from a queue that the others still write to.          *)
StopReturns == (ownerPc = "drain") ~> (ownerPc = "stopped")

=============================================================================
