--------------------------- MODULE IOManagerProofs ---------------------------
(***************************************************************************)
(* The scheduler whose idle threads sleep in epoll, for every number of    *)
(* threads, jobs and events: what is proved of Scheduler holds of it too,  *)
(* and stop() leaves no event and no job, if stopped() tells the truth.    *)
(***************************************************************************)
EXTENDS IOManager, JobProofs

USE DEF Fibers

(* A step that is one of Scheduler's, and the six that are not.            *)
LEMMA IOCases ==
  ASSUME [IONext]_<<vars, ioVars>>
  PROVE  \/ QuietStep
         \/ IOStop \/ IOEnterRoot \/ IOSkipRoot
         \/ \E t \in Threads : \/ (CheckPending(t) /\ Leaves(t))
                               \/ BackToScan(t)
                               \/ \E w \in EventJobs : Deliver(t, w)
<1>1. /\ OwnerStep => QuietStep
      /\ \A t \in Threads : LoopStep(t) \/ Works(t) => QuietStep
      /\ UNCHANGED vars => QuietStep
  BY DEF QuietStep
<1>2. CASE IOStart \/ IOJoin
  BY <1>1, <1>2 DEF IOStart, IOJoin, OwnerStep, StopStep
<1>3. CASE OwnerCalls
  <2>1. CASE \E j \in Jobs \ EventJobs, u \in OwnerPins : OwnerSchedule(j, u)
    BY <1>1, <2>1 DEF OwnerStep
  <2>2. CASE \E w \in EventJobs : AddEvent(w)
    BY <1>1, <2>2 DEF AddEvent
  <2> QED
    BY <1>3, <2>1, <2>2 DEF OwnerCalls
<1>4. CASE Notify(Caller) \/ RootLooks \/ IOTerminated \/ UNCHANGED <<vars, ioVars>>
  BY <1>1, <1>4 DEF Notify, RootLooks, IOTerminated
<1>5. ASSUME NEW w \in EventJobs, Fire(w) PROVE QuietStep
  BY <1>1, <1>5 DEF Fire
<1>6. ASSUME NEW t \in Threads, Notify(t) PROVE QuietStep
  BY <1>1, <1>6 DEF Notify
<1>7. ASSUME NEW t \in Threads, IOScan(t) \/ IOSwitch(t) \/ IORequeue(t) PROVE QuietStep
  BY <1>1, <1>7 DEF IOScan, IOSwitch, IORequeue, LoopStep
<1>8. ASSUME NEW t \in Threads, IOTask(t) PROVE QuietStep
  <2>1. Works(t) \/ \E w \in EventJobs : AddEvent(w)
    BY <1>8 DEF IOTask, Works
  <2> QED
    BY <1>1, <2>1 DEF AddEvent
<1>9. ASSUME NEW t \in Threads, IdleStep(t)
      PROVE  \/ QuietStep \/ (CheckPending(t) /\ Leaves(t))
             \/ BackToScan(t) \/ \E w \in EventJobs : Deliver(t, w)
  <2>1. CASE IOEnterIdle(t)
    BY <1>1, <2>1 DEF IOEnterIdle, LoopStep
  <2>2. CASE CheckStopped(t) \/ Poll(t) \/ Timeout(t) \/ Drain(t) \/ Uncount(t)
    BY <1>1, <2>2 DEF CheckStopped, Poll, Timeout, Drain, Uncount
  <2>3. CASE CheckPending(t)
    BY <1>1, <2>3 DEF CheckPending
  <2>4. ASSUME NEW w \in EventJobs, Stale(t, w) PROVE QuietStep
    BY <1>1, <2>4 DEF Stale
  <2> QED
    BY <1>9, <2>1, <2>2, <2>3, <2>4 DEF IdleStep
<1> QED
  BY <1>2, <1>3, <1>4, <1>5, <1>6, <1>7, <1>8, <1>9 DEF IONext, IOStopStep, ThreadStep

-----------------------------------------------------------------------------
(* What holds of Scheduler.                                                *)

(* A worker and the owner's thread are threads that have an idlePc.        *)
LEMMA Acting ==
  /\ Threads \subseteq Actors /\ Workers \subseteq Threads /\ Caller \in Actors
  /\ Threads = Workers \/ Threads = Workers \cup {Caller}
  /\ EventJobs \subseteq Jobs /\ Pipe \notin EventJobs
  BY EventsAssumption DEF Threads, Actors, Jobs

(* What the six steps change of the variables that Scheduler has.          *)
LEMMA IOFrame ==
  ASSUME TypeInv, OwnerAhead,
         \/ IOStop \/ IOEnterRoot \/ IOSkipRoot
         \/ \E t \in Threads : \/ (CheckPending(t) /\ Leaves(t))
                               \/ BackToScan(t)
                               \/ \E w \in EventJobs : Deliver(t, w)
  PROVE  /\ UNCHANGED <<active, ft, cbFiber, fiberVars, ended, yields>>
         /\ \A t \in Threads : \/ pc'[t] = pc[t]
                               \/ pc[t] \in {"off", "idle"} /\ pc'[t] = "scan"
         /\ pc' \in [Threads -> {"off", "scan", "dispatch", "run", "swapOut",
                                 "settle", "park", "idle", "exited"}]
         /\ idleDone' \in [Threads -> BOOLEAN]
         /\ autoStop' \in BOOLEAN /\ isRunning' \in BOOLEAN
         /\ ownerPc' \in {"new", "open", "drain", "root", "join", "stopped"}
         /\ \/ UNCHANGED <<queue, submitted>>
            \/ \E w \in Jobs : Submit(w, AnyThread) /\ UNCHANGED pc
<1> USE Acting DEF TypeInv, TypeOK
<1>1. CASE IOStop
  BY <1>1 DEF IOStop, loopVars, fiberVars, jobVars
<1>2. CASE IOEnterRoot
  BY <1>2 DEF IOEnterRoot, OwnerAhead, fiberVars, jobVars
<1>3. CASE IOSkipRoot
  BY <1>3 DEF IOSkipRoot, loopVars, fiberVars, jobVars
<1>4. ASSUME NEW t \in Threads, CheckPending(t) /\ Leaves(t) PROVE
         /\ UNCHANGED <<queue, active, stopVars, ft, cbFiber, fiberVars, jobVars>>
         /\ pc[t] = "idle" /\ pc' = [pc EXCEPT ![t] = "scan"]
         /\ idleDone' = [idleDone EXCEPT ![t] = TRUE]
  BY <1>4 DEF CheckPending, Leaves, InIdle
<1>5. ASSUME NEW t \in Threads, BackToScan(t) PROVE
         /\ UNCHANGED <<queue, active, stopVars, ft, cbFiber, fiberVars, jobVars, idleDone>>
         /\ pc[t] = "idle" /\ pc' = [pc EXCEPT ![t] = "scan"]
  BY <1>5 DEF BackToScan, InIdle
<1>6. ASSUME NEW t \in Threads, NEW w \in EventJobs, Deliver(t, w) PROVE
         /\ UNCHANGED <<active, stopVars, ft, cbFiber, fiberVars, idleDone, pc, ended, yields>>
         /\ w \in Jobs /\ Submit(w, AnyThread)
  BY <1>6 DEF Deliver, loopVars
<1> QED
  BY <1>1, <1>2, <1>3, <1>4, <1>5, <1>6 DEF stopVars, jobVars

(* They keep the types,                                                    *)
LEMMA IOTypingStep == TypeInv /\ OwnerAhead /\ [IONext]_<<vars, ioVars>> => TypeInv'
<1> SUFFICES ASSUME TypeInv, OwnerAhead, [IONext]_<<vars, ioVars>> PROVE TypeInv'
  OBVIOUS
<1>1. CASE QuietStep
  BY <1>1, QuietIsNext, TypingStep
<1>2. CASE ~QuietStep
  <2>1. /\ UNCHANGED <<active, ft, cbFiber, fiberVars, ended, yields>>
        /\ \A t \in Threads : \/ pc'[t] = pc[t]
                              \/ pc[t] \in {"off", "idle"} /\ pc'[t] = "scan"
        /\ pc' \in [Threads -> {"off", "scan", "dispatch", "run", "swapOut",
                                "settle", "park", "idle", "exited"}]
        /\ idleDone' \in [Threads -> BOOLEAN]
        /\ autoStop' \in BOOLEAN /\ isRunning' \in BOOLEAN
        /\ ownerPc' \in {"new", "open", "drain", "root", "join", "stopped"}
    BY <1>2, IOCases, IOFrame
  <2>2. queue' \in Seq(Entries) /\ submitted' \subseteq Jobs
    <3>1. CASE UNCHANGED <<queue, submitted>>
      BY <3>1 DEF TypeInv, TypeOK
    <3>2. ASSUME NEW w \in Jobs, Submit(w, AnyThread) PROVE <2>2!1 /\ <2>2!2
      BY <3>2, EntryTypes, AppendEntries DEF Submit, TypeInv, TypeOK
    <3> QED
      BY <1>2, <3>1, <3>2, IOCases, IOFrame
  <2>3. TypeOK'
    BY <2>1, <2>2 DEF TypeInv, TypeOK, fiberVars
  <2>4. OnSomeFiber'
    BY <2>1 DEF TypeInv, OnSomeFiber, OnFiber
  <2> QED
    BY <2>3, <2>4 DEF TypeInv
<1> QED
  BY <1>1, <1>2

(* An idle thread: it has not ended, and idle() knows where it is.  The    *)
(* owner's looks at stopped() before it has entered the loop.              *)
IdleAt == {"out", "check", "pending", "wait", "handle", "uncount"}
Idling ==
  /\ idlePc \in [Actors -> IdleAt]
  /\ \A u \in Actors : idlePc[u] = "pending" => autoStop
  /\ \A t \in Threads : pc[t] = "idle" => ~idleDone[t] /\ idlePc[t] # "out"
  /\ \A t \in Threads : idlePc[t] \in {"check", "handle", "uncount"} => pc[t] = "idle"
  /\ \A t \in Workers : idlePc[t] # "out" => pc[t] = "idle"

(* The six steps and how far the owner is.                                 *)
LEMMA IOAheadStep ==
  ASSUME TypeInv, OwnerAhead, Idling, [IONext]_<<vars, ioVars>>
  PROVE  OwnerAhead'
<1> USE Acting, ThreadsAssumption DEF OwnerAhead, TypeInv, TypeOK
<1>1. CASE QuietStep
  BY <1>1, QuietIsNext, OwnerAheadStep
<1>2. CASE IOStop
  BY <1>2 DEF IOStop, loopVars
<1>3. CASE IOEnterRoot
  BY <1>3 DEF IOEnterRoot
<1>4. CASE IOSkipRoot
  BY <1>4 DEF IOSkipRoot, loopVars
<1>5. ASSUME NEW t \in Threads, CheckPending(t) /\ Leaves(t) PROVE OwnerAhead'
  <2>1. autoStop /\ pc[t] = "idle"
    BY <1>5 DEF CheckPending, InIdle, Idling
  <2> QED
    BY <1>5, <2>1 DEF Leaves, stopVars
<1>6. ASSUME NEW t \in Threads, BackToScan(t) PROVE OwnerAhead'
  BY <1>6 DEF BackToScan, InIdle, stopVars
<1>7. ASSUME NEW t \in Threads, NEW w \in EventJobs, Deliver(t, w) PROVE OwnerAhead'
  BY <1>7 DEF Deliver, stopVars, loopVars
<1> QED
  BY <1>1, <1>2, <1>3, <1>4, <1>5, <1>6, <1>7, IOCases

LEMMA IOBehindStep ==
  ASSUME TypeInv, OwnerAhead, OwnerBehind, [IONext]_<<vars, ioVars>>
  PROVE  OwnerBehind'
<1> USE Acting, ThreadsAssumption DEF OwnerBehind, TypeInv, TypeOK
<1>1. CASE QuietStep
  BY <1>1, QuietIsNext, OwnerBehindStep
<1>2. CASE IOStop
  BY <1>2 DEF IOStop, loopVars, OwnerAhead
<1>3. CASE IOEnterRoot
  BY <1>3 DEF IOEnterRoot
<1>4. CASE IOSkipRoot
  BY <1>4 DEF IOSkipRoot, loopVars, OwnerAhead
<1>5. ASSUME NEW t \in Threads, CheckPending(t) /\ Leaves(t) PROVE OwnerBehind'
  BY <1>5 DEF CheckPending, Leaves, InIdle, stopVars
<1>6. ASSUME NEW t \in Threads, BackToScan(t) PROVE OwnerBehind'
  BY <1>6 DEF BackToScan, InIdle, stopVars
<1>7. ASSUME NEW t \in Threads, NEW w \in EventJobs, Deliver(t, w) PROVE OwnerBehind'
  BY <1>7 DEF Deliver, stopVars, loopVars
<1> QED
  BY <1>1, <1>2, <1>3, <1>4, <1>5, <1>6, <1>7, IOCases

(* None of the six makes a thread busy or takes a coroutine from it.       *)
LEMMA IOActiveStep ==
  ASSUME TypeInv, OwnerAhead, ActiveCountExact, [IONext]_<<vars, ioVars>>
  PROVE  ActiveCountExact'
<1>1. CASE QuietStep
  BY <1>1, QuietIsNext, ActiveStep
<1>2. CASE ~QuietStep
  <2>1. /\ UNCHANGED <<active, ft>>
        /\ \A t \in Threads : \/ pc'[t] = pc[t]
                              \/ pc[t] \in {"off", "idle"} /\ pc'[t] = "scan"
    BY <1>2, IOCases, IOFrame
  <2>2. Busy' = Busy
    BY <2>1 DEF Busy
  <2> QED
    BY <2>1, <2>2 DEF ActiveCountExact
<1> QED
  BY <1>1, <1>2

LEMMA IOExclusionStep ==
  ASSUME TypeInv, OwnerAhead, Exclusion, [IONext]_<<vars, ioVars>>
  PROVE  Exclusion'
<1>1. CASE QuietStep
  BY <1>1, ExclusionStep
<1>2. CASE ~QuietStep
  <2>1. /\ UNCHANGED <<ft, cbFiber, fstate>>
        /\ \A t \in Threads : \/ pc'[t] = pc[t]
                              \/ pc[t] \in {"off", "idle"} /\ pc'[t] = "scan"
        /\ \/ UNCHANGED <<queue, submitted>>
           \/ \E w \in Jobs : Submit(w, AnyThread) /\ UNCHANGED pc
    BY <1>2, IOCases, IOFrame DEF fiberVars
  <2>2. CASE UNCHANGED <<queue, submitted>>
    BY <2>1, <2>2, ExclusionFrame DEF OnCoroutine
  <2> QED
    BY <2>1, <2>2, ExclusionSubmit
<1> QED
  BY <1>1, <1>2

LEMMA IOJobStep ==
  ASSUME TypeInv, OwnerAhead, Exclusion, JobInv, [IONext]_<<vars, ioVars>>
  PROVE  JobInv'
<1>1. CASE QuietStep
  BY <1>1, JobStep
<1>2. CASE ~QuietStep
  <2>1. /\ UNCHANGED <<ft, cbFiber, fstate, fjob, ended>>
        /\ \A t \in Threads : \/ pc'[t] = pc[t]
                              \/ pc[t] \in {"off", "idle"} /\ pc'[t] = "scan"
        /\ \/ UNCHANGED <<queue, submitted>>
           \/ \E w \in Jobs : Submit(w, AnyThread) /\ UNCHANGED pc
    BY <1>2, IOCases, IOFrame DEF fiberVars
  <2>2. CASE UNCHANGED <<queue, submitted>>
    <3>1. \A t \in Threads : pc[t] \in {"off", "idle"} => ft[t].kind \notin {"fiber", "cb"}
      BY DEF JobInv, EntryInHand, HandOf, OnCoroutine
    <3> QED
      BY <2>1, <2>2, <3>1, JobFrame DEF OnCoroutine
  <2> QED
    BY <2>1, <2>2, JobSubmit
<1> QED
  BY <1>1, <1>2

-----------------------------------------------------------------------------
(* The variables of the idle threads.                                      *)

(* The steps of run() but those that idle() has.                           *)
RunsLoop(t) ==
  \/ Take(t) \/ FindNothing(t) \/ SwapInFiber(t) \/ DropFinished(t) \/ RunCallback(t)
  \/ LeaveLoop(t) \/ SwapOut(t) \/ Requeue(t) \/ Release(t) \/ FindsHold(t) \/ Park(t)

(* Where run() and the jobs leave the threads.                             *)
Outside(t) ==
  /\ UNCHANGED <<autoStop, isRunning, ownerPc, idleDone>>
  /\ pc[t] \notin {"off", "idle"} /\ pc'[t] \notin {"off", "idle"}
  /\ \A u \in Threads \ {t} : pc'[u] = pc[u]

LEMMA WorkOutside ==
  ASSUME TypeInv, NEW t \in Threads, RunsLoop(t) \/ Works(t)
  PROVE  Outside(t)
<1> USE DEF Outside, TypeInv, TypeOK, stopVars, loopVars
<1>1. CASE Take(t) \/ FindNothing(t)
  BY <1>1 DEF Take, FindNothing
<1>2. CASE SwapInFiber(t) \/ DropFinished(t) \/ RunCallback(t) \/ LeaveLoop(t)
  BY <1>2 DEF SwapInFiber, DropFinished, RunCallback, LeaveLoop
<1>3. CASE SwapOut(t) \/ Requeue(t) \/ Release(t) \/ FindsHold(t) \/ Park(t)
  BY <1>3 DEF SwapOut, Requeue, Release, FindsHold, Park, LetGo
<1>4. ASSUME NEW j \in Jobs, NEW u \in TaskPins, TaskSchedule(t, j, u) PROVE Outside(t)
  BY <1>4 DEF TaskSchedule, RunsJob
<1>5. CASE YieldReady(t) \/ YieldHold(t) \/ Finish(t) \/ Throw(t)
  BY <1>5 DEF YieldReady, YieldHold, Yield, Finish, Throw, RunsJob
<1> QED
  BY <1>1, <1>2, <1>3, <1>4, <1>5 DEF RunsLoop, Works

(* And what they leave alone of the variables of the idle threads.         *)
IOWork(t) == IOScan(t) \/ IOSwitch(t) \/ IORequeue(t) \/ IOTask(t)
LEMMA WorkFrame ==
  ASSUME TypeInv, NEW t \in Threads, IOWork(t)
  PROVE  /\ Outside(t) /\ UNCHANGED <<idlePc, inHand, edges>>
         /\ \/ (RunsLoop(t) \/ Works(t)) /\ UNCHANGED <<registered, pending>>
            \/ pc[t] = "run" /\ UNCHANGED vars /\ \E w \in EventJobs : AddEvent(w)
         /\ UNCHANGED notes \/ \E n \in {0, 1} : notes' = [notes EXCEPT ![t] = n]
<1> USE DEF eventVars
<1>1. CASE IOScan(t)
  <2>1. RunsLoop(t) /\ UNCHANGED <<idlePc, inHand, eventVars, edges>>
    BY <1>1 DEF IOScan, RunsLoop
  <2>2. \E n \in {0, 1} : notes' = [notes EXCEPT ![t] = n]
    BY <1>1 DEF IOScan
  <2> QED
    BY <2>1, <2>2, WorkOutside
<1>2. CASE IOSwitch(t)
  <2>1. RunsLoop(t) /\ UNCHANGED ioVars
    BY <1>2 DEF IOSwitch, RunsLoop
  <2> QED
    BY <2>1, WorkOutside DEF ioVars
<1>3. CASE IORequeue(t)
  <2>1. RunsLoop(t) /\ UNCHANGED <<idlePc, inHand, eventVars, edges>>
    BY <1>3 DEF IORequeue, RunsLoop
  <2>2. \E n \in {0, 1} : notes' = [notes EXCEPT ![t] = n]
    BY <1>3 DEF IORequeue, Pushed
  <2> QED
    BY <2>1, <2>2, WorkOutside
<1>4. CASE IOTask(t)
  <2>1. CASE RunsJob(t) /\ \E w \in EventJobs : AddEvent(w)
    BY <2>1 DEF AddEvent, RunsJob, Outside, vars, stopVars, loopVars
  <2>2. CASE /\ \E j \in Jobs \ EventJobs, u \in TaskPins : TaskSchedule(t, j, u)
             /\ Pushed(t)
             /\ UNCHANGED <<idlePc, inHand, eventVars, edges>>
    <3>1. Works(t)
      BY <2>2 DEF Works
    <3>2. \E n \in {0, 1} : notes' = [notes EXCEPT ![t] = n]
      BY <2>2 DEF Pushed
    <3> QED
      BY <2>2, <3>1, <3>2, WorkOutside
  <2>3. CASE (YieldReady(t) \/ YieldHold(t) \/ Finish(t) \/ Throw(t)) /\ UNCHANGED ioVars
    <3>1. Works(t)
      BY <2>3 DEF Works
    <3> QED
      BY <2>3, <3>1, WorkOutside DEF ioVars
  <2> QED
    BY <1>4, <2>1, <2>2, <2>3 DEF IOTask
<1> QED
  BY <1>1, <1>2, <1>3, <1>4 DEF IOWork

(* The owner's steps that are Scheduler's.                                 *)
LEMMA StartFrame ==
  ASSUME TypeInv, OwnerAhead, IOStart \/ IOJoin
  PROVE  /\ UNCHANGED <<autoStop, idleDone, ioVars>>
         /\ \A t \in Threads : pc'[t] = pc[t] \/ (pc[t] = "off" /\ pc'[t] = "scan")
         /\ (ownerPc = "new" /\ ownerPc' = "open") \/ ownerPc \in {"root", "join"}
         /\ UNCHANGED <<queue, active, ft, cbFiber, fiberVars, submitted, ended>>
  BY Acting, ThreadsAssumption
  DEF IOStart, IOJoin, Start, LeaveRoot, Join, TypeInv, TypeOK, OwnerAhead,
      stopVars, loopVars, fiberVars, jobVars

(* The place of every idle thread.                                         *)
LEMMA IdlingStep ==
  ASSUME TypeInv, OwnerAhead, Idling, [IONext]_<<vars, ioVars>>
  PROVE  Idling'
<1> USE Acting, ThreadsAssumption DEF Idling, IdleAt, TypeInv, TypeOK
<1>1. CASE IOStart \/ IOJoin
  BY <1>1, StartFrame DEF ioVars
<1>2. CASE OwnerCalls
  <2>1. UNCHANGED <<autoStop, idleDone, pc, idlePc>>
    BY <1>2 DEF OwnerCalls, OwnerSchedule, AddEvent, vars, stopVars, loopVars
  <2> QED
    BY <2>1
<1>3. CASE IOStop
  BY <1>3 DEF IOStop, loopVars
<1>4. CASE UNCHANGED <<autoStop, idleDone, pc, idlePc>>
  BY <1>4
<1>5. CASE RootLooks
  <2>1. PICK at \in {"pending", "wait"} : /\ idlePc' = [idlePc EXCEPT ![Caller] = at]
                                          /\ at = "pending" => autoStop
    BY <1>5 DEF RootLooks, Stopped
  <2>2. UNCHANGED <<autoStop, idleDone, pc>> /\ ownerPc = "drain"
    BY <1>5 DEF RootLooks, vars, stopVars, loopVars
  <2>3. Caller \in Threads => pc[Caller] = "off"
    BY <2>2 DEF OwnerAhead
  <2> QED
    BY <2>1, <2>2, <2>3
<1>6. CASE IOEnterRoot \/ IOSkipRoot
  <2>1. /\ idlePc' = [idlePc EXCEPT ![Caller] = "out"] /\ UNCHANGED <<autoStop, idleDone>>
        /\ pc' \in {pc, [pc EXCEPT ![Caller] = "scan"]} /\ ownerPc = "drain"
    BY <1>6 DEF IOEnterRoot, IOSkipRoot, loopVars
  <2>2. Caller \in Threads => pc[Caller] = "off"
    BY <2>1 DEF OwnerAhead
  <2> QED
    BY <2>1, <2>2
<1>7. ASSUME NEW t \in Threads, IOWork(t) PROVE Idling'
  BY <1>7, WorkFrame DEF Outside
<1>8. ASSUME NEW t \in Threads, IdleStep(t) PROVE Idling'
  <2>1. CASE IOEnterIdle(t)
    BY <2>1 DEF IOEnterIdle, EnterIdle, stopVars
  <2>2. CASE CheckStopped(t)
    BY <2>2 DEF CheckStopped, InIdle, Stopped, vars, stopVars, loopVars
  <2>3. CASE CheckPending(t)
    <3>1. t \in Actors /\ InIdle(t, "pending")
      BY <2>3 DEF CheckPending
    <3>2. CASE Leaves(t)
      <4>1. /\ idlePc' = [idlePc EXCEPT ![t] = "out"] /\ pc' = [pc EXCEPT ![t] = "scan"]
            /\ idleDone' = [idleDone EXCEPT ![t] = TRUE] /\ UNCHANGED autoStop
        BY <3>2 DEF Leaves, stopVars
      <4> QED
        BY <3>1, <4>1 DEF InIdle
    <3>3. CASE ~Leaves(t)
      <4>1. idlePc' = [idlePc EXCEPT ![t] = "wait"] /\ UNCHANGED <<pc, idleDone, autoStop>>
        BY <2>3, <3>3 DEF CheckPending, vars, stopVars, loopVars
      <4> QED
        BY <3>1, <4>1 DEF InIdle
    <3> QED
      BY <3>2, <3>3
  <2>4. CASE Poll(t) \/ Timeout(t) \/ Drain(t) \/ Uncount(t)
    BY <2>4 DEF Poll, Timeout, Drain, Uncount, InIdle, vars, stopVars, loopVars
  <2>5. CASE BackToScan(t)
    BY <2>5 DEF BackToScan, InIdle, stopVars
  <2>6. ASSUME NEW w \in EventJobs, Deliver(t, w) \/ Stale(t, w) PROVE Idling'
    <3>1. /\ UNCHANGED <<autoStop, idleDone, pc>> /\ pc[t] = "idle"
          /\ idlePc' \in {idlePc, [idlePc EXCEPT ![t] = "uncount"]}
      BY <2>6 DEF Deliver, Stale, InIdle, vars, stopVars, loopVars
    <3> QED
      BY <3>1
  <2> QED
    BY <1>8, <2>1, <2>2, <2>3, <2>4, <2>5, <2>6 DEF IdleStep
<1>9. ASSUME NEW u \in Actors, Notify(u) PROVE Idling'
  BY <1>4, <1>9 DEF Notify, vars, stopVars, loopVars
<1>10. ASSUME NEW w \in EventJobs, Fire(w) PROVE Idling'
  BY <1>4, <1>10 DEF Fire, vars, stopVars, loopVars
<1>11. CASE IOTerminated \/ UNCHANGED <<vars, ioVars>>
  BY <1>4, <1>11 DEF IOTerminated, vars, ioVars, stopVars, loopVars
<1>12. ASSUME NEW t \in Threads, ThreadStep(t) PROVE Idling'
  BY <1>7, <1>8, <1>9, <1>12 DEF ThreadStep, IOWork
<1> QED
  BY <1>1, <1>2, <1>3, <1>5, <1>6, <1>9, <1>10, <1>11, <1>12 DEF IONext, IOStopStep

(* What threads have from epoll, what they owe to notify(), and what epoll *)
(* and the table know.                                                     *)
IOData ==
  /\ inHand \in [Threads -> SUBSET (EventJobs \cup {Pipe})]
  /\ notes \in [Actors -> 0..Cardinality(Threads)]
  /\ registered \subseteq EventJobs /\ edges \subseteq EventJobs \cup {Pipe}

LEMMA PoolCounted == Cardinality(Threads) \in Nat /\ {0, 1} \subseteq 0..Cardinality(Threads)
<1>1. Cardinality(Threads) \in Nat /\ Cardinality(Threads) # 0
  BY BusyFinite, ThreadsAssumption, FS_CardinalityType, FS_EmptySet
<1> QED
  BY <1>1

LEMMA IODataStep ==
  ASSUME TypeInv, OwnerAhead, IOData, [IONext]_<<vars, ioVars>>
  PROVE  IOData'
<1> USE Acting, PoolCounted DEF IOData, eventVars, ioVars
<1>1. CASE IOStart \/ IOJoin \/ RootLooks \/ IOEnterRoot \/ IOSkipRoot
           \/ IOTerminated \/ UNCHANGED <<vars, ioVars>>
  BY <1>1 DEF IOStart, IOJoin, RootLooks, IOEnterRoot, IOSkipRoot, IOTerminated
<1>2. ASSUME NEW w \in EventJobs, AddEvent(w) PROVE IOData'
  BY <1>2 DEF AddEvent
<1>3. ASSUME NEW u \in Actors, Pushed(u), UNCHANGED <<inHand, registered, edges>> PROVE IOData'
  BY <1>3 DEF Pushed
<1>4. CASE OwnerCalls
  <2>1. CASE Pushed(Caller) /\ UNCHANGED <<idlePc, inHand, eventVars, edges>>
    BY <1>3, <2>1
  <2> QED
    BY <1>2, <1>4, <2>1 DEF OwnerCalls
<1>5. CASE IOStop
  BY <1>5 DEF IOStop
<1>6. ASSUME NEW u \in Actors, Notify(u) PROVE IOData'
  BY <1>6 DEF Notify
<1>7. ASSUME NEW w \in EventJobs, Fire(w) PROVE IOData'
  BY <1>7 DEF Fire
<1>8. ASSUME NEW t \in Threads, IOWork(t) PROVE IOData'
  <2>1. /\ UNCHANGED <<inHand, edges>>
        /\ UNCHANGED registered \/ \E w \in EventJobs : AddEvent(w)
        /\ UNCHANGED notes \/ \E n \in {0, 1} : notes' = [notes EXCEPT ![t] = n]
    BY <1>8, WorkFrame
  <2> QED
    BY <1>2, <2>1
<1>9. ASSUME NEW t \in Threads, IdleStep(t) PROVE IOData'
  <2>1. CASE IOEnterIdle(t) \/ CheckStopped(t) \/ Timeout(t) \/ Uncount(t) \/ BackToScan(t)
    BY <2>1 DEF IOEnterIdle, CheckStopped, Timeout, Uncount, BackToScan
  <2>2. CASE CheckPending(t)
    BY <2>2 DEF CheckPending, Leaves
  <2>3. CASE Poll(t) \/ Drain(t)
    BY <2>3 DEF Poll, Drain
  <2>4. ASSUME NEW w \in EventJobs, Stale(t, w) PROVE IOData'
    BY <2>4 DEF Stale
  <2>5. ASSUME NEW w \in EventJobs, Deliver(t, w) PROVE IOData'
    BY <2>5 DEF Deliver, Pushed
  <2> QED
    BY <1>9, <2>1, <2>2, <2>3, <2>4, <2>5 DEF IdleStep
<1>10. ASSUME NEW t \in Threads, ThreadStep(t) PROVE IOData'
  BY <1>6, <1>8, <1>9, <1>10 DEF ThreadStep, IOWork
<1> QED
  BY <1>1, <1>4, <1>5, <1>6, <1>7, <1>10 DEF IONext, IOStopStep

(* A constructor.                                                          *)
IOShape == TypeInv /\ OwnerAhead /\ ActiveCountExact /\ Idling /\ IOData

LEMMA IOShapeInit == IOInit => IOShape
<1> SUFFICES ASSUME IOInit PROVE IOShape
  OBVIOUS
<1>1. Init
  BY DEF IOInit
<1>2. TypeInv /\ OwnerAhead /\ ActiveCountExact
  BY <1>1, TypingInit, ActiveInit DEF Init, OwnerAhead
<1>3. Idling
  BY <1>1, Acting DEF IOInit, Init, Idling, IdleAt
<1>4. IOData
  BY PoolCounted DEF IOInit, IOData
<1> QED
  BY <1>2, <1>3, <1>4 DEF IOShape

LEMMA IOShapeStep == IOShape /\ [IONext]_<<vars, ioVars>> => IOShape'
  BY IOTypingStep, IOAheadStep, IOActiveStep, IdlingStep, IODataStep DEF IOShape

(* Types, and where idle threads are, whatever the jobs, events and pins.  *)
THEOREM IOTypeCorrect == IOSpec => []IOTypeOK
<1>1. IOShape => IOTypeOK
  BY DEF IOShape, IOTypeOK, TypeInv, Idling, IdleAt, IOData
<1> QED
  BY <1>1, IOShapeInit, IOShapeStep, PTL DEF IOSpec

(* And what is proved of the threads, coroutines and jobs of Scheduler     *)
(* holds of an IOManager: the threads that leave idle(), the waiters that  *)
(* it schedules and the other stop() disturb none of it.  A waiter is a    *)
(* callback of its own here, so no job schedules a coroutine that it did   *)
(* not get from run(), and no hypothesis says so.                          *)
THEOREM IOInherits == IOSpec => [](ActiveCountExact /\ OneThreadPerFiber /\ NoJobLost)
<1> DEFINE Inv == IOShape /\ Exclusion /\ JobInv
<1>1. IOInit => Inv
  BY IOShapeInit, ExclusionInit, JobInit DEF IOInit
<1>2. Inv /\ [IONext]_<<vars, ioVars>> => Inv'
  BY IOShapeStep, IOExclusionStep, IOJobStep DEF IOShape
<1>3. Inv => ActiveCountExact /\ OneThreadPerFiber /\ NoJobLost
  BY OneStack, InPlaces DEF IOShape
<1> QED
  BY <1>1, <1>2, <1>3, PTL DEF IOSpec

-----------------------------------------------------------------------------
(* The count of pending events.                                            *)

(* m_pendingEventCount counts the registered events, and those that were   *)
(* delivered and are not yet counted off.                                  *)
Counting == {t \in Threads : idlePc[t] = "uncount"}
PendingCounted ==
  /\ IsFiniteSet(registered)
  /\ pending = Cardinality(registered) + Cardinality(Counting)

LEMMA CountingFinite == IsFiniteSet(Counting) /\ Cardinality(Counting) \in Nat
  BY BusyFinite, FS_Subset, FS_CardinalityType DEF Counting

LEMMA CountingKept ==
  ASSUME Idling, PendingCounted, UNCHANGED <<registered, pending>>,
         \A t \in Threads : idlePc'[t] = "uncount" <=> idlePc[t] = "uncount"
  PROVE  PendingCounted'
<1>1. Counting' = Counting
  BY DEF Counting
<1> QED
  BY <1>1 DEF PendingCounted

LEMMA CountingAdd ==
  ASSUME PendingCounted, UNCHANGED idlePc, NEW w \in EventJobs, AddEvent(w)
  PROVE  PendingCounted'
<1>1. w \notin registered /\ registered' = registered \cup {w} /\ pending' = pending + 1
  BY DEF AddEvent
<1>2. /\ IsFiniteSet(registered') /\ Cardinality(registered') = Cardinality(registered) + 1
      /\ Cardinality(registered) \in Nat
  BY <1>1, FS_AddElement, FS_CardinalityType DEF PendingCounted
<1>3. Counting' = Counting
  BY DEF Counting
<1> QED
  BY <1>1, <1>2, <1>3, CountingFinite DEF PendingCounted

LEMMA CountingStep ==
  ASSUME TypeInv, OwnerAhead, Idling, PendingCounted, [IONext]_<<vars, ioVars>>
  PROVE  PendingCounted'
<1> USE Acting DEF eventVars
<1>1. CASE IOStart \/ IOJoin \/ IOTerminated \/ UNCHANGED <<vars, ioVars>>
  BY <1>1, CountingKept DEF IOStart, IOJoin, IOTerminated, ioVars
<1>2. CASE OwnerCalls
  <2>1. UNCHANGED <<idlePc, eventVars>> \/ \E w \in EventJobs : AddEvent(w) /\ UNCHANGED idlePc
    BY <1>2 DEF OwnerCalls, AddEvent
  <2> QED
    BY <2>1, CountingKept, CountingAdd
<1>3. CASE IOStop
  BY <1>3, CountingKept DEF IOStop
<1>4. CASE RootLooks \/ IOEnterRoot \/ IOSkipRoot
  <2>1. /\ UNCHANGED <<registered, pending>>
        /\ \E at \in {"pending", "wait", "out"} : idlePc' = [idlePc EXCEPT ![Caller] = at]
        /\ ownerPc = "drain"
    BY <1>4 DEF RootLooks, IOEnterRoot, IOSkipRoot
  <2>2. Caller \in Threads => idlePc[Caller] # "uncount"
    BY <2>1 DEF OwnerAhead, Idling
  <2> QED
    BY <2>1, <2>2, CountingKept DEF Idling
<1>5. ASSUME NEW u \in Actors, Notify(u) PROVE PendingCounted'
  BY <1>5, CountingKept DEF Notify
<1>6. ASSUME NEW w \in EventJobs, Fire(w) PROVE PendingCounted'
  BY <1>6, CountingKept DEF Fire
<1>7. ASSUME NEW t \in Threads, IOWork(t) PROVE PendingCounted'
  BY <1>7, WorkFrame, CountingKept, CountingAdd
<1>8. ASSUME NEW t \in Threads, IdleStep(t) PROVE PendingCounted'
  <2>1. CASE IOEnterIdle(t) \/ CheckStopped(t) \/ Poll(t) \/ Timeout(t) \/ Drain(t) \/ BackToScan(t)
             \/ \E w \in EventJobs : Stale(t, w)
    <3>1. UNCHANGED <<registered, pending>>
      BY <2>1 DEF IOEnterIdle, CheckStopped, Poll, Timeout, Drain, BackToScan, Stale, ioVars
    <3>2. idlePc[t] # "uncount"
      BY <2>1 DEF IOEnterIdle, EnterIdle, CheckStopped, Poll, Timeout, Drain, BackToScan, Stale,
         InIdle, Idling
    <3>3. \E at \in IdleAt \ {"uncount"} : idlePc' = [idlePc EXCEPT ![t] = at] \/ UNCHANGED idlePc
      BY <2>1 DEF IOEnterIdle, CheckStopped, Poll, Timeout, Drain, BackToScan, Stale, IdleAt
    <3> QED
      BY <3>1, <3>2, <3>3, CountingKept DEF Idling
  <2>2. CASE CheckPending(t)
    <3>1. /\ UNCHANGED <<registered, pending>> /\ idlePc[t] = "pending"
          /\ \E at \in {"out", "wait"} : idlePc' = [idlePc EXCEPT ![t] = at]
      BY <2>2 DEF CheckPending, Leaves, InIdle
    <3> QED
      BY <3>1, CountingKept DEF Idling
  <2>3. CASE Uncount(t)
    <3>1. /\ idlePc[t] = "uncount" /\ idlePc' = [idlePc EXCEPT ![t] = "handle"]
          /\ pending' = pending - 1 /\ registered' = registered
      BY <2>3 DEF Uncount, InIdle
    <3>2. Counting' = Counting \ {t} /\ t \in Counting
      BY <3>1 DEF Counting, Idling
    <3>3. Cardinality(Counting') = Cardinality(Counting) - 1
      BY <3>2, CountingFinite, FS_RemoveElement
    <3> QED
      BY <3>1, <3>3, CountingFinite, FS_CardinalityType DEF PendingCounted
  <2>4. ASSUME NEW w \in EventJobs, Deliver(t, w) PROVE PendingCounted'
    <3>1. /\ idlePc[t] = "handle" /\ idlePc' = [idlePc EXCEPT ![t] = "uncount"]
          /\ pending' = pending /\ registered' = registered \ {w} /\ w \in registered
      BY <2>4 DEF Deliver, InIdle
    <3>2. Counting' = Counting \cup {t} /\ t \notin Counting
      BY <3>1 DEF Counting, Idling
    <3>3. Cardinality(Counting') = Cardinality(Counting) + 1
      BY <3>2, CountingFinite, FS_AddElement
    <3>4. IsFiniteSet(registered') /\ Cardinality(registered') = Cardinality(registered) - 1
      BY <3>1, FS_RemoveElement DEF PendingCounted
    <3> QED
      BY <3>1, <3>3, <3>4, CountingFinite, FS_CardinalityType DEF PendingCounted
  <2> QED
    BY <1>8, <2>1, <2>2, <2>3, <2>4 DEF IdleStep
<1>9. ASSUME NEW t \in Threads, ThreadStep(t) PROVE PendingCounted'
  BY <1>5, <1>7, <1>8, <1>9 DEF ThreadStep, IOWork
<1> QED
  BY <1>1, <1>2, <1>3, <1>4, <1>5, <1>6, <1>9 DEF IONext, IOStopStep

(* So a count of zero says that nothing is registered.                     *)
LEMMA NonePending == PendingCounted /\ pending = 0 => registered = {}
<1> SUFFICES ASSUME PendingCounted, pending = 0 PROVE registered = {}
  OBVIOUS
<1>1. Cardinality(registered) \in Nat /\ Cardinality(Counting) \in Nat
  BY CountingFinite, FS_CardinalityType DEF PendingCounted
<1>2. Cardinality(registered) = 0
  BY <1>1 DEF PendingCounted
<1> QED
  BY <1>2, FS_EmptySet DEF PendingCounted

-----------------------------------------------------------------------------
(* Nothing is left behind.                                                 *)

(* A coroutine that yielded, after --m_activeThreadCount and before        *)
(* schedule(): neither the count nor the queue shows it.                   *)
ComesBack == \E t \in Threads : pc[t] = "settle" /\ fstate[OnFiber(t)] = "READY"

(* What stopped() is meant to tell: that no job is left to run.            *)
StoppedIsTrue == Stopped => ~ComesBack

(* A thread that will still look at epoll, and one that has not even seen  *)
(* Scheduler::stopped() hold since it last slept.                          *)
Looks(t) ==
  ~idleDone[t] /\ (pc[t] # "off" \/ ownerPc \in {"new", "open", "drain"})
Attends(t) == Looks(t) /\ idlePc[t] # "pending"

(* Jobs go on, and events stay registered, only as long as somebody is     *)
(* there.  A job may register another event, so it needs the second kind   *)
(* of thread: the first may be about to find the count zero.               *)
WorkLeft == queue # <<>> \/ active # 0 \/ ComesBack
Attended ==
  /\ WorkLeft => \E t \in Threads : Attends(t)
  /\ registered # {} => \E t \in Threads : Looks(t)

LEMMA AttendedKept ==
  ASSUME Attended, WorkLeft' => WorkLeft, registered' # {} => registered # {},
         \A t \in Threads : Attends(t) => Attends(t)',
         \A t \in Threads : Looks(t) => Looks(t)'
  PROVE  Attended'
  BY DEF Attended

(* A thread that runs a job is counted.                                    *)
LEMMA RunsCounted ==
  ASSUME ActiveCountExact
  PROVE  /\ \A t \in Threads : pc[t] \in {"run", "swapOut"} => active # 0
         /\ \A t \in Threads : pc[t] = "dispatch" /\ ft[t] # NoEntry => active # 0
<1>1. active = 0 => Busy = {}
  BY BusyFinite, FS_EmptySet DEF ActiveCountExact
<1> QED
  BY <1>1 DEF Busy

(* Work comes from work: only the owner and idle() bring new jobs.         *)
LEMMA WorkGoesOn ==
  ASSUME TypeInv, ActiveCountExact, NEW t \in Threads, RunsLoop(t) \/ Works(t), WorkLeft'
  PROVE  WorkLeft
<1> SUFFICES ASSUME queue = <<>>, active = 0 PROVE ComesBack
  BY DEF WorkLeft
<1>1. \A u \in Threads : /\ pc[u] \notin {"run", "swapOut"}
                         /\ pc[u] = "dispatch" => ft[u] = NoEntry
  BY RunsCounted
<1>2. ~Works(t)
  BY <1>1 DEF Works, TaskSchedule, YieldReady, YieldHold, Yield, Finish, Throw, RunsJob
<1>3. ~(SwapInFiber(t) \/ DropFinished(t) \/ RunCallback(t) \/ SwapOut(t))
  BY <1>1 DEF SwapInFiber, DropFinished, RunCallback, SwapOut, NoEntry
<1>4. ~Take(t)
  BY DEF Take
<1>5. CASE Requeue(t)
  BY <1>5 DEF Requeue, ComesBack
<1>6. CASE FindNothing(t) \/ LeaveLoop(t) \/ Release(t) \/ FindsHold(t) \/ Park(t)
  <2>1. UNCHANGED <<queue, active>> /\ pc'[t] # "settle"
    BY <1>6 DEF FindNothing, LeaveLoop, Release, FindsHold, Park, LetGo, TypeInv, TypeOK
  <2>2. PICK u \in Threads : pc'[u] = "settle" /\ fstate'[OnFiber(u)'] = "READY"
    BY <2>1 DEF WorkLeft, ComesBack
  <2>3. u # t /\ pc[u] = "settle" /\ OnFiber(u)' = OnFiber(u)
    <3>1. u # t
      BY <2>1, <2>2
    <3> QED
      BY <2>2, <3>1, <1>6 DEF FindNothing, LeaveLoop, Release, FindsHold, Park, LetGo, OnFiber,
         TypeInv, TypeOK
  <2>4. OnFiber(u) \in Fibers
    BY <2>3 DEF TypeInv, OnSomeFiber
  <2>5. \A f \in Fibers : fstate'[f] \in {fstate[f], "INIT", "HOLD"}
    BY <1>6 DEF FindNothing, LeaveLoop, Release, FindsHold, Park, fiberVars, TypeInv, TypeOK
  <2> QED
    BY <2>2, <2>3, <2>4, <2>5 DEF ComesBack
<1> QED
  BY <1>2, <1>3, <1>4, <1>5, <1>6 DEF RunsLoop

(* The steps of the threads.                                               *)
LEMMA AttendedWork ==
  ASSUME IOShape, Attended, NEW t \in Threads, IOWork(t)
  PROVE  Attended'
<1>1. TypeInv /\ ActiveCountExact /\ \A u \in Threads : pc[u] \in {"run", "swapOut"} => active # 0
  BY RunsCounted DEF IOShape
<1>2. /\ \A u \in Threads : Attends(u) => Attends(u)'
      /\ \A u \in Threads : Looks(u) => Looks(u)'
  BY <1>1, WorkFrame DEF Attends, Looks, Outside
<1>3. CASE (RunsLoop(t) \/ Works(t)) /\ UNCHANGED <<registered, pending>>
  BY <1>1, <1>2, <1>3, WorkGoesOn, AttendedKept
<1>4. CASE pc[t] = "run" /\ UNCHANGED vars
  <2>1. PICK u \in Threads : Attends(u)
    BY <1>1, <1>4 DEF Attended, WorkLeft
  <2>2. Attends(u)' /\ Looks(u)'
    BY <1>2, <2>1 DEF Attends
  <2> QED
    BY <2>2 DEF Attended
<1> QED
  BY <1>1, <1>3, <1>4, WorkFrame

(* A step that changes nothing for anybody.                                *)
LEMMA AttendedSame ==
  ASSUME Attended, UNCHANGED vars, registered' = registered,
         \A t \in Threads : idlePc'[t] = "pending" => idlePc[t] = "pending"
  PROVE  Attended'
<1>1. WorkLeft' => WorkLeft
  BY DEF WorkLeft, ComesBack, OnFiber, vars, loopVars, fiberVars
<1>2. \A t \in Threads : Looks(t) => Looks(t)'
  BY DEF Looks, vars, loopVars, stopVars
<1> QED
  BY <1>1, <1>2, AttendedKept DEF Attends

(* A thread that sees Scheduler::stopped() hold: there is no job.          *)
LEMMA AttendedChecks ==
  ASSUME Attended, StoppedIsTrue, UNCHANGED vars, registered' = registered, Stopped
  PROVE  Attended'
<1>1. ~WorkLeft'
  BY DEF StoppedIsTrue, Stopped, WorkLeft, ComesBack, OnFiber, vars, loopVars, fiberVars
<1>2. \A t \in Threads : Looks(t) => Looks(t)'
  BY DEF Looks, vars, loopVars, stopVars
<1> QED
  BY <1>1, <1>2 DEF Attended

(* idle().  A thread that delivers an event attends to the new job itself. *)
LEMMA AttendedIdle ==
  ASSUME IOShape, PendingCounted, Attended, StoppedIsTrue, NEW t \in Threads, IdleStep(t)
  PROVE  Attended'
<1> USE Acting DEF IOShape, Idling, TypeInv, TypeOK
<1>1. CASE Poll(t) \/ Timeout(t) \/ Drain(t) \/ Uncount(t) \/ \E w \in EventJobs : Stale(t, w)
  <2>1. /\ UNCHANGED vars /\ registered' = registered
        /\ \E at \in {"handle", "out"} : idlePc' = [idlePc EXCEPT ![t] = at] \/ UNCHANGED idlePc
    BY <1>1 DEF Poll, Timeout, Drain, Uncount, Stale, eventVars
  <2> QED
    BY <2>1, AttendedSame
<1>2. CASE CheckStopped(t)
  <2>1. /\ UNCHANGED vars /\ registered' = registered
        /\ ~Stopped => idlePc' = [idlePc EXCEPT ![t] = "wait"]
    BY <1>2 DEF CheckStopped, eventVars
  <2> QED
    BY <2>1, AttendedSame, AttendedChecks
<1>3. CASE CheckPending(t) /\ ~Leaves(t)
  <2>1. /\ UNCHANGED vars /\ registered' = registered
        /\ idlePc' = [idlePc EXCEPT ![t] = "wait"]
    BY <1>3 DEF CheckPending, eventVars
  <2> QED
    BY <2>1, AttendedSame
<1>4. CASE IOEnterIdle(t) \/ BackToScan(t)
  <2>1. /\ UNCHANGED <<queue, active, ownerPc, ft, cbFiber, idleDone, fstate>>
        /\ registered' = registered
        /\ \E at \in {"check", "out"} : idlePc' = [idlePc EXCEPT ![t] = at]
        /\ \E at \in {"idle", "scan"} : pc' = [pc EXCEPT ![t] = at]
    BY <1>4 DEF IOEnterIdle, EnterIdle, BackToScan, stopVars, fiberVars, eventVars
  <2>2. WorkLeft' => WorkLeft
    BY <2>1 DEF WorkLeft, ComesBack, OnFiber
  <2>3. \A u \in Threads : Looks(u) => Looks(u)'
    BY <2>1 DEF Looks
  <2>4. \A u \in Threads : Attends(u) => Attends(u)'
    BY <2>1, <2>3 DEF Attends
  <2> QED
    BY <2>1, <2>2, <2>3, <2>4, AttendedKept
<1>5. CASE CheckPending(t) /\ Leaves(t)
  <2>1. /\ UNCHANGED <<queue, active, ownerPc, ft, cbFiber, fstate>>
        /\ registered' = registered /\ registered = {} /\ idlePc[t] = "pending"
        /\ idlePc' = [idlePc EXCEPT ![t] = "out"]
        /\ pc' = [pc EXCEPT ![t] = "scan"] /\ idleDone' = [idleDone EXCEPT ![t] = TRUE]
    <3>1. pending = 0
      BY <1>5 DEF CheckPending, Leaves, InIdle
    <3> QED
      BY <1>5, <3>1, NonePending DEF CheckPending, Leaves, InIdle, stopVars, fiberVars, eventVars
  <2>2. WorkLeft' => WorkLeft
    BY <2>1 DEF WorkLeft, ComesBack, OnFiber
  <2>3. \A u \in Threads \ {t} : Attends(u) => Attends(u)'
    BY <2>1 DEF Attends, Looks
  <2>4. ~Attends(t)
    BY <2>1 DEF Attends
  <2> QED
    BY <2>1, <2>2, <2>3, <2>4 DEF Attended
<1>6. ASSUME NEW w \in EventJobs, Deliver(t, w) PROVE Attended'
  <2>1. /\ UNCHANGED <<pc, idleDone, ownerPc>> /\ registered' = registered \ {w}
        /\ pc[t] = "idle" /\ idlePc' = [idlePc EXCEPT ![t] = "uncount"]
    BY <1>6 DEF Deliver, InIdle, stopVars, loopVars
  <2>2. Looks(t)' /\ Attends(t)'
    BY <2>1 DEF Looks, Attends
  <2> QED
    BY <2>2 DEF Attended
<1> QED
  BY <1>1, <1>2, <1>3, <1>4, <1>5, <1>6 DEF IdleStep

(* Before stop() is called every thread attends.                           *)
LEMMA OpenAttends ==
  ASSUME IOShape, ownerPc \in {"new", "open"}, NEW t \in Threads
  PROVE  Attends(t)
  BY Acting DEF IOShape, OwnerAhead, Idling, Attends, Looks, TypeInv, TypeOK

(* The owner.  It passes its own loop by only when it has seen that no job *)
(* is left and then no event.                                              *)
LEMMA AttendedOwner ==
  ASSUME IOShape, PendingCounted, Attended, StoppedIsTrue,
         \/ IOStart \/ OwnerCalls \/ IOStop \/ RootLooks \/ IOEnterRoot \/ IOSkipRoot \/ IOJoin
  PROVE  Attended'
<1> USE Acting, ThreadsAssumption DEF IOShape, Idling, TypeInv, TypeOK
<1>1. CASE IOStart \/ IOJoin
  <2>1. /\ UNCHANGED <<idleDone, idlePc, registered, queue, active, ft, cbFiber, fstate>>
        /\ \A t \in Threads : pc'[t] = pc[t] \/ (pc[t] = "off" /\ pc'[t] = "scan")
        /\ (ownerPc = "new" /\ ownerPc' = "open") \/ ownerPc \in {"root", "join"}
    BY <1>1, StartFrame DEF ioVars, eventVars, fiberVars
  <2>2. WorkLeft' => WorkLeft
    BY <2>1 DEF WorkLeft, ComesBack, OnFiber
  <2>3. \A t \in Threads : Looks(t) => Looks(t)'
    BY <2>1 DEF Looks
  <2> QED
    BY <2>1, <2>2, <2>3, AttendedKept DEF Attends
<1>2. CASE OwnerCalls
  <2>1. UNCHANGED <<pc, idleDone, idlePc, ownerPc>> /\ ownerPc = "open"
    BY <1>2 DEF OwnerCalls, OwnerSchedule, AddEvent, vars, stopVars, loopVars
  <2>2. PICK t \in Threads : Attends(t)
    BY <2>1, OpenAttends
  <2> QED
    BY <2>1, <2>2 DEF Attended, Attends, Looks
<1>3. CASE IOStop
  <2>1. /\ UNCHANGED <<queue, active, pc, ft, cbFiber, idleDone, fstate, idlePc, registered, pending>>
        /\ ownerPc = "open"
        /\ \/ ownerPc' = "drain"
           \/ Workers = {} /\ queue = <<>> /\ active = 0 /\ pending = 0
    BY <1>3 DEF IOStop, loopVars, fiberVars, eventVars
  <2>2. WorkLeft' => WorkLeft
    BY <2>1 DEF WorkLeft, ComesBack, OnFiber
  <2>3. CASE ownerPc' = "drain"
    <3>1. \A t \in Threads : Looks(t) => Looks(t)'
      BY <2>1, <2>3 DEF Looks
    <3> QED
      BY <2>1, <2>2, <3>1, AttendedKept DEF Attends
  <2>4. CASE Workers = {} /\ queue = <<>> /\ active = 0 /\ pending = 0
    <3>1. \A t \in Threads : pc[t] = "off"
      BY <2>1, <2>4 DEF OwnerAhead
    <3>2. ~WorkLeft' /\ registered' = {}
      BY <2>1, <2>2, <2>4, <3>1, NonePending DEF WorkLeft, ComesBack
    <3> QED
      BY <3>2 DEF Attended
  <2> QED
    BY <2>1, <2>3, <2>4
<1>4. CASE RootLooks
  <2>1. /\ UNCHANGED vars /\ registered' = registered
        /\ ~Stopped => idlePc' = [idlePc EXCEPT ![Caller] = "wait"]
    BY <1>4 DEF RootLooks, eventVars
  <2> QED
    BY <2>1, AttendedSame, AttendedChecks
<1>5. CASE IOEnterRoot
  <2>1. /\ UNCHANGED <<queue, active, ft, cbFiber, idleDone, fstate, registered>>
        /\ idlePc' = [idlePc EXCEPT ![Caller] = "out"] /\ pc' = [pc EXCEPT ![Caller] = "scan"]
        /\ ownerPc = "drain" /\ ownerPc' = "root"
    BY <1>5 DEF IOEnterRoot, fiberVars, eventVars
  <2>2. WorkLeft' => WorkLeft
    BY <2>1 DEF WorkLeft, ComesBack, OnFiber
  <2>3. \A t \in Threads : Looks(t) => Looks(t)'
    BY <2>1 DEF Looks, OwnerAhead
  <2>4. \A t \in Threads : Attends(t) => Attends(t)'
    BY <2>1, <2>3 DEF Attends
  <2> QED
    BY <2>1, <2>2, <2>3, <2>4, AttendedKept
<1>6. CASE IOSkipRoot
  <2>1. /\ UNCHANGED <<queue, active, pc, ft, cbFiber, idleDone, fstate, registered>>
        /\ idlePc' = [idlePc EXCEPT ![Caller] = "out"]
        /\ ownerPc = "drain" /\ ownerPc' = "join"
        /\ UseCaller => idlePc[Caller] = "pending" /\ pending = 0
    BY <1>6 DEF IOSkipRoot, loopVars, fiberVars, eventVars
  <2>2. WorkLeft' => WorkLeft
    BY <2>1 DEF WorkLeft, ComesBack, OnFiber
  <2>3. \A t \in Workers : Looks(t) => Looks(t)'
    BY <2>1 DEF Looks, OwnerAhead
  <2>4. \A t \in Workers : Attends(t) => Attends(t)'
    BY <2>1, <2>3 DEF Attends
  <2>5. CASE UseCaller
    <3>1. registered = {} /\ ~Attends(Caller)
      BY <2>1, <2>5, NonePending DEF Attends
    <3> QED
      BY <2>1, <2>2, <2>4, <3>1 DEF Attended
  <2>6. CASE ~UseCaller
    <3>1. Threads = Workers
      BY <2>6 DEF Threads
    <3> QED
      BY <2>1, <2>2, <2>3, <2>4, <3>1, AttendedKept
  <2> QED
    BY <2>5, <2>6
<1> QED
  BY <1>1, <1>2, <1>3, <1>4, <1>5, <1>6

(* Every step, as long as stopped() tells the truth.                       *)
LEMMA AttendedStep ==
  ASSUME IOShape, PendingCounted, Attended, StoppedIsTrue, [IONext]_<<vars, ioVars>>
  PROVE  Attended'
<1>1. ASSUME NEW u \in Actors, Notify(u) PROVE Attended'
  BY <1>1, AttendedSame DEF Notify, eventVars
<1>2. ASSUME NEW w \in EventJobs, Fire(w) PROVE Attended'
  BY <1>2, AttendedSame DEF Fire, eventVars
<1>3. CASE IOTerminated \/ UNCHANGED <<vars, ioVars>>
  BY <1>3, AttendedSame DEF IOTerminated, ioVars, eventVars
<1>4. ASSUME NEW t \in Threads, ThreadStep(t) PROVE Attended'
  BY <1>1, <1>4, AttendedWork, AttendedIdle, Acting DEF ThreadStep, IOWork
<1> QED
  BY <1>1, <1>2, <1>3, <1>4, AttendedOwner, Acting DEF IONext, IOStopStep

-----------------------------------------------------------------------------
(* What stop() leaves.                                                     *)

StopInv == IOShape /\ PendingCounted /\ Attended

LEMMA StopInvInit == IOInit => StopInv
<1> SUFFICES ASSUME IOInit PROVE PendingCounted /\ Attended
  BY IOShapeInit DEF StopInv
<1>1. Init
  BY DEF IOInit
<1>2. Counting = {}
  BY Acting DEF IOInit, Counting
<1>3. PendingCounted
  BY <1>2, FS_EmptySet DEF IOInit, PendingCounted
<1>4. ~WorkLeft /\ registered = {}
  BY <1>1 DEF IOInit, Init, WorkLeft, ComesBack
<1> QED
  BY <1>3, <1>4 DEF Attended

LEMMA StopInvStep == StopInv /\ StoppedIsTrue /\ [IONext]_<<vars, ioVars>> => StopInv'
  BY IOShapeStep, CountingStep, AttendedStep DEF StopInv, IOShape

(* No event is left without a thread that will look at epoll, however many *)
(* threads, events and jobs there are, as long as stopped() tells the      *)
(* truth: although it reads the queue and the count of pending events one  *)
(* after the other while others deliver events and leave.                  *)
THEOREM EventsAttended == IOSpec /\ []StoppedIsTrue => []NoOrphanedEvent
<1>1. StopInv => NoOrphanedEvent
  BY DEF StopInv, Attended, NoOrphanedEvent, Looks
<1> QED
  BY <1>1, StopInvInit, StopInvStep, PTL DEF IOSpec

(* When the owner is back from stop() the threads have left their loops.   *)
LEMMA StoppedThreads ==
  ASSUME TypeInv, OwnerAhead, OwnerBehind, ownerPc = "stopped", NEW t \in Threads
  PROVE  pc[t] \in {"off", "exited"} /\ ~Looks(t)
  BY Acting DEF OwnerAhead, OwnerBehind, Looks, Threads

(* Then nobody attends, so there is no job and no event to attend to.      *)
LEMMA StoppedLeaves ==
  ASSUME StopInv, OwnerBehind, Exclusion, JobInv
  PROVE  NothingLeft
<1> SUFFICES ASSUME ownerPc = "stopped" PROVE NothingLeft
  BY DEF NothingLeft, StopDrains, QueueDrained
<1>1. TypeInv /\ OwnerAhead
  BY DEF StopInv, IOShape
<1>2. \A t \in Threads : pc[t] \in {"off", "exited"} /\ ~Looks(t)
  BY <1>1, StoppedThreads
<1>3. ~WorkLeft /\ registered = {}
  BY <1>2 DEF StopInv, Attended, Attends
<1>4. QueueDrained
  BY <1>2, <1>3 DEF QueueDrained, WorkLeft
<1>5. ASSUME NEW j \in submitted \ ended PROVE OnHoldFor(j) # {}
  <2>1. InOnePlace(j)
    BY <1>1, Placed
  <2>2. HeldFor(j) = {}
    BY <1>2 DEF HeldFor
  <2>3. QueuedFor(j) = {}
    BY <1>3 DEF QueuedFor, WorkLeft
  <2> QED
    BY <2>1, <2>2, <2>3 DEF InOnePlace
<1> QED
  BY <1>3, <1>4, <1>5 DEF NothingLeft, StopDrains

(* stop() returns only when every thread has left, the queue is empty, no  *)
(* event is registered and every job is over or on hold: on the same       *)
(* condition.                                                              *)
THEOREM StopLeavesNothing == IOSpec /\ []StoppedIsTrue => []NothingLeft
<1> DEFINE Inv == StopInv /\ OwnerBehind /\ Exclusion /\ JobInv
<1>1. IOInit => Inv
  BY StopInvInit, ExclusionInit, JobInit DEF IOInit, Init, OwnerBehind
<1>2. Inv /\ StoppedIsTrue /\ [IONext]_<<vars, ioVars>> => Inv'
  BY StopInvStep, IOBehindStep, IOExclusionStep, IOJobStep DEF StopInv, IOShape
<1>3. Inv => NothingLeft
  BY StoppedLeaves
<1> QED
  BY <1>1, <1>2, <1>3, PTL DEF IOSpec

(* Where no job yields, stopped() tells the truth: the window between the  *)
(* count and the queue is that of a yield.                                 *)
NobodyYields == \A f \in Fibers : fstate[f] # "READY"

LEMMA NeverReady ==
  ASSUME MaxYields = 0, TypeInv, OwnerAhead, NobodyYields, [IONext]_<<vars, ioVars>>
  PROVE  NobodyYields'
<1>1. CASE ~QuietStep
  BY <1>1, IOCases, IOFrame DEF NobodyYields, fiberVars
<1>2. CASE OwnerStep
  BY <1>2, OwnerFrame DEF NobodyYields, fiberVars
<1>3. CASE UNCHANGED vars
  BY <1>3 DEF NobodyYields, vars, fiberVars
<1>4. ASSUME NEW t \in Threads, LoopStep(t) \/ Works(t) PROVE NobodyYields'
  <2>1. ~(YieldReady(t) \/ YieldHold(t))
    BY BoundsAssumption DEF YieldReady, YieldHold, Yield, RunsJob, TypeInv, TypeOK, OnSomeFiber
  <2>2. \A f \in Fibers :
          fstate'[f] \in {fstate[f], "EXEC", "INIT", "HOLD", "TERM", "EXCEPT"}
    <3>1. CASE Works(t)
      BY <2>1, <3>1 DEF Works, TaskSchedule, Finish, Throw, fiberVars, TypeInv, TypeOK
    <3>2. CASE Take(t) \/ FindNothing(t) \/ DropFinished(t) \/ EnterIdle(t) \/ LeaveLoop(t)
               \/ Idle(t) \/ SwapOut(t) \/ Requeue(t) \/ FindsHold(t)
      BY <3>2 DEF Take, FindNothing, DropFinished, EnterIdle, LeaveLoop, Idle, SwapOut, Requeue,
         FindsHold, fiberVars
    <3>3. CASE SwapInFiber(t) \/ RunCallback(t) \/ Release(t) \/ Park(t)
      BY <3>3 DEF SwapInFiber, RunCallback, Release, Park, fiberVars, TypeInv, TypeOK
    <3> QED
      BY <1>4, <3>1, <3>2, <3>3 DEF LoopStep
  <2> QED
    BY <2>2 DEF NobodyYields
<1> QED
  BY <1>1, <1>2, <1>3, <1>4 DEF QuietStep

(* So it leaves nothing behind in a program whose jobs do not yield.       *)
THEOREM WithoutYields ==
  ASSUME MaxYields = 0
  PROVE  IOSpec => [](NoOrphanedEvent /\ NothingLeft)
<1>1. IOInit => IOShape /\ NobodyYields
  BY IOShapeInit DEF IOInit, Init, NobodyYields
<1>2. IOShape /\ NobodyYields /\ [IONext]_<<vars, ioVars>> => (IOShape /\ NobodyYields)'
  BY IOShapeStep, NeverReady DEF IOShape
<1>3. IOShape /\ NobodyYields => StoppedIsTrue
  BY DEF IOShape, TypeInv, OnSomeFiber, NobodyYields, StoppedIsTrue, ComesBack
<1> QED
  BY <1>1, <1>2, <1>3, EventsAttended, StopLeavesNothing, PTL DEF IOSpec

=============================================================================
