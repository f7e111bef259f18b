--------------------------- MODULE SchedulerProofs ---------------------------
(***************************************************************************)
(* What holds of the scheduler for every number of threads and jobs.       *)
(***************************************************************************)
EXTENDS Scheduler, SequenceTheorems, FiniteSetTheorems, TLAPS

(* RemoveAt (std::list::erase) keeps the other entries in their order.     *)
LEMMA RemoveAtEntries ==
  ASSUME NEW S, NEW s \in Seq(S), NEW i \in DOMAIN s
  PROVE  /\ RemoveAt(s, i) \in Seq(S)
         /\ Len(RemoveAt(s, i)) = Len(s) - 1
         /\ \A k \in 1..(Len(s) - 1) :
              RemoveAt(s, i)[k] = IF k < i THEN s[k] ELSE s[k + 1]
<1>0. i \in 1..Len(s) /\ Len(s) \in Nat
  OBVIOUS
<1> DEFINE head == SubSeq(s, 1, i - 1)
           tail == SubSeq(s, i + 1, Len(s))
<1>1. /\ head \in Seq(S) /\ Len(head) = i - 1
      /\ \A k \in 1..(i - 1) : head[k] = s[k]
  BY <1>0
<1>2. /\ tail \in Seq(S) /\ Len(tail) = Len(s) - i
      /\ \A k \in 1..(Len(s) - i) : tail[k] = s[i + k]
  BY <1>0
<1>3. RemoveAt(s, i) = head \o tail
  BY DEF RemoveAt
<1> HIDE DEF head, tail
<1>4. /\ head \o tail \in Seq(S)
      /\ Len(head \o tail) = Len(s) - 1
      /\ \A k \in 1..(Len(s) - 1) :
           (head \o tail)[k] = IF k < i THEN s[k] ELSE s[k + 1]
  <2>1. /\ head \o tail \in Seq(S)
        /\ Len(head \o tail) = Len(head) + Len(tail)
        /\ \A k \in 1..(Len(head) + Len(tail)) :
             (head \o tail)[k] = IF k <= Len(head) THEN head[k] ELSE tail[k - Len(head)]
    BY <1>1, <1>2, ConcatProperties
  <2>2. Len(head) + Len(tail) = Len(s) - 1
    BY <1>0, <1>1, <1>2
  <2>3. ASSUME NEW k \in 1..(Len(s) - 1), k < i
        PROVE  (head \o tail)[k] = s[k]
    <3>1. k \in 1..(i - 1) /\ k <= Len(head)
      BY <1>0, <1>1, <2>3
    <3> QED
      BY <1>1, <2>1, <2>2, <3>1
  <2>4. ASSUME NEW k \in 1..(Len(s) - 1), ~(k < i)
        PROVE  (head \o tail)[k] = s[k + 1]
    <3>1. /\ ~(k <= Len(head)) /\ k - Len(head) \in 1..(Len(s) - i)
          /\ i + (k - Len(head)) = k + 1
      BY <1>0, <1>1, <2>4
    <3>2. (head \o tail)[k] = tail[k - Len(head)]
      BY <2>1, <2>2, <3>1
    <3> QED
      BY <1>2, <3>1, <3>2
  <2> QED
    BY <2>1, <2>2, <2>3, <2>4
<1> QED
  BY <1>3, <1>4

(* schedule() adds an entry behind all the others.                         *)
LEMMA AppendEntries ==
  ASSUME NEW S, NEW s \in Seq(S), NEW e \in S
  PROVE  /\ Append(s, e) \in Seq(S)
         /\ Len(Append(s, e)) = Len(s) + 1
         /\ \A k \in 1..Len(s) : Append(s, e)[k] = s[k]
         /\ Append(s, e)[Len(s) + 1] = e
  OBVIOUS

-----------------------------------------------------------------------------
(* Types.                                                                  *)

(* A thread that is on a coroutine, or has just come back from one, has    *)
(* one: the fiber branch of run() keeps the entry, the other its cbFiber.  *)
OnSomeFiber ==
  \A t \in Threads :
    pc[t] \in {"run", "swapOut", "settle", "park"} => OnFiber(t) \in Fibers

TypeInv == TypeOK /\ OnSomeFiber

USE DEF Fibers

(* The entries that schedule() makes are entries, and none is empty.       *)
LEMMA EntryTypes ==
  /\ \A f \in Jobs, u \in Threads \cup {AnyThread} : FiberEntry(f, u) \in Entries
  /\ \A j \in Jobs, u \in Threads \cup {AnyThread} : JobEntry(j, u) \in Entries
  /\ NoEntry \notin Entries
  /\ \A e \in Entries : /\ e.kind \in {"fiber", "cb"} /\ e.id \in Jobs
                        /\ e.thread \in Threads \cup {AnyThread}
                        /\ e.kind = "cb" => e.id \in Callbacks
  /\ NoEntry.kind = "none"
  BY DEF Entries, FiberEntry, JobEntry, NoEntry, Jobs

(* The constructor leaves every variable with its type.                    *)
LEMMA TypingInit == Init => TypeInv
<1> SUFFICES ASSUME Init PROVE TypeInv
  OBVIOUS
<1>1. queue \in Seq(Entries)
  BY EmptySeq DEF Init
<1>2. fstate \in [Fibers -> FiberStates]
  BY DEF Init, FiberStates
<1>3. fjob \in [Fibers -> Jobs \cup {NoJob}]
  BY DEF Init, Jobs
<1>4. /\ ft \in [Threads -> Entries \cup {NoEntry}]
      /\ cbFiber \in [Threads -> Callbacks \cup {NoJob}]
      /\ idleDone \in [Threads -> BOOLEAN]
      /\ yields \in [Jobs -> Nat]
  BY DEF Init
<1>5. /\ active \in Int
      /\ ownerPc \in {"new", "open", "drain", "root", "join", "stopped"}
      /\ submitted \subseteq Jobs
      /\ ended \subseteq Jobs
  BY DEF Init
<1>9. autoStop \in BOOLEAN /\ isRunning \in BOOLEAN
  BY DEF Init
<1>6. pc \in [Threads -> {"off", "scan", "dispatch", "run", "swapOut",
                         "settle", "park", "idle", "exited"}]
  BY DEF Init
<1>7. TypeOK
  BY <1>1, <1>2, <1>3, <1>4, <1>5, <1>6, <1>9 DEF TypeOK
<1>8. OnSomeFiber
  BY DEF Init, OnSomeFiber
<1> QED
  BY <1>7, <1>8 DEF TypeInv

(* The steps of the owner, start() to stop(), keep the types.              *)
LEMMA TypingOwner == TypeInv /\ OwnerStep => TypeInv'
<1> SUFFICES ASSUME TypeInv, OwnerStep PROVE TypeInv'
  OBVIOUS
<1> USE DEF TypeInv
<1>1. CASE Start
  BY <1>1 DEF Start, TypeOK, OnSomeFiber, OnFiber, fiberVars, jobVars
<1>2. CASE StopAtOnce
  BY <1>2 DEF StopAtOnce, TypeOK, OnSomeFiber, OnFiber, loopVars, fiberVars, jobVars
<1>3. CASE StopBegin
  BY <1>3 DEF StopBegin, TypeOK, OnSomeFiber, OnFiber, loopVars, fiberVars, jobVars
<1>4. CASE EnterRoot
  BY <1>4 DEF EnterRoot, TypeOK, OnSomeFiber, OnFiber, fiberVars, jobVars
<1>5. CASE SkipRoot
  BY <1>5 DEF SkipRoot, TypeOK, OnSomeFiber, OnFiber, loopVars, fiberVars, jobVars
<1>6. CASE LeaveRoot
  BY <1>6 DEF LeaveRoot, TypeOK, OnSomeFiber, OnFiber, loopVars, fiberVars, jobVars
<1>7. CASE Join
  BY <1>7 DEF Join, TypeOK, OnSomeFiber, OnFiber, loopVars, fiberVars, jobVars
<1>8. ASSUME NEW j \in Jobs, NEW u \in OwnerPins, OwnerSchedule(j, u) PROVE TypeInv'
  <2>1. JobEntry(j, u) \in Entries
    BY EntryTypes, PinsAssumption
  <2>2. queue' \in Seq(Entries)
    BY <1>8, <2>1, AppendEntries DEF OwnerSchedule, Submit, TypeOK
  <2> QED
    BY <1>8, <2>2 DEF OwnerSchedule, Submit, TypeOK, OnSomeFiber, OnFiber,
                      stopVars, loopVars, fiberVars
<1> QED
  BY <1>1, <1>2, <1>3, <1>4, <1>5, <1>6, <1>7, <1>8 DEF OwnerStep, StopStep

(* The steps of run() and idle() keep the types.                           *)
LEMMA TypingLoop ==
  ASSUME TypeInv, NEW t \in Threads, LoopStep(t)
  PROVE  TypeInv'
<1> USE DEF TypeInv
<1>1. CASE Take(t)
  <2>1. PICK i \in DOMAIN queue : /\ ft' = [ft EXCEPT ![t] = queue[i]]
                                  /\ queue' = RemoveAt(queue, i)
    BY <1>1 DEF Take
  <2>2. queue[i] \in Entries /\ queue' \in Seq(Entries)
    BY <2>1, RemoveAtEntries DEF TypeOK
  <2> QED
    BY <1>1, <2>1, <2>2 DEF Take, TypeOK, OnSomeFiber, OnFiber,
                            stopVars, fiberVars, jobVars
<1>2. CASE FindNothing(t)
  BY <1>2 DEF FindNothing, TypeOK, OnSomeFiber, OnFiber, stopVars, fiberVars, jobVars
<1>3. CASE SwapInFiber(t)
  <2>1. ft[t] \in Entries
    BY <1>3, EntryTypes DEF SwapInFiber, TypeOK
  <2>2. ft[t].id \in Fibers
    BY <2>1, EntryTypes
  <2> QED
    BY <1>3, <2>2 DEF SwapInFiber, TypeOK, OnSomeFiber, OnFiber, stopVars, jobVars,
                      FiberStates
<1>4. CASE DropFinished(t)
  BY <1>4 DEF DropFinished, TypeOK, OnSomeFiber, OnFiber, stopVars, fiberVars, jobVars
<1>5. CASE RunCallback(t)
  <2> DEFINE f == IF cbFiber[t] = NoJob THEN ft[t].id ELSE cbFiber[t]
  <2>1. ft[t] \in Entries
    BY <1>5, EntryTypes DEF RunCallback, TypeOK
  <2>2. ft[t].id \in Callbacks /\ f \in Callbacks
    BY <1>5, <2>1, EntryTypes DEF RunCallback, TypeOK
  <2>3. f \in Fibers /\ ft[t].id \in Jobs
    BY <2>2 DEF Jobs
  <2>4. /\ fstate' = [fstate EXCEPT ![f] = "EXEC"]
        /\ fjob' = [fjob EXCEPT ![f] = ft[t].id]
        /\ cbFiber' = [cbFiber EXCEPT ![t] = f]
        /\ ft' = [ft EXCEPT ![t] = NoEntry]
        /\ pc' = [pc EXCEPT ![t] = "run"]
    BY <1>5 DEF RunCallback
  <2> HIDE DEF f
  <2> QED
    BY <1>5, <2>2, <2>3, <2>4, EntryTypes
    DEF RunCallback, TypeOK, OnSomeFiber, OnFiber, stopVars, jobVars, FiberStates
<1>6. CASE EnterIdle(t)
  BY <1>6 DEF EnterIdle, TypeOK, OnSomeFiber, OnFiber, stopVars, fiberVars, jobVars
<1>7. CASE LeaveLoop(t)
  BY <1>7 DEF LeaveLoop, TypeOK, OnSomeFiber, OnFiber, stopVars, fiberVars, jobVars
<1>8. CASE Idle(t)
  BY <1>8 DEF Idle, Stopped, TypeOK, OnSomeFiber, OnFiber, stopVars, fiberVars, jobVars
<1>9. CASE SwapOut(t)
  BY <1>9 DEF SwapOut, TypeOK, OnSomeFiber, OnFiber, stopVars, fiberVars, jobVars
<1>10. CASE Requeue(t)
  <2>1. FiberEntry(OnFiber(t), AnyThread) \in Entries
    BY <1>10, EntryTypes DEF Requeue, OnSomeFiber
  <2>2. queue' \in Seq(Entries)
    BY <1>10, <2>1, AppendEntries DEF Requeue, TypeOK
  <2> QED
    BY <1>10, <2>2 DEF Requeue, LetGo, TypeOK, OnSomeFiber, OnFiber,
                       stopVars, fiberVars, jobVars
<1>11. CASE Release(t)
  BY <1>11 DEF Release, TypeOK, OnSomeFiber, OnFiber, stopVars, fiberVars, jobVars,
               FiberStates
<1>12. CASE FindsHold(t)
  BY <1>12 DEF FindsHold, TypeOK, OnSomeFiber, OnFiber, stopVars, fiberVars, jobVars
<1>13. CASE Park(t)
  BY <1>13 DEF Park, LetGo, TypeOK, OnSomeFiber, OnFiber, stopVars, jobVars, FiberStates
<1> QED
  BY <1>1, <1>2, <1>3, <1>4, <1>5, <1>6, <1>7, <1>8, <1>9, <1>10, <1>11, <1>12, <1>13
  DEF LoopStep

(* What the code of a job does keeps the types.                            *)
LEMMA TypingTask ==
  ASSUME TypeInv, NEW t \in Threads, TaskStep(t)
  PROVE  TypeInv'
<1> USE DEF TypeInv
<1>1. ASSUME NEW j \in Jobs, NEW u \in TaskPins, TaskSchedule(t, j, u) PROVE TypeInv'
  <2>1. JobEntry(j, u) \in Entries
    BY EntryTypes, PinsAssumption
  <2>2. queue' \in Seq(Entries)
    BY <1>1, <2>1, AppendEntries DEF TaskSchedule, Submit, TypeOK
  <2> QED
    BY <1>1, <2>2 DEF TaskSchedule, Submit, TypeOK, OnSomeFiber, OnFiber,
                      stopVars, loopVars, fiberVars
<1>2. ASSUME NEW f \in Fibers, Wake(t, f) PROVE TypeInv'
  <2>1. queue' \in Seq(Entries)
    BY <1>2, EntryTypes, AppendEntries DEF Wake, TypeOK
  <2> QED
    BY <1>2, <2>1 DEF Wake, TypeOK, OnSomeFiber, OnFiber,
                      stopVars, loopVars, fiberVars, jobVars
<1>3. ASSUME NEW s \in {"READY", "HOLD"}, Yield(t, s) PROVE TypeInv'
  <2>1. OnFiber(t) \in Fibers /\ fjob[OnFiber(t)] \in Jobs
    BY <1>3 DEF Yield, RunsJob, OnSomeFiber, TypeOK
  <2> QED
    BY <1>3, <2>1 DEF Yield, TypeOK, OnSomeFiber, OnFiber, stopVars, FiberStates
<1>4. CASE Finish(t)
  <2>1. OnFiber(t) \in Fibers /\ fjob[OnFiber(t)] \in Jobs
    BY <1>4 DEF Finish, RunsJob, OnSomeFiber, TypeOK
  <2> QED
    BY <1>4, <2>1 DEF Finish, TypeOK, OnSomeFiber, OnFiber, stopVars, FiberStates
<1>5. CASE Throw(t)
  <2>1. OnFiber(t) \in Fibers /\ fjob[OnFiber(t)] \in Jobs \cup {NoJob}
    BY <1>5 DEF Throw, OnSomeFiber, TypeOK
  <2> QED
    BY <1>5, <2>1 DEF Throw, TypeOK, OnSomeFiber, OnFiber, stopVars, FiberStates
<1> QED
  BY <1>1, <1>2, <1>3, <1>4, <1>5 DEF TaskStep, YieldReady, YieldHold

(* Every step keeps the types.                                             *)
LEMMA TypingStep == TypeInv /\ [Next]_vars => TypeInv'
<1>1. TypeInv /\ UNCHANGED vars => TypeInv'
  BY DEF vars, stopVars, loopVars, fiberVars, jobVars, TypeInv, TypeOK, OnSomeFiber, OnFiber
<1> QED
  BY <1>1, TypingOwner, TypingLoop, TypingTask DEF Next, Terminated

(* Every variable keeps its type, and a thread that has left the loop for  *)
(* a coroutine has one to be on: run() never settles an empty cbFiber.     *)
THEOREM Typing == Spec => []TypeInv
  BY TypingInit, TypingStep, PTL DEF Spec

(* The type invariant of the specification.                                *)
THEOREM TypeCorrect == Spec => []TypeOK
<1>1. TypeInv => TypeOK
  BY DEF TypeInv
<1> QED
  BY <1>1, Typing, PTL

-----------------------------------------------------------------------------
(* No entry is orphaned.                                                   *)

(* How far the owner is bounds how far the threads are: a thread decides   *)
(* to leave only after stop() has begun, the owner's own thread is in the  *)
(* loop only after stop() has decided so.                                  *)
OwnerAhead ==
  /\ autoStop => ownerPc \notin {"new", "open"}
  /\ \A t \in Threads :
       /\ idleDone[t] => autoStop
       /\ pc[t] = "exited" => idleDone[t]
       /\ t # Caller => (pc[t] = "off" <=> ownerPc = "new")
       /\ t = Caller /\ ownerPc \in {"new", "open", "drain"} => pc[t] = "off"

(* A coroutine that is executing is executed by a thread, though perhaps   *)
(* by more than one.                                                       *)
ExecutedByThread ==
  \A f \in Fibers : fstate[f] = "EXEC" =>
    \E t \in Threads : pc[t] = "run" /\ OnFiber(t) = f

(* No thread has met the coroutine of the job yet.                         *)
Untouched(c) ==
  /\ c \in Coroutines
  /\ fstate[c] = "INIT"
  /\ \A t \in Threads : ~(ft[t].kind = "fiber" /\ ft[t].id = c)

EntryOfFiber(i, c) == queue[i].kind = "fiber" /\ queue[i].id = c

(* Only the first entry of a coroutine names a thread: run() puts it back  *)
(* without one.                                                            *)
PinnedIsFirst ==
  /\ \A c \in Coroutines \ submitted :
       Untouched(c) /\ \A i \in DOMAIN queue : ~EntryOfFiber(i, c)
  /\ \A c \in Jobs : \A i \in DOMAIN queue :
       EntryOfFiber(i, c) /\ queue[i].thread # AnyThread =>
         Untouched(c) /\ \A k \in DOMAIN queue : EntryOfFiber(k, c) => k = i

OrphanInv == OwnerAhead /\ ExecutedByThread /\ PinnedIsFirst /\ NoOrphanedTask

(* What a step of thread t leaves alone: the owner, and where the other    *)
(* threads are.                                                            *)
LEMMA ThreadFrame ==
  ASSUME TypeInv, NEW t \in Threads, LoopStep(t) \/ TaskStep(t)
  PROVE  /\ UNCHANGED <<autoStop, isRunning, ownerPc>>
         /\ pc[t] \notin {"off", "exited"}
         /\ pc'[t] # "off"
         /\ pc'[t] = "exited" => idleDone[t]
         /\ idleDone'[t] => idleDone[t] \/ Stopped
         /\ \A u \in Threads \ {t} :
              /\ pc'[u] = pc[u] /\ idleDone'[u] = idleDone[u]
              /\ ft'[u] = ft[u] /\ cbFiber'[u] = cbFiber[u]
<1> USE DEF TypeInv, TypeOK, stopVars
<1>1. CASE Take(t)
  BY <1>1 DEF Take
<1>2. CASE FindNothing(t)
  BY <1>2 DEF FindNothing
<1>3. CASE SwapInFiber(t)
  BY <1>3 DEF SwapInFiber
<1>4. CASE DropFinished(t)
  BY <1>4 DEF DropFinished
<1>5. CASE RunCallback(t)
  BY <1>5 DEF RunCallback
<1>6. CASE EnterIdle(t)
  BY <1>6 DEF EnterIdle
<1>7. CASE LeaveLoop(t)
  BY <1>7 DEF LeaveLoop
<1>8. CASE Idle(t)
  BY <1>8 DEF Idle
<1>9. CASE SwapOut(t)
  BY <1>9 DEF SwapOut
<1>10. CASE Requeue(t)
  BY <1>10 DEF Requeue, LetGo
<1>11. CASE Release(t)
  BY <1>11 DEF Release
<1>12. CASE FindsHold(t)
  BY <1>12 DEF FindsHold
<1>13. CASE Park(t)
  BY <1>13 DEF Park, LetGo
<1>14. ASSUME NEW j \in Jobs, NEW u \in TaskPins, TaskSchedule(t, j, u)
       PROVE  pc[t] = "run" /\ UNCHANGED <<stopVars, loopVars>>
  BY <1>14 DEF TaskSchedule, RunsJob
<1>15. ASSUME NEW f \in Fibers, Wake(t, f)
       PROVE  pc[t] = "run" /\ UNCHANGED <<stopVars, loopVars>>
  BY <1>15 DEF Wake, RunsJob
<1>16. CASE pc[t] = "run" /\ UNCHANGED <<stopVars, loopVars>>
  BY <1>16 DEF loopVars
<1>17. CASE YieldReady(t) \/ YieldHold(t)
  BY <1>17 DEF YieldReady, YieldHold, Yield, RunsJob
<1>18. CASE Finish(t)
  BY <1>18 DEF Finish, RunsJob
<1>19. CASE Throw(t)
  BY <1>19 DEF Throw
<1> QED
  BY <1>1, <1>2, <1>3, <1>4, <1>5, <1>6, <1>7, <1>8, <1>9, <1>10, <1>11, <1>12, <1>13,
     <1>14, <1>15, <1>16, <1>17, <1>18, <1>19
  DEF LoopStep, TaskStep

(* What the owner leaves alone.                                            *)
LEMMA OwnerFrame ==
  ASSUME OwnerStep
  PROVE  /\ UNCHANGED <<active, ft, cbFiber, idleDone, fiberVars>>
         /\ UNCHANGED <<queue, submitted>>
              \/ \E j \in Jobs, u \in OwnerPins : OwnerSchedule(j, u)
  BY DEF OwnerStep, Start, StopAtOnce, StopBegin, StopStep, EnterRoot, SkipRoot,
         LeaveRoot, Join, OwnerSchedule, loopVars, jobVars

(* No step gets the owner and its thread's loop out of step.               *)
LEMMA OwnerAheadStep == TypeInv /\ OwnerAhead /\ [Next]_vars => OwnerAhead'
<1> SUFFICES ASSUME TypeInv, OwnerAhead, [Next]_vars PROVE OwnerAhead'
  OBVIOUS
<1>1. CASE OwnerStep
  <2> USE DEF TypeInv, TypeOK, OwnerAhead
  <2>1. CASE Start
    BY <2>1, ThreadsAssumption DEF Start, Threads
  <2>2. CASE StopAtOnce
    BY <2>2 DEF StopAtOnce, loopVars
  <2>3. CASE StopBegin
    BY <2>3 DEF StopBegin, loopVars
  <2>4. CASE EnterRoot
    BY <2>4 DEF EnterRoot
  <2>5. CASE SkipRoot
    BY <2>5 DEF SkipRoot, loopVars
  <2>6. CASE LeaveRoot
    BY <2>6 DEF LeaveRoot, loopVars
  <2>7. CASE Join
    BY <2>7 DEF Join, loopVars
  <2>8. CASE \E j \in Jobs, u \in OwnerPins : OwnerSchedule(j, u)
    BY <2>8 DEF OwnerSchedule, stopVars, loopVars
  <2> QED
    BY <1>1, <2>1, <2>2, <2>3, <2>4, <2>5, <2>6, <2>7, <2>8 DEF OwnerStep, StopStep
<1>2. ASSUME NEW t \in Threads, LoopStep(t) \/ TaskStep(t) PROVE OwnerAhead'
  <2>1. ASSUME NEW u \in Threads
        PROVE  /\ idleDone'[u] => autoStop'
               /\ pc'[u] = "exited" => idleDone'[u]
               /\ u # Caller => (pc'[u] = "off" <=> ownerPc' = "new")
               /\ u = Caller /\ ownerPc' \in {"new", "open", "drain"} => pc'[u] = "off"
    <3>1. CASE u = t
      <4>1. pc'[t] = "exited" => idleDone'[t]
        BY <1>2 DEF LoopStep, TaskStep, Take, FindNothing, SwapInFiber, DropFinished,
          RunCallback, EnterIdle, LeaveLoop, Idle, SwapOut, Requeue, Release, FindsHold,
          Park, LetGo, TaskSchedule, Wake, YieldReady, YieldHold, Yield, Finish, Throw,
          RunsJob, loopVars, TypeInv, TypeOK
      <4> QED
        BY <1>2, <3>1, <4>1, ThreadFrame DEF OwnerAhead, Stopped
    <3>2. CASE u # t
      BY <1>2, <3>2, ThreadFrame DEF OwnerAhead
    <3> QED
      BY <3>1, <3>2
  <2> QED
    BY <1>2, <2>1, ThreadFrame DEF OwnerAhead
<1>3. CASE UNCHANGED vars
  BY <1>3 DEF OwnerAhead, vars, stopVars, loopVars
<1> QED
  BY <1>1, <1>2, <1>3 DEF Next, Terminated

(* A coroutine executes after a step of t because t has just entered it or *)
(* is still in it, or because another thread is.                           *)
LEMMA ExecutedFrame ==
  ASSUME TypeInv, NEW t \in Threads, LoopStep(t) \/ TaskStep(t),
         NEW f \in Fibers, fstate'[f] = "EXEC"
  PROVE  \/ pc'[t] = "run" /\ OnFiber(t)' = f
         \/ fstate[f] = "EXEC" /\ ~(pc[t] = "run" /\ OnFiber(t) = f)
<1> USE DEF TypeInv, TypeOK
<1>1. CASE pc[t] # "run" /\ UNCHANGED fstate
  BY <1>1
<1>2. CASE SwapInFiber(t)
  BY <1>2 DEF SwapInFiber, OnFiber
<1>3. CASE RunCallback(t)
  <2>1. ft[t] \in Entries
    BY <1>3, EntryTypes DEF RunCallback
  <2> QED
    BY <1>3, <2>1, EntryTypes DEF RunCallback, OnFiber, NoEntry
<1>4. CASE Release(t) \/ Park(t)
  BY <1>4 DEF Release, Park, fiberVars
<1>5. CASE pc[t] = "run" /\ UNCHANGED <<loopVars, fiberVars>>
  BY <1>5 DEF loopVars, fiberVars, OnFiber
<1>6. ASSUME NEW s \in {"READY", "HOLD"}, Yield(t, s)
      PROVE  fstate[f] = "EXEC" /\ OnFiber(t) # f
  BY <1>6 DEF Yield
<1>7. CASE Finish(t) \/ Throw(t)
  BY <1>7 DEF Finish, Throw
<1>8. CASE TaskStep(t)
  <2>1. ASSUME NEW j \in Jobs, NEW u \in TaskPins, TaskSchedule(t, j, u)
        PROVE  pc[t] = "run" /\ UNCHANGED <<loopVars, fiberVars>>
    BY <2>1 DEF TaskSchedule, RunsJob
  <2>2. ASSUME NEW g \in Fibers, Wake(t, g)
        PROVE  pc[t] = "run" /\ UNCHANGED <<loopVars, fiberVars>>
    BY <2>2 DEF Wake, RunsJob
  <2> QED
    BY <1>5, <1>6, <1>7, <1>8, <2>1, <2>2 DEF TaskStep, YieldReady, YieldHold
<1>9. CASE LoopStep(t)
  BY <1>1, <1>2, <1>3, <1>4, <1>9
  DEF LoopStep, Take, FindNothing, DropFinished, EnterIdle, LeaveLoop, Idle, SwapOut,
      Requeue, FindsHold, fiberVars
<1> QED
  BY <1>8, <1>9

(* No step leaves a coroutine executing without a thread.                  *)
LEMMA ExecutedStep == TypeInv /\ ExecutedByThread /\ OwnerAhead /\ [Next]_vars => ExecutedByThread'
<1> SUFFICES ASSUME TypeInv, ExecutedByThread, OwnerAhead, [Next]_vars,
                    NEW f \in Fibers, fstate'[f] = "EXEC"
             PROVE  \E u \in Threads : pc'[u] = "run" /\ OnFiber(u)' = f
  BY DEF ExecutedByThread
<1>1. ASSUME NEW t \in Threads, LoopStep(t) \/ TaskStep(t)
      PROVE  \E u \in Threads : pc'[u] = "run" /\ OnFiber(u)' = f
  <2>1. CASE fstate[f] = "EXEC" /\ ~(pc[t] = "run" /\ OnFiber(t) = f)
    <3>1. PICK u \in Threads : pc[u] = "run" /\ OnFiber(u) = f
      BY <2>1 DEF ExecutedByThread
    <3>2. u # t
      BY <2>1, <3>1
    <3> QED
      BY <1>1, <3>1, <3>2, ThreadFrame DEF OnFiber
  <2> QED
    BY <1>1, <2>1, ExecutedFrame
<1>2. CASE OwnerStep
  <2>1. PICK u \in Threads : pc[u] = "run" /\ OnFiber(u) = f
    BY <1>2, OwnerFrame DEF ExecutedByThread, fiberVars
  <2>2. OnFiber(u)' = OnFiber(u)
    BY <1>2, OwnerFrame DEF OnFiber
  <2>3. pc'[u] = "run"
    BY <1>2, <2>1, ThreadsAssumption
    DEF OwnerStep, Start, StopAtOnce, StopBegin, StopStep, EnterRoot, SkipRoot, LeaveRoot,
        Join, OwnerSchedule, loopVars, TypeInv, TypeOK, OwnerAhead, Threads
  <2> QED
    BY <2>1, <2>2, <2>3
<1>3. CASE UNCHANGED vars
  BY <1>3 DEF ExecutedByThread, OnFiber, vars, loopVars, fiberVars
<1> QED
  BY <1>1, <1>2, <1>3 DEF Next, Terminated

(* A step of t leaves a coroutine untouched unless t takes its entry.      *)
LEMMA UntouchedFrame ==
  ASSUME TypeInv, NEW t \in Threads, LoopStep(t) \/ TaskStep(t),
         NEW c, Untouched(c),
         Take(t) => ~(ft'[t].kind = "fiber" /\ ft'[t].id = c)
  PROVE  Untouched(c)'
<1> USE DEF TypeInv, TypeOK
<1>1. c \in Coroutines /\ c \in Fibers /\ c \notin Callbacks
  BY JobsAssumption DEF Untouched, Jobs
<1>2. c # NoJob /\ (pc[t] \in {"run", "settle", "park"} => OnFiber(t) # c)
  BY <1>1, JobsAssumption DEF Untouched, OnFiber
<1>3. ~(ft'[t].kind = "fiber" /\ ft'[t].id = c)
  BY <1>1, EntryTypes DEF LoopStep, TaskStep, FindNothing, SwapInFiber, DropFinished,
     RunCallback, EnterIdle, LeaveLoop, Idle, SwapOut, Requeue, Release, FindsHold, Park,
     LetGo, TaskSchedule, Wake, YieldReady, YieldHold, Yield, Finish, Throw, loopVars,
     Untouched
<1>4. fstate'[c] = fstate[c]
  <2>1. CASE SwapInFiber(t)
    BY <1>1, <2>1 DEF SwapInFiber, Untouched
  <2>2. CASE RunCallback(t)
    <3>1. ft[t] \in Entries /\ ft[t].id # c
      BY <1>1, <2>2, EntryTypes DEF RunCallback
    <3> QED
      BY <1>1, <2>2, <3>1 DEF RunCallback
  <2>3. CASE Release(t)
    BY <1>1, <1>2, <2>3 DEF Release, fiberVars
  <2>4. CASE Park(t)
    BY <1>1, <1>2, <2>4 DEF Park
  <2>5. CASE YieldReady(t) \/ YieldHold(t) \/ Finish(t) \/ Throw(t)
    BY <1>1, <1>2, <2>5 DEF YieldReady, YieldHold, Yield, Finish, Throw, RunsJob
  <2> QED
    BY <2>1, <2>2, <2>3, <2>4, <2>5
    DEF LoopStep, TaskStep, Take, FindNothing, DropFinished, EnterIdle, LeaveLoop, Idle,
        SwapOut, Requeue, FindsHold, TaskSchedule, Wake, fiberVars
<1>5. \A u \in Threads : ~(ft'[u].kind = "fiber" /\ ft'[u].id = c)
  <2> HIDE DEF TypeInv, TypeOK
  <2>1. \A u \in Threads \ {t} : ft'[u] = ft[u]
    BY ThreadFrame
  <2>2. \A u \in Threads : ~(ft[u].kind = "fiber" /\ ft[u].id = c)
    BY DEF Untouched
  <2> QED
    BY <1>3, <2>1, <2>2
<1> QED
  BY <1>1, <1>4, <1>5 DEF Untouched

(* Appending keeps PinnedIsFirst when what is untouched stays so and the   *)
(* new entry is a job's first one or names no thread.                      *)
LEMMA PinnedAppend ==
  ASSUME TypeInv, PinnedIsFirst, NEW e \in Entries, queue' = Append(queue, e),
         submitted \subseteq submitted',
         \A c \in Coroutines : Untouched(c) => Untouched(c)',
         e.kind = "fiber" =>
           \/ e.thread = AnyThread /\ ~Untouched(e.id)
           \/ e.id \in submitted' \ submitted /\ e.id \in Coroutines
  PROVE  PinnedIsFirst'
<1> DEFINE n == Len(queue) + 1
<1> USE DEF TypeInv, TypeOK
<1>1. /\ Len(queue) \in Nat
      /\ DOMAIN queue = 1..Len(queue) /\ DOMAIN queue' = 1..n
      /\ \A k \in DOMAIN queue : queue'[k] = queue[k] /\ k # n
      /\ queue'[n] = e
  BY AppendEntries
<1>2. \A k \in DOMAIN queue' : k \in DOMAIN queue \/ k = n
  BY <1>1
<1> HIDE DEF n
<1>3. ASSUME NEW c \in Coroutines \ submitted'
      PROVE  Untouched(c)' /\ \A i \in DOMAIN queue' : ~EntryOfFiber(i, c)'
  <2>1. c \in Coroutines \ submitted
    BY <1>3
  <2>2. Untouched(c) /\ Untouched(c)'
    BY <2>1 DEF PinnedIsFirst
  <2>3. ~(e.kind = "fiber" /\ e.id = c)
    BY <1>3, <2>1, <2>2
  <2> QED
    BY <1>1, <1>2, <2>1, <2>2, <2>3 DEF PinnedIsFirst, EntryOfFiber
<1>4. ASSUME NEW c \in Jobs, NEW i \in DOMAIN queue',
             EntryOfFiber(i, c)', queue'[i].thread # AnyThread
      PROVE  Untouched(c)' /\ \A k \in DOMAIN queue' : EntryOfFiber(k, c)' => k = i
  <2>1. CASE i = n
    <3>1. e.kind = "fiber" /\ e.id = c /\ c \in Coroutines \ submitted
      BY <1>1, <1>4, <2>1 DEF EntryOfFiber
    <3>2. Untouched(c)' /\ \A k \in DOMAIN queue : ~EntryOfFiber(k, c)
      BY <3>1 DEF PinnedIsFirst
    <3> QED
      BY <1>1, <1>2, <2>1, <3>2 DEF EntryOfFiber
  <2>2. CASE i \in DOMAIN queue
    <3>1. EntryOfFiber(i, c) /\ queue[i].thread # AnyThread
      BY <1>1, <1>4, <2>2 DEF EntryOfFiber
    <3>2. Untouched(c) /\ \A k \in DOMAIN queue : EntryOfFiber(k, c) => k = i
      BY <2>2, <3>1 DEF PinnedIsFirst
    <3>3. c \in Coroutines /\ Untouched(c)'
      BY <3>2 DEF Untouched
    <3>4. ~(e.kind = "fiber" /\ e.id = c)
      BY <2>2, <3>1, <3>2, <3>3 DEF PinnedIsFirst
    <3> QED
      BY <1>1, <1>2, <3>2, <3>3, <3>4 DEF EntryOfFiber
  <2> QED
    BY <1>2, <2>1, <2>2
<1> QED
  BY <1>3, <1>4 DEF PinnedIsFirst

(* No step adds a pinned entry that is not a job's first.                  *)
LEMMA PinnedStep == TypeInv /\ PinnedIsFirst /\ [Next]_vars => PinnedIsFirst'
<1> SUFFICES ASSUME TypeInv, PinnedIsFirst, [Next]_vars PROVE PinnedIsFirst'
  OBVIOUS
<1> USE DEF TypeInv, TypeOK
<1>1. ASSUME UNCHANGED <<queue, submitted>>,
             \A c \in Coroutines : Untouched(c) => Untouched(c)'
      PROVE  PinnedIsFirst'
  BY <1>1 DEF PinnedIsFirst, EntryOfFiber, Untouched
<1>2. CASE OwnerStep
  <2>1. \A c \in Coroutines : Untouched(c) => Untouched(c)'
    BY <1>2, OwnerFrame DEF Untouched, fiberVars
  <2>2. ASSUME NEW j \in Jobs, NEW u \in OwnerPins, OwnerSchedule(j, u)
        PROVE  PinnedIsFirst'
    <3>1. /\ JobEntry(j, u) \in Entries
          /\ queue' = Append(queue, JobEntry(j, u))
          /\ submitted' = submitted \cup {j} /\ j \notin submitted
      BY <2>2, EntryTypes, PinsAssumption DEF OwnerSchedule, Submit
    <3>2. JobEntry(j, u).kind = "fiber" =>
             JobEntry(j, u).id \in submitted' \ submitted /\ JobEntry(j, u).id \in Coroutines
      BY <3>1 DEF JobEntry
    <3> QED
      BY <2>1, <3>1, <3>2, PinnedAppend
  <2> QED
    BY <1>1, <1>2, <2>1, <2>2, OwnerFrame
<1>3. ASSUME NEW t \in Threads, LoopStep(t) \/ TaskStep(t), ~Take(t)
      PROVE  PinnedIsFirst'
  <2>1. \A c \in Coroutines : Untouched(c) => Untouched(c)'
    BY <1>3, UntouchedFrame
  <2>2. ASSUME NEW j \in Jobs, NEW u \in TaskPins, TaskSchedule(t, j, u)
        PROVE  PinnedIsFirst'
    <3>1. /\ JobEntry(j, u) \in Entries
          /\ queue' = Append(queue, JobEntry(j, u))
          /\ submitted' = submitted \cup {j} /\ j \notin submitted
      BY <2>2, EntryTypes, PinsAssumption DEF TaskSchedule, Submit
    <3>2. JobEntry(j, u).kind = "fiber" =>
             JobEntry(j, u).id \in submitted' \ submitted /\ JobEntry(j, u).id \in Coroutines
      BY <3>1 DEF JobEntry
    <3> QED
      BY <2>1, <3>1, <3>2, PinnedAppend
  <2>3. ASSUME NEW f \in Fibers, ~Untouched(f),
               queue' = Append(queue, FiberEntry(f, AnyThread)), submitted' = submitted
        PROVE  PinnedIsFirst'
    <3>1. /\ FiberEntry(f, AnyThread) \in Entries
          /\ FiberEntry(f, AnyThread).thread = AnyThread
          /\ FiberEntry(f, AnyThread).id = f
      BY EntryTypes DEF FiberEntry
    <3> QED
      BY <2>1, <2>3, <3>1, PinnedAppend
  <2>4. ASSUME NEW f \in Fibers, Wake(t, f) PROVE PinnedIsFirst'
    <3>1. fstate[f] # "INIT" \/ f = OnFiber(t)
      BY <2>4 DEF Wake
    <3>2. ~Untouched(f)
      BY <3>1, JobsAssumption DEF Untouched, OnFiber, Jobs
    <3> QED
      BY <2>3, <2>4, <3>2 DEF Wake, jobVars
  <2>5. CASE Requeue(t)
    <3>1. OnFiber(t) \in Fibers /\ fstate[OnFiber(t)] = "READY"
      BY <2>5 DEF Requeue, OnSomeFiber
    <3>2. ~Untouched(OnFiber(t))
      BY <3>1 DEF Untouched
    <3> QED
      BY <2>3, <2>5, <3>1, <3>2 DEF Requeue, jobVars
  <2>6. UNCHANGED <<queue, submitted>> \/ Requeue(t) \/ (\E f \in Fibers : Wake(t, f))
          \/ \E j \in Jobs, u \in TaskPins : TaskSchedule(t, j, u)
    BY <1>3 DEF LoopStep, TaskStep, FindNothing, SwapInFiber, DropFinished,
       RunCallback, EnterIdle, LeaveLoop, Idle, SwapOut, Release, FindsHold, Park,
       YieldReady, YieldHold, Yield, Finish, Throw, jobVars
  <2> QED
    BY <1>1, <2>1, <2>2, <2>4, <2>5, <2>6
<1>4. ASSUME NEW t \in Threads, Take(t) PROVE PinnedIsFirst'
  <2>1. PICK i \in DOMAIN queue : /\ ft' = [ft EXCEPT ![t] = queue[i]]
                                  /\ queue' = RemoveAt(queue, i)
    BY <1>4 DEF Take
  <2>2. submitted' = submitted
    BY <1>4 DEF Take, jobVars
  <2>3. ft'[t] = queue[i]
    BY <2>1
  <2>4. \A c : Untouched(c) /\ ~(queue[i].kind = "fiber" /\ queue[i].id = c) => Untouched(c)'
    BY <1>4, <2>3, UntouchedFrame DEF LoopStep
  <2> DEFINE old(k) == IF k < i THEN k ELSE k + 1
  <2>5. /\ DOMAIN queue = 1..Len(queue) /\ Len(queue) \in Nat
        /\ DOMAIN queue' = 1..(Len(queue) - 1)
        /\ \A k \in 1..(Len(queue) - 1) : queue'[k] = IF k < i THEN queue[k] ELSE queue[k + 1]
    BY <2>1, RemoveAtEntries
  <2>6. \A k \in DOMAIN queue' : /\ old(k) \in DOMAIN queue
                                 /\ old(k) # i
                                 /\ queue'[k] = queue[old(k)]
    BY <2>5
  <2>7. \A k, m \in DOMAIN queue' : old(k) = old(m) => k = m
    BY <2>5
  <2> HIDE DEF old
  <2>8. \A c : \A k \in DOMAIN queue' : EntryOfFiber(k, c)' <=> EntryOfFiber(old(k), c)
    BY <2>6 DEF EntryOfFiber
  <2>9. ASSUME NEW c \in Coroutines \ submitted
        PROVE  Untouched(c)' /\ \A k \in DOMAIN queue' : ~EntryOfFiber(k, c)'
    <3>1. Untouched(c) /\ \A k \in DOMAIN queue : ~EntryOfFiber(k, c)
      BY DEF PinnedIsFirst
    <3> QED
      BY <2>1, <2>4, <2>6, <2>8, <3>1 DEF EntryOfFiber
  <2>10. ASSUME NEW c \in Jobs, NEW k \in DOMAIN queue',
                EntryOfFiber(k, c)', queue'[k].thread # AnyThread
         PROVE  Untouched(c)' /\ \A m \in DOMAIN queue' : EntryOfFiber(m, c)' => m = k
    <3>1. /\ Untouched(c)
          /\ \A m \in DOMAIN queue : EntryOfFiber(m, c) => m = old(k)
      BY <2>6, <2>8, <2>10 DEF PinnedIsFirst
    <3>2. ~EntryOfFiber(i, c)
      BY <2>1, <2>6, <2>10, <3>1
    <3> QED
      BY <2>4, <2>6, <2>7, <2>8, <2>10, <3>1, <3>2 DEF EntryOfFiber
  <2> QED
    BY <2>2, <2>9, <2>10 DEF PinnedIsFirst
<1>5. CASE UNCHANGED vars
  BY <1>5, <1>1 DEF Untouched, vars, loopVars, fiberVars, jobVars
<1> QED
  BY <1>2, <1>3, <1>4, <1>5 DEF Next, Terminated

(* Before stop() begins every thread will scan the queue again.            *)
LEMMA OpenScans ==
  ASSUME TypeInv, OwnerAhead, ownerPc \in {"new", "open"}, NEW t \in Threads
  PROVE  WillScan(t)
  BY DEF OwnerAhead, WillScan, TypeInv, TypeOK

(* A thread stops being one that will scan by finding nothing after its    *)
(* idle coroutine has ended; the owner's, also by never entering the loop. *)
LEMMA ScansAgain ==
  ASSUME TypeInv, OwnerAhead, NEW u \in Threads, WillScan(u),
         \/ \E t \in Threads : /\ LoopStep(t) \/ TaskStep(t)
                               /\ ~(t = u /\ idleDone[u] /\ FindNothing(u))
         \/ OwnerStep /\ ~(UseCaller /\ SkipRoot) /\ ~StopAtOnce
         \/ UNCHANGED vars
  PROVE  WillScan(u)'
<1> USE DEF TypeInv, TypeOK
<1>1. ASSUME NEW t \in Threads, LoopStep(t) \/ TaskStep(t), t # u
      PROVE  WillScan(u)'
  BY <1>1, ThreadFrame DEF WillScan
<1>2. ASSUME LoopStep(u) \/ TaskStep(u), ~(idleDone[u] /\ FindNothing(u))
      PROVE  WillScan(u)'
  <2>1. CASE Take(u)
    <3>1. ft'[u] \in Entries
      BY <2>1 DEF Take
    <3> QED
      BY <2>1, <3>1, EntryTypes DEF Take, WillScan
  <2>2. CASE FindNothing(u)
    BY <1>2, <2>2 DEF FindNothing, WillScan
  <2>3. CASE LeaveLoop(u)
    BY <2>3 DEF LeaveLoop, WillScan
  <2>4. pc'[u] \notin {"off", "exited", "dispatch"} \/ Take(u) \/ FindNothing(u) \/ LeaveLoop(u)
    BY <1>2 DEF LoopStep, TaskStep, SwapInFiber, DropFinished, RunCallback, EnterIdle, Idle,
       SwapOut, Requeue, Release, FindsHold, Park, LetGo, TaskSchedule, Wake, YieldReady,
       YieldHold, Yield, Finish, Throw, RunsJob, loopVars
  <2> QED
    BY <2>1, <2>2, <2>3, <2>4 DEF WillScan
<1>3. CASE OwnerStep /\ ~(UseCaller /\ SkipRoot) /\ ~StopAtOnce
  <2>1. u # Caller => u \in Workers
    BY DEF Threads
  <2>2. u = Caller => UseCaller
    BY ThreadsAssumption DEF Threads
  <2>3. CASE Start
    BY <2>1, <2>3, ThreadsAssumption DEF Start, WillScan
  <2>4. CASE EnterRoot
    BY <2>4 DEF EnterRoot, WillScan, OwnerAhead
  <2>5. CASE SkipRoot
    BY <1>3, <2>2, <2>5 DEF SkipRoot, WillScan, loopVars
  <2>6. CASE StopBegin \/ LeaveRoot \/ Join
    BY <2>6 DEF StopBegin, LeaveRoot, Join, WillScan, loopVars
  <2>7. CASE \E j \in Jobs, v \in OwnerPins : OwnerSchedule(j, v)
    BY <2>7 DEF OwnerSchedule, WillScan, stopVars, loopVars
  <2> QED
    BY <1>3, <2>3, <2>4, <2>5, <2>6, <2>7 DEF OwnerStep, StopStep
<1>4. CASE UNCHANGED vars
  BY <1>4 DEF vars, stopVars, loopVars, WillScan
<1> QED
  BY <1>1, <1>2, <1>3, <1>4

(* The queue as one step leaves it: every entry was there, or was put by a *)
(* thread that will scan and names no thread, or came before stop().       *)
LEMMA QueueFrame ==
  ASSUME TypeInv, OwnerAhead, TaskPins \subseteq {AnyThread}, [Next]_vars,
         NEW i \in DOMAIN queue'
  PROVE  \/ \E k \in DOMAIN queue : queue'[i] = queue[k]
         \/ \E t \in Threads : queue'[i].thread \in {AnyThread, t} /\ WillScan(t)'
<1> USE DEF TypeInv, TypeOK
<1>1. ASSUME NEW e \in Entries, queue' = Append(queue, e),
             \E t \in Threads : e.thread \in {AnyThread, t} /\ WillScan(t)'
      PROVE  \/ \E k \in DOMAIN queue : queue'[i] = queue[k]
             \/ \E t \in Threads : queue'[i].thread \in {AnyThread, t} /\ WillScan(t)'
  <2>1. /\ DOMAIN queue = 1..Len(queue) /\ Len(queue) \in Nat
        /\ DOMAIN queue' = 1..(Len(queue) + 1)
        /\ \A k \in 1..Len(queue) : queue'[k] = queue[k]
        /\ queue'[Len(queue) + 1] = e
    BY <1>1, AppendEntries
  <2>2. i \in DOMAIN queue \/ i = Len(queue) + 1
    BY <2>1
  <2> QED
    BY <1>1, <2>1, <2>2
<1>2. ASSUME NEW j \in Jobs, NEW u \in OwnerPins, OwnerSchedule(j, u)
      PROVE  \E t \in Threads : JobEntry(j, u).thread \in {AnyThread, t} /\ WillScan(t)'
  <2>1. UNCHANGED <<stopVars, loopVars>> /\ ownerPc \in {"new", "open"}
    BY <1>2 DEF OwnerSchedule
  <2>2. \A t \in Threads : WillScan(t)'
    BY <2>1, OpenScans DEF WillScan, stopVars, loopVars
  <2> QED
    BY <2>2, PinsAssumption, ThreadsAssumption DEF JobEntry
<1>3. ASSUME NEW t \in Threads, pc'[t] \in {"scan", "run"} PROVE WillScan(t)'
  BY <1>3 DEF WillScan
<1>4. ASSUME NEW t \in Threads, NEW j \in Jobs, NEW u \in TaskPins, TaskSchedule(t, j, u)
      PROVE  JobEntry(j, u).thread = AnyThread /\ WillScan(t)'
  BY <1>3, <1>4 DEF TaskSchedule, RunsJob, JobEntry, loopVars
<1>5. ASSUME NEW t \in Threads, NEW f \in Fibers, Wake(t, f) PROVE WillScan(t)'
  BY <1>3, <1>5 DEF Wake, RunsJob, loopVars
<1>6. ASSUME NEW t \in Threads, Requeue(t) PROVE WillScan(t)' /\ OnFiber(t) \in Fibers
  BY <1>3, <1>6 DEF Requeue, LetGo, OnSomeFiber
<1>7. ASSUME NEW t \in Threads, Take(t) PROVE \E k \in DOMAIN queue : queue'[i] = queue[k]
  <2>0. queue \in Seq(Entries)
    OBVIOUS
  <2>1. PICK k \in DOMAIN queue : queue' = RemoveAt(queue, k)
    BY <1>7 DEF Take
  <2> HIDE DEF TypeInv, TypeOK
  <2>2. /\ DOMAIN queue = 1..Len(queue) /\ Len(queue) \in Nat
        /\ DOMAIN queue' = 1..(Len(queue) - 1)
        /\ \A m \in 1..(Len(queue) - 1) : queue'[m] = IF m < k THEN queue[m] ELSE queue[m + 1]
    <3>1. /\ queue' \in Seq(Entries) /\ Len(queue') = Len(queue) - 1
          /\ \A m \in 1..(Len(queue) - 1) :
               queue'[m] = IF m < k THEN queue[m] ELSE queue[m + 1]
      BY ONLY <2>0, <2>1, RemoveAtEntries
    <3>2. /\ DOMAIN queue = 1..Len(queue) /\ Len(queue) \in Nat
          /\ DOMAIN queue' = 1..Len(queue')
      BY ONLY <2>0, <3>1
    <3> QED
      BY <3>1, <3>2
  <2>3. i \in DOMAIN queue /\ i + 1 \in DOMAIN queue
    BY <2>2
  <2> QED
    BY <2>2, <2>3
<1>8. \A f \in Fibers : FiberEntry(f, AnyThread).thread = AnyThread
  BY DEF FiberEntry
<1>9. \/ queue' = queue
      \/ \E j \in Jobs, u \in OwnerPins : OwnerSchedule(j, u)
      \/ \E t \in Threads : \/ Take(t) \/ Requeue(t)
                            \/ \E f \in Fibers : Wake(t, f)
                            \/ \E j \in Jobs, u \in TaskPins : TaskSchedule(t, j, u)
  <2>1. CASE OwnerStep
    BY <2>1, OwnerFrame
  <2>2. ASSUME NEW t \in Threads, LoopStep(t) \/ TaskStep(t)
        PROVE  \/ queue' = queue \/ Take(t) \/ Requeue(t)
               \/ \E f \in Fibers : Wake(t, f)
               \/ \E j \in Jobs, u \in TaskPins : TaskSchedule(t, j, u)
    BY <2>2 DEF LoopStep, TaskStep, FindNothing, SwapInFiber, DropFinished, RunCallback,
       EnterIdle, LeaveLoop, Idle, SwapOut, Release, FindsHold, Park, YieldReady, YieldHold,
       Yield, Finish, Throw
  <2> QED
    BY <2>1, <2>2 DEF Next, Terminated, vars
<1>10. ASSUME NEW t \in Threads, NEW f \in Fibers, WillScan(t)',
              queue' = Append(queue, FiberEntry(f, AnyThread))
       PROVE  \/ \E k \in DOMAIN queue : queue'[i] = queue[k]
              \/ \E u \in Threads : queue'[i].thread \in {AnyThread, u} /\ WillScan(u)'
  BY <1>1, <1>8, <1>10, EntryTypes
<1>11. CASE \E j \in Jobs, u \in OwnerPins : OwnerSchedule(j, u)
  BY <1>1, <1>2, <1>11, EntryTypes, PinsAssumption DEF OwnerSchedule, Submit
<1>12. CASE \E t \in Threads, j \in Jobs, u \in TaskPins : TaskSchedule(t, j, u)
  BY <1>1, <1>4, <1>12, EntryTypes, PinsAssumption DEF TaskSchedule, Submit
<1>13. CASE \E t \in Threads, f \in Fibers : Wake(t, f)
  BY <1>5, <1>10, <1>13 DEF Wake
<1>14. CASE \E t \in Threads : Requeue(t)
  BY <1>6, <1>10, <1>14 DEF Requeue
<1> QED
  BY <1>7, <1>9, <1>11, <1>12, <1>13, <1>14

(* No step orphans an entry: the strengthened invariant is inductive.      *)
LEMMA OrphanStep ==
  ASSUME TypeInv, OrphanInv, TaskPins \subseteq {AnyThread}, [Next]_vars
  PROVE  NoOrphanedTask'
<1> SUFFICES ASSUME NEW i \in DOMAIN queue'
             PROVE  \E t \in Threads : queue'[i].thread \in {AnyThread, t} /\ WillScan(t)'
  BY DEF NoOrphanedTask
<1> USE DEF OrphanInv
<1>1. ASSUME NEW k \in DOMAIN queue, queue'[i] = queue[k]
      PROVE  \E t \in Threads : queue'[i].thread \in {AnyThread, t} /\ WillScan(t)'
  <2>1. PICK u \in Threads : queue[k].thread \in {AnyThread, u} /\ WillScan(u)
    BY DEF NoOrphanedTask
  <2>2. CASE WillScan(u)'
    BY <1>1, <2>1, <2>2
  <2>3. CASE StopAtOnce \/ (UseCaller /\ SkipRoot)
    BY <2>3 DEF StopAtOnce, SkipRoot, Stopped
  <2>4. CASE FindNothing(u) /\ idleDone[u]
    <3>1. queue[k] \in Entries /\ ~Runnable(u, queue[k])
      BY <2>4 DEF FindNothing, TypeInv, TypeOK
    <3>2. queue[k].kind = "fiber" /\ queue[k].id \in Fibers /\ fstate[queue[k].id] = "EXEC"
      BY <2>1, <3>1, EntryTypes DEF Runnable
    <3>3. queue[k].thread = AnyThread
      BY <3>2 DEF PinnedIsFirst, EntryOfFiber, Untouched
    <3>4. PICK t \in Threads : pc[t] = "run"
      BY <3>2 DEF ExecutedByThread
    <3>5. WillScan(t)'
      BY <2>4, <3>4 DEF FindNothing, WillScan, TypeInv, TypeOK
    <3> QED
      BY <1>1, <3>3, <3>5
  <2>5. WillScan(u)' \/ StopAtOnce \/ (UseCaller /\ SkipRoot) \/ (FindNothing(u) /\ idleDone[u])
    BY <2>1, ScansAgain DEF Next, Terminated
  <2> QED
    BY <2>2, <2>3, <2>4, <2>5
<1> QED
  BY <1>1, QueueFrame

(* It holds of a scheduler that was just constructed.                      *)
LEMMA OrphanInit == Init => OrphanInv
<1> SUFFICES ASSUME Init PROVE OrphanInv
  OBVIOUS
<1>1. OwnerAhead
  BY DEF Init, OwnerAhead
<1>2. ExecutedByThread
  BY DEF Init, ExecutedByThread
<1>3. PinnedIsFirst
  <2>1. \A c \in Coroutines : Untouched(c)
    BY DEF Init, Untouched, NoEntry, Jobs
  <2>2. DOMAIN queue = {}
    BY DEF Init
  <2> QED
    BY <2>1, <2>2 DEF PinnedIsFirst
<1>4. NoOrphanedTask
  BY DEF Init, NoOrphanedTask
<1> QED
  BY <1>1, <1>2, <1>3, <1>4 DEF OrphanInv

(* Every entry of the queue has a thread that will look at the queue again *)
(* and may take it, however many threads and jobs there are, as long as    *)
(* jobs do not name a thread when they submit (SchedulerLatePin shows what *)
(* happens when they do).                                                  *)
THEOREM NoOrphan ==
  ASSUME TaskPins \subseteq {AnyThread}
  PROVE  Spec => []NoOrphanedTask
<1>1. TypeInv /\ OrphanInv /\ [Next]_vars => OrphanInv'
  BY OwnerAheadStep, ExecutedStep, PinnedStep, OrphanStep DEF OrphanInv
<1>2. OrphanInv => NoOrphanedTask
  BY DEF OrphanInv
<1> QED
  BY <1>1, <1>2, OrphanInit, Typing, PTL DEF Spec

-----------------------------------------------------------------------------
(* stop() leaves nothing behind.                                           *)

(* The owner's own thread is in the loop while ownerPc is "root", and only *)
(* then; stop() returns after the last worker has left.                    *)
OwnerBehind ==
  /\ \A t \in Threads : t = Caller /\ ownerPc \in {"join", "stopped"} => pc[t] \in {"off", "exited"}
  /\ ownerPc = "stopped" => \A w \in Workers : pc[w] = "exited"

(* No step starts the loop in the owner's thread behind its back.          *)
LEMMA OwnerBehindStep == TypeInv /\ OwnerAhead /\ OwnerBehind /\ [Next]_vars => OwnerBehind'
<1> SUFFICES ASSUME TypeInv, OwnerAhead, OwnerBehind, [Next]_vars PROVE OwnerBehind'
  OBVIOUS
<1>1. ASSUME NEW t \in Threads, LoopStep(t) \/ TaskStep(t) PROVE OwnerBehind'
  <2>1. \A w \in Workers : w \in Threads
    BY DEF Threads
  <2> QED
    BY <1>1, <2>1, ThreadFrame DEF OwnerBehind
<1>2. CASE OwnerStep
  <2> USE DEF TypeInv, TypeOK, OwnerBehind
  <2>1. CASE Start
    BY <2>1 DEF Start
  <2>2. CASE StopAtOnce
    BY <2>2 DEF StopAtOnce, OwnerAhead, loopVars
  <2>3. CASE StopBegin
    BY <2>3 DEF StopBegin
  <2>4. CASE EnterRoot
    BY <2>4 DEF EnterRoot
  <2>5. CASE SkipRoot
    BY <2>5 DEF SkipRoot, OwnerAhead, loopVars
  <2>6. CASE LeaveRoot
    BY <2>6 DEF LeaveRoot, loopVars
  <2>7. CASE Join
    BY <2>7 DEF Join, loopVars
  <2>8. CASE \E j \in Jobs, u \in OwnerPins : OwnerSchedule(j, u)
    BY <2>8 DEF OwnerSchedule, stopVars, loopVars
  <2> QED
    BY <1>2, <2>1, <2>2, <2>3, <2>4, <2>5, <2>6, <2>7, <2>8 DEF OwnerStep, StopStep
<1>3. CASE UNCHANGED vars
  BY <1>3 DEF OwnerBehind, vars, stopVars, loopVars
<1> QED
  BY <1>1, <1>2, <1>3 DEF Next, Terminated

(* When stop() has returned the queue is empty and every thread has left   *)
(* run(): an entry would need a thread that looks at the queue again.      *)
THEOREM Drained ==
  ASSUME TaskPins \subseteq {AnyThread}
  PROVE  Spec => []QueueDrained
<1>1. Init => OwnerBehind
  BY DEF Init, OwnerBehind
<1>2. TypeInv /\ OrphanInv /\ [Next]_vars => OrphanInv'
  BY OwnerAheadStep, ExecutedStep, PinnedStep, OrphanStep DEF OrphanInv
<1>3. TypeInv /\ OrphanInv /\ OwnerBehind /\ [Next]_vars => OwnerBehind'
  BY OwnerBehindStep DEF OrphanInv
<1>4. TypeInv /\ OrphanInv /\ OwnerBehind => QueueDrained
  <2> SUFFICES ASSUME TypeInv, OrphanInv, OwnerBehind, ownerPc = "stopped"
               PROVE  queue = <<>> /\ \A t \in Threads : pc[t] \in {"off", "exited"}
    BY DEF QueueDrained
  <2>1. \A t \in Threads : pc[t] \in {"off", "exited"}
    BY DEF OwnerBehind, Threads
  <2>2. \A t \in Threads : ~WillScan(t)
    BY <2>1 DEF WillScan
  <2>3. DOMAIN queue = {}
    BY <2>2 DEF OrphanInv, NoOrphanedTask
  <2>4. queue = <<>>
    BY <2>3, EmptySeq DEF TypeInv, TypeOK
  <2> QED
    BY <2>1, <2>4
<1> QED
  BY <1>1, <1>2, <1>3, <1>4, OrphanInit, Typing, PTL DEF Spec

-----------------------------------------------------------------------------
(* The count of active threads.                                            *)

(* There are finitely many threads, so the busy ones can be counted.       *)
LEMMA BusyFinite == IsFiniteSet(Threads) /\ IsFiniteSet(Busy)
<1>1. IsFiniteSet(Workers \cup {Caller})
  BY ThreadsAssumption, FS_AddElement
<1>2. Threads \subseteq Workers \cup {Caller} /\ Busy \subseteq Threads
  BY DEF Threads, Busy
<1> QED
  BY <1>1, <1>2, FS_Subset

(* Every step that makes a thread busy counts it, and no other step.       *)
LEMMA BusyStep ==
  ASSUME TypeInv, NEW t \in Threads, LoopStep(t) \/ TaskStep(t)
  PROVE  \/ Busy' = Busy /\ active' = active
         \/ Busy' = Busy \cup {t} /\ t \notin Busy /\ active' = active + 1
         \/ Busy' = Busy \ {t} /\ t \in Busy /\ active' = active - 1
<1> USE DEF TypeInv, TypeOK
<1>1. \A u \in Threads \ {t} : u \in Busy' <=> u \in Busy
  BY ThreadFrame DEF Busy
<1>2. CASE Take(t)
  <2>1. ft'[t] \in Entries
    BY <1>2 DEF Take
  <2>2. t \in Busy' /\ t \notin Busy
    BY <1>2, <2>1, EntryTypes DEF Take, Busy
  <2> QED
    BY <1>1, <1>2, <2>2 DEF Take, Busy
<1>3. CASE DropFinished(t) \/ SwapOut(t)
  <2>1. t \notin Busy' /\ t \in Busy /\ active' = active - 1
    BY <1>3 DEF DropFinished, SwapOut, Busy, NoEntry
  <2> QED
    BY <1>1, <2>1 DEF Busy
<1>4. CASE LoopStep(t) /\ ~Take(t) /\ ~DropFinished(t) /\ ~SwapOut(t)
  <2>1. (t \in Busy' <=> t \in Busy) /\ active' = active
    BY <1>4 DEF LoopStep, FindNothing, SwapInFiber, RunCallback, EnterIdle, LeaveLoop, Idle,
       Requeue, Release, FindsHold, Park, LetGo, Busy, NoEntry
  <2> QED
    BY <1>1, <2>1 DEF Busy
<1>5. CASE TaskStep(t)
  <2>1. (t \in Busy' <=> t \in Busy) /\ active' = active
    BY <1>5 DEF TaskStep, TaskSchedule, Wake, YieldReady, YieldHold, Yield, Finish, Throw,
       RunsJob, loopVars, Busy
  <2> QED
    BY <1>1, <2>1 DEF Busy
<1> QED
  BY <1>2, <1>3, <1>4, <1>5

(* And so every step keeps the count exact.                                *)
LEMMA ActiveStep == TypeInv /\ OwnerAhead /\ ActiveCountExact /\ [Next]_vars => ActiveCountExact'
<1> SUFFICES ASSUME TypeInv, OwnerAhead, ActiveCountExact, [Next]_vars
             PROVE  ActiveCountExact'
  OBVIOUS
<1>1. ASSUME NEW t \in Threads, LoopStep(t) \/ TaskStep(t) PROVE ActiveCountExact'
  BY <1>1, BusyStep, BusyFinite, FS_AddElement, FS_RemoveElement DEF ActiveCountExact
<1>2. CASE OwnerStep
  <2>1. Busy' = Busy /\ active' = active
    BY <1>2, OwnerFrame, ThreadsAssumption
    DEF OwnerStep, Start, StopAtOnce, StopBegin, StopStep, EnterRoot, SkipRoot, LeaveRoot,
        Join, OwnerSchedule, loopVars, TypeInv, TypeOK, OwnerAhead, Busy
  <2> QED
    BY <2>1 DEF ActiveCountExact
<1>3. CASE UNCHANGED vars
  BY <1>3 DEF ActiveCountExact, Busy, vars, loopVars
<1> QED
  BY <1>1, <1>2, <1>3 DEF Next, Terminated

(* A constructor leaves nobody busy.                                       *)
LEMMA ActiveInit == Init => ActiveCountExact
<1> SUFFICES ASSUME Init PROVE ActiveCountExact
  OBVIOUS
<1>1. Busy = {}
  BY DEF Init, Busy
<1> QED
  BY <1>1, FS_EmptySet DEF Init, ActiveCountExact

(* m_activeThreadCount is exact, whatever the jobs do: with it stopped()   *)
(* never misses a thread that runs a job.                                  *)
THEOREM ActiveExact == Spec => []ActiveCountExact
<1>1. Init => OwnerAhead
  BY DEF Init, OwnerAhead
<1> QED
  BY <1>1, ActiveInit, ActiveStep, OwnerAheadStep, Typing, PTL DEF Spec

=============================================================================
