--------------------------- MODULE ProgramProofs ---------------------------
(***************************************************************************)
(* Proofs about Program, for any threads and any number of rounds: the     *)
(* life of the Thread objects, the scoped guards, and the count that is    *)
(* used under them.                                                        *)
(***************************************************************************)
EXTENDS Program, TLAPS

-----------------------------------------------------------------------------
(* The life of a thread.                                                   *)

KernelSteps == {"none", "started", "prepared", "callback", "ended"}

LifeTypeOK ==
  /\ object \in [Threads -> {"none", "constructing", "alive", "destroyed"}]
  /\ handle \in [Threads -> BOOLEAN] /\ held \in [Threads -> BOOLEAN]
  /\ semaphore \in [Threads -> {0, 1}]
  /\ kernel \in [Threads -> KernelSteps]
  /\ released \in [Threads -> {0, 1}]

(* No object yet, or pthread_create() has failed: nothing runs.            *)
NotMade(t) == handle[t] = FALSE /\ held[t] = FALSE /\ semaphore[t] = 0 /\ kernel[t] = "none" /\ released[t] = 0

(* In the constructor: the semaphore tells how far run() is.               *)
BeingMade(t) ==
  /\ owner = Constructing(t)
  /\ handle[t] /\ released[t] = 0
  /\ kernel[t] # "none"
  /\ held[t] => kernel[t] = "started"
  /\ semaphore[t] = IF kernel[t] \in {"callback", "ended"} THEN 1 ELSE 0

(* After it run() is done with the object, unless the callback renames.    *)
Alive(t) ==
  /\ kernel[t] \in {"callback", "ended"}
  /\ ~held[t] /\ semaphore[t] = 0
  /\ handle[t] => released[t] = 0
  /\ ~handle[t] => released[t] = 1 /\ kernel[t] = "ended"

Gone(t) ==
  \/ NotMade(t)
  \/ /\ kernel[t] \in {"callback", "ended"}
     /\ ~held[t] /\ semaphore[t] = 0 /\ released[t] = 1
     /\ t \in Renamers => kernel[t] = "ended"

LifeOf(t) ==
  /\ object[t] = "none" => NotMade(t)
  /\ object[t] = "constructing" => BeingMade(t)
  /\ object[t] = "alive" => Alive(t)
  /\ object[t] = "destroyed" => Gone(t)
  /\ owner = Constructing(t) => object[t] = "constructing"
  /\ owner = Joining(t) => object[t] = "alive" /\ handle[t]

LifeInv == LifeTypeOK /\ misused = {} /\ \A t \in Threads : LifeOf(t)

USE DEF Free, Constructing, Joining

LEMMA LifeInit == Init => LifeInv
  BY DEF Init, ThreadInit, LifeInv, LifeTypeOK, LifeOf, NotMade, KernelSteps

LEMMA LifeStutters == LifeInv /\ UNCHANGED threadVars => LifeInv'
  BY DEF threadVars, LifeInv, LifeTypeOK, LifeOf, NotMade, BeingMade, Alive, Gone

(* The kernel's thread is released once: by join(),                        *)
LEMMA LifeJoined ==
  ASSUME LifeInv, NEW t \in Threads, Joined(t)
  PROVE  LifeInv'
<1>1. Alive(t) /\ handle[t]
  BY DEF Joined, LifeInv, LifeOf
<1>2. released' = [released EXCEPT ![t] = 1]
  <2>1. released[t] + 1 = 1
    BY <1>1 DEF Alive
  <2> QED
    BY <2>1 DEF Joined
<1>3. LifeTypeOK' /\ misused' = {}
  BY <1>1, <1>2 DEF Joined, LifeInv, LifeTypeOK
<1>4. LifeOf(t)'
  BY <1>1, <1>2 DEF Joined, LifeInv, LifeTypeOK, LifeOf, Alive, Gone, KernelSteps
<1>5. ASSUME NEW u \in Threads, u # t
      PROVE  LifeOf(u)'
  BY <1>1, <1>2, <1>5 DEF Joined, LifeInv, LifeTypeOK, LifeOf, NotMade, BeingMade, Alive, Gone
<1>6. \A u \in Threads : LifeOf(u)'
  BY <1>4, <1>5
<1> QED
  BY <1>3, <1>6 DEF LifeInv

(* or by the destructor, if join() has not done so.                        *)
LEMMA LifeDestroy ==
  ASSUME LifeInv, NEW t \in Threads, Destroy(t)
  PROVE  LifeInv'
<1>1. Alive(t)
  BY DEF Destroy, LifeInv, LifeOf
<1>2. released' = [released EXCEPT ![t] = 1]
  <2>1. CASE handle[t]
    <3>1. released[t] + 1 = 1
      BY <1>1, <2>1 DEF Alive
    <3> QED
      BY <2>1, <3>1 DEF Destroy
  <2>2. CASE ~handle[t]
    <3>1. released' = released /\ released[t] = 1
      BY <1>1, <2>2 DEF Destroy, Alive
    <3> QED
      BY <3>1 DEF LifeInv, LifeTypeOK
  <2> QED
    BY <2>1, <2>2
<1>3. LifeTypeOK' /\ misused' = {}
  BY <1>1, <1>2 DEF Destroy, LifeInv, LifeTypeOK
<1>4. LifeOf(t)'
  BY <1>1, <1>2 DEF Destroy, LifeInv, LifeTypeOK, LifeOf, Alive, Gone, KernelSteps
<1>5. ASSUME NEW u \in Threads, u # t
      PROVE  LifeOf(u)'
  BY <1>1, <1>2, <1>5 DEF Destroy, LifeInv, LifeTypeOK, LifeOf, NotMade, BeingMade, Alive, Gone
<1>6. \A u \in Threads : LifeOf(u)'
  BY <1>4, <1>5
<1> QED
  BY <1>3, <1>6 DEF LifeInv

(* The owner's steps.                                                      *)
LEMMA LifeOwner ==
  ASSUME LifeInv, NEW t \in Threads, OwnerStep(t)
  PROVE  LifeInv'
<1> USE DEF LifeInv, LifeTypeOK, LifeOf, NotMade, BeingMade, Alive, Gone, KernelSteps
<1>1. CASE Create(t)
  BY <1>1 DEF Create
<1>2. CASE CreateFails(t)
  BY <1>2 DEF CreateFails
<1>3. CASE Created(t)
  BY <1>3 DEF Created
<1>4. CASE Join(t)
  BY <1>4 DEF Join
<1>5. CASE Joined(t)
  BY <1>5, LifeJoined
<1>6. CASE Destroy(t)
  BY <1>6, LifeDestroy
<1> QED
  BY <1>1, <1>2, <1>3, <1>4, <1>5, <1>6 DEF OwnerStep

(* The steps of run().                                                     *)
LEMMA LifeRun ==
  ASSUME LifeInv, NEW t \in Threads, RunStep(t)
  PROVE  LifeInv'
<1> USE DEF LifeInv, LifeTypeOK, LifeOf, NotMade, BeingMade, Alive, Gone, KernelSteps, Uses
<1>1. CASE Prepare(t)
  BY <1>1 DEF Prepare
<1>2. CASE Notify(t)
  BY <1>2 DEF Notify
<1>3. CASE Rename(t)
  BY <1>3 DEF Rename
<1>4. CASE Returned(t)
  BY <1>4 DEF Returned, Return
<1> QED
  BY <1>1, <1>2, <1>3, <1>4 DEF RunStep

-----------------------------------------------------------------------------
(* The guards and the count.                                               *)

UseTypeOK ==
  /\ LockTypeOK
  /\ step \in [Threads -> Steps]
  /\ count \in Nat /\ seen \in [Threads -> Nat]

(* What a callback has in each step of its round: before the guard none,   *)
(* between the two accesses the mutex for writing and the count as it is.  *)
UseOf(t) ==
  /\ guard[t].kind = "none" => guard[t] = NoGuard
  /\ step[t] \in {"idle", "logging", "read", "write"} => guard[t] = NoGuard
  /\ step[t] \in {"held", "retaken", "adding", "used", "added"} => guard[t].locked
  /\ step[t] = "adding" => guard[t].kind = "write" /\ seen[t] = count

UseInv ==
  /\ UseTypeOK /\ GuardsExact /\ CountExact
  /\ \A t \in Threads : UseOf(t)

useVars == <<lockVars, step, count, seen, adds>>

LEMMA UseInit == Init => UseInv
<1> SUFFICES ASSUME Init
             PROVE  UseInv
  OBVIOUS
<1>1. \A t \in Holders : guard[t] = NoGuard
  BY DEF Init, LockInit
<1>2. LockTypeOK
  BY DEF Init, LockInit, LockTypeOK, NoGuard
<1>3. GuardsExact
  BY <1>1, LockAssumption DEF Init, LockInit, GuardsExact, NoGuard
<1>4. \A t \in Threads : UseOf(t)
  BY <1>1, ProgramAssumption DEF Init, UseOf
<1> QED
  BY <1>2, <1>3, <1>4 DEF Init, UseInv, UseTypeOK, CountExact, Steps

LEMMA UseStutters == UseInv /\ UNCHANGED useVars => UseInv'
  BY DEF useVars, lockVars, UseInv, UseTypeOK, LockTypeOK, GuardsExact, CountExact, UseOf

(* The steps that leave the mutex and the guards alone.                    *)
LEMMA UseOutside ==
  ASSUME UseInv, NEW t \in Threads,
         LogBegin(t) \/ LogStep(t) \/ LogEnd(t) \/ UseBegin(t) \/ ReadCount(t) \/ WriteCount(t)
  PROVE  UseInv'
<1> USE ProgramAssumption
    DEF UseInv, UseTypeOK, LockTypeOK, GuardsExact, CountExact, UseOf, Steps, At, Goes, Finishes, lockVars, callVars
<1>1. CASE LogBegin(t)
  BY <1>1 DEF LogBegin
<1>2. CASE LogStep(t)
  BY <1>2 DEF LogStep
<1>3. CASE LogEnd(t)
  BY <1>3 DEF LogEnd
<1>4. CASE UseBegin(t)
  BY <1>4 DEF UseBegin
<1>5. CASE ReadCount(t)
  BY <1>5 DEF ReadCount
<1>6. CASE WriteCount(t)
  BY <1>6 DEF WriteCount
<1> QED
  BY <1>1, <1>2, <1>3, <1>4, <1>5, <1>6

(* A guard that takes the mutex, or gives it back, and says so.            *)
OnlyGuard(t) ==
  /\ guard' \in [Holders -> [kind : {"none", "read", "write"}, locked : BOOLEAN]]
  /\ \A u \in Holders : u # t => guard'[u] = guard[u]

LEMMA AcquireExact ==
  ASSUME LockTypeOK, GuardsExact, NEW t \in Holders, NEW kind \in {"read", "write"},
         ~guard[t].locked, Acquire(t, kind), UNCHANGED undefined,
         OnlyGuard(t), guard'[t].kind = kind, guard'[t].locked
  PROVE  LockTypeOK' /\ GuardsExact'
<1>1. LockTypeOK'
  BY DEF LockTypeOK, Acquire, OnlyGuard
<1>2. CASE kind = "write"
  BY <1>2, LockAssumption DEF LockTypeOK, GuardsExact, Acquire, OnlyGuard
<1>3. CASE kind = "read"
  BY <1>3, LockAssumption DEF LockTypeOK, GuardsExact, Acquire, OnlyGuard
<1> QED
  BY <1>1, <1>2, <1>3

LEMMA ReleaseExact ==
  ASSUME LockTypeOK, GuardsExact, NEW t \in Holders, guard[t].kind # "none",
         guard[t].locked, Release(t), OnlyGuard(t), ~guard'[t].locked
  PROVE  LockTypeOK' /\ GuardsExact'
<1>1. LockTypeOK'
  BY DEF LockTypeOK, Release, OnlyGuard
<1>2. guard[t].kind \in {"read", "write"}
  BY DEF LockTypeOK
<1>3. CASE guard[t].kind = "write"
  BY <1>3, LockAssumption DEF LockTypeOK, GuardsExact, Release, OnlyGuard
<1>4. CASE guard[t].kind = "read"
  BY <1>4, LockAssumption DEF LockTypeOK, GuardsExact, Release, OnlyGuard
<1> QED
  BY <1>1, <1>2, <1>3, <1>4

LEMMA UseGuardBegin ==
  ASSUME UseInv, NEW t \in Threads, GuardBegin(t)
  PROVE  UseInv'
<1> t \in Holders
  BY ProgramAssumption
<1>1. PICK kind \in {"read", "write"} :
        /\ guard[t] = NoGuard /\ Acquire(t, kind) /\ UNCHANGED undefined
        /\ guard' = [guard EXCEPT ![t] = [kind |-> kind, locked |-> TRUE]]
  BY DEF GuardBegin, Guard
<1>2. OnlyGuard(t) /\ guard'[t].kind = kind /\ guard'[t].locked /\ ~guard[t].locked
  <2>1. guard \in [Holders -> [kind : {"none", "read", "write"}, locked : BOOLEAN]]
    BY DEF UseInv, UseTypeOK, LockTypeOK
  <2> QED
    BY <1>1, <2>1 DEF OnlyGuard, NoGuard
<1>3. LockTypeOK' /\ GuardsExact'
  BY <1>1, <1>2, AcquireExact DEF UseInv, UseTypeOK
<1>4. step' = [step EXCEPT ![t] = "held"] /\ UNCHANGED <<count, seen, adds>>
  BY DEF GuardBegin, Goes
<1>5. \A u \in Threads : UseOf(u)'
  BY <1>1, <1>2, <1>4, ProgramAssumption DEF OnlyGuard, UseInv, UseOf, UseTypeOK, NoGuard
<1> QED
  BY <1>3, <1>4, <1>5 DEF UseInv, UseTypeOK, CountExact, Steps

LEMMA UseDrop ==
  ASSUME UseInv, NEW t \in Threads, Drop(t)
  PROVE  UseInv'
<1> t \in Holders
  BY ProgramAssumption
<1>1. guard[t].locked /\ guard[t].kind \in {"read", "write"}
  <2>1. step[t] = "held" /\ guard[t] # NoGuard
    BY DEF Drop, Unlock, At
  <2>2. guard[t].locked
    BY <2>1 DEF UseInv, UseOf
  <2> QED
    BY <2>1, <2>2 DEF UseInv, UseOf, UseTypeOK, LockTypeOK, NoGuard
<1>2. OnlyGuard(t) /\ guard'[t].kind = guard[t].kind /\ guard'[t].locked = FALSE
  <2>1. guard' = [guard EXCEPT ![t].locked = FALSE]
    BY <1>1 DEF Drop, Unlock
  <2>2. guard \in [Holders -> [kind : {"none", "read", "write"}, locked : BOOLEAN]]
    BY DEF UseInv, UseTypeOK, LockTypeOK
  <2> QED
    BY <2>1, <2>2 DEF OnlyGuard
<1>3. LockTypeOK' /\ GuardsExact'
  BY <1>1, <1>2, ReleaseExact DEF Drop, Unlock, UseInv, UseTypeOK
<1>4. step' = [step EXCEPT ![t] = "dropped"] /\ UNCHANGED <<count, seen, adds>>
  BY DEF Drop, Goes
<1>5. \A u \in Threads : UseOf(u)'
  BY <1>1, <1>2, <1>4, ProgramAssumption DEF OnlyGuard, UseInv, UseOf, UseTypeOK, NoGuard
<1> QED
  BY <1>3, <1>4, <1>5 DEF UseInv, UseTypeOK, CountExact, Steps

LEMMA UseRetake ==
  ASSUME UseInv, NEW t \in Threads, Retake(t)
  PROVE  UseInv'
<1> t \in Holders
  BY ProgramAssumption
<1>1. guard[t] # NoGuard /\ guard[t].kind \in {"read", "write"}
  BY DEF Retake, Lock, At, UseInv, UseOf, UseTypeOK, LockTypeOK, NoGuard
<1>2. OnlyGuard(t) /\ guard'[t].kind = guard[t].kind /\ guard'[t].locked = TRUE
  <2>1. guard \in [Holders -> [kind : {"none", "read", "write"}, locked : BOOLEAN]]
    BY DEF UseInv, UseTypeOK, LockTypeOK
  <2>2. CASE guard[t].locked
    <3>1. guard' = guard
      BY <2>2 DEF Retake, Lock
    <3> QED
      BY <2>1, <2>2, <3>1 DEF OnlyGuard
  <2>3. CASE ~guard[t].locked
    <3>1. guard' = [guard EXCEPT ![t].locked = TRUE]
      BY <2>3 DEF Retake, Lock
    <3> QED
      BY <2>1, <3>1 DEF OnlyGuard
  <2> QED
    BY <2>1, <2>2, <2>3
<1>3. LockTypeOK' /\ GuardsExact'
  <2>1. CASE guard[t].locked
    BY <1>2, <2>1 DEF Retake, Lock, UseInv, UseTypeOK, LockTypeOK, GuardsExact, OnlyGuard
  <2>2. CASE ~guard[t].locked
    BY <1>1, <1>2, <2>2, AcquireExact DEF Retake, Lock, UseInv, UseTypeOK
  <2> QED
    BY <2>1, <2>2
<1>4. step' = [step EXCEPT ![t] = "retaken"] /\ UNCHANGED <<count, seen, adds>>
  BY DEF Retake, Goes
<1>5. \A u \in Threads : UseOf(u)'
  BY <1>1, <1>2, <1>4, ProgramAssumption DEF OnlyGuard, UseInv, UseOf, UseTypeOK, NoGuard
<1> QED
  BY <1>3, <1>4, <1>5 DEF UseInv, UseTypeOK, CountExact, Steps

(* The steps of the guards.                                                *)
LEMMA UseGuards ==
  ASSUME UseInv, NEW t \in Threads, GuardBegin(t) \/ Drop(t) \/ Retake(t) \/ GuardEnd(t)
  PROVE  UseInv'
<1> USE ProgramAssumption, LockAssumption
    DEF UseInv, UseTypeOK, LockTypeOK, GuardsExact, CountExact, UseOf, Steps, At, Goes, Finishes, lockVars, NoGuard,
        Acquire, Release
<1>1. CASE GuardBegin(t)
  BY <1>1, UseGuardBegin
<1>2. CASE Drop(t)
  BY <1>2, UseDrop
<1>3. CASE Retake(t)
  BY <1>3, UseRetake
<1>4. CASE GuardEnd(t)
  BY <1>4 DEF GuardEnd, Unguard
<1> QED
  BY <1>1, <1>2, <1>3, <1>4

-----------------------------------------------------------------------------
(* The file.                                                               *)

LineSteps == {"none", "check", "reopen", "mark", "write"}

(* No time is later than the clock.                                        *)
FileTypes ==
  /\ clock \in Nat /\ rotatedAt \in 0..clock /\ lastTime \in 0..clock /\ failedAt \in 0..clock
  /\ path \in Nat \ {0}
  /\ stream \in [file : Nat, failed : BOOLEAN]
  /\ line \in [Writers -> [step : LineSteps, time : 0..clock]]

(* The event was made, and the file opened for it, after the file was      *)
(* moved away; or the stream has failed since.                             *)
Follows(time) == time > rotatedAt /\ ~stream.failed => stream.file = path

(* The last open() that failed is not older than the event.                *)
Retries(time) == stream.failed /\ stream.file = Closed => time <= failedAt

FileInv ==
  /\ FileTypes
  /\ stream.file = Closed => stream.failed
  /\ Follows(lastTime) /\ Retries(lastTime)
  /\ \A t \in Writers : line[t].step = "mark" => Follows(line[t].time) /\ Retries(line[t].time)
  /\ FollowsRotation /\ RetriesOpen

LEMMA FileStart == Init => FileInv
  BY FileAssumption DEF Init, FileInit, FileInv, FileTypes, LineSteps, Follows, Retries, FollowsRotation, RetriesOpen,
     NoLine, Closed, Interval

LEMMA FileStutters == FileInv /\ UNCHANGED fileVars => FileInv'
  BY DEF fileVars, FileInv, FileTypes, Follows, Retries, FollowsRotation, RetriesOpen

LEMMA FileWorld ==
  ASSUME FileInv, Tick \/ Rotate \/ Refuse
  PROVE  FileInv'
<1> USE DEF FileInv, FileTypes, LineSteps, Follows, Retries, FollowsRotation, RetriesOpen, Interval
<1>1. CASE Tick
  BY <1>1 DEF Tick
<1>2. CASE Rotate
  BY <1>2 DEF Rotate
<1>3. CASE Refuse
  BY <1>3 DEF Refuse
<1> QED
  BY <1>1, <1>2, <1>3

LEMMA FileLog ==
  ASSUME FileInv, NEW t \in Writers, MakeEvent(t) \/ CheckTime(t) \/ Reopen(t) \/ MarkTime(t) \/ Write(t)
  PROVE  FileInv'
<1> USE DEF FileInv, FileTypes, LineSteps, Follows, Retries, FollowsRotation, RetriesOpen, Interval, LineAt, GoesTo, Closed
<1>1. CASE MakeEvent(t)
  BY <1>1 DEF MakeEvent
<1>2. CASE CheckTime(t)
  <2>1. /\ UNCHANGED <<clock, path, rotatedAt, stream, lastTime, failedAt>>
        /\ \A u \in Writers \ {t} : line'[u] = line[u]
        /\ line'[t].time = line[t].time
    BY <1>2 DEF CheckTime
  <2>2. CASE line[t].time >= lastTime + Interval
    <3>1. line' = [line EXCEPT ![t].step = "reopen"]
      BY <1>2, <2>2 DEF CheckTime
    <3>2. line'[t].step = "reopen"
      BY <3>1
    <3> QED
      BY <2>1, <3>1, <3>2
  <2>3. CASE ~(line[t].time >= lastTime + Interval)
    <3>1. line' = [line EXCEPT ![t].step = "write"]
      BY <1>2, <2>3 DEF CheckTime
    <3>2. line[t].time \in Nat /\ line[t].time < lastTime + Interval
      BY <2>3
    <3>3. line[t].time >= rotatedAt + Interval /\ ~stream.failed => stream.file = path
      BY <3>2
    <3>4. stream.failed /\ stream.file = Closed => line[t].time < failedAt + Interval
      BY <3>2
    <3>5. FollowsRotation' /\ RetriesOpen'
      BY <2>1, <3>3, <3>4
    <3>6. line'[t].step = "write"
      BY <3>1
    <3> QED
      BY <2>1, <3>1, <3>5, <3>6
  <2> QED
    BY <2>2, <2>3
<1>3. CASE Reopen(t)
  BY <1>3 DEF Reopen, Reopened
<1>4. CASE MarkTime(t)
  BY <1>4 DEF MarkTime
<1>5. CASE Write(t)
  <2>1. /\ UNCHANGED <<clock, path, rotatedAt, lastTime, failedAt>>
        /\ \A u \in Writers \ {t} : line'[u] = line[u]
        /\ line'[t] = NoLine
        /\ line' \in [Writers -> [step : LineSteps, time : 0..clock]]
    BY <1>5 DEF Write, NoLine
  <2>2. CASE UNCHANGED stream
    BY <2>1, <2>2 DEF NoLine
  <2>3. CASE stream' = [stream EXCEPT !.failed = TRUE]
    <3>1. stream' = [file |-> stream.file, failed |-> TRUE]
      BY <2>3
    <3>2. stream'.file = Closed => stream.failed
      BY <3>1
    <3> QED
      BY <2>1, <3>1, <3>2 DEF NoLine
  <2> QED
    BY <1>5, <2>2, <2>3 DEF Write
<1> QED
  BY <1>1, <1>2, <1>3, <1>4, <1>5

-----------------------------------------------------------------------------
(* The program.                                                            *)

Inv == LifeInv /\ UseInv /\ FileInv

LEMMA InvStep == Inv /\ [Next]_vars => Inv'
<1> SUFFICES ASSUME Inv, [Next]_vars
             PROVE  Inv'
  OBVIOUS
<1>1. CASE World
  <2>1. UNCHANGED threadVars /\ UNCHANGED useVars
    BY <1>1 DEF World, callVars, useVars
  <2>2. FileInv'
    BY <1>1, FileWorld DEF World, Inv
  <2> QED
    BY <2>1, <2>2, LifeStutters, UseStutters DEF Inv
<1>2. ASSUME NEW t \in Threads, OwnerStep(t)
      PROVE  Inv'
  <2>1. UNCHANGED useVars /\ UNCHANGED fileVars
    BY <1>2 DEF OwnerStep, callVars, useVars
  <2> QED
    BY <1>2, <2>1, LifeOwner, UseStutters, FileStutters DEF Inv
<1>3. ASSUME NEW t \in Threads, RunStep(t)
      PROVE  Inv'
  <2>1. UNCHANGED useVars /\ UNCHANGED fileVars
    BY <1>3 DEF RunStep, callVars, useVars
  <2> QED
    BY <1>3, <2>1, LifeRun, UseStutters, FileStutters DEF Inv
<1>4. ASSUME NEW t \in Threads, Callback(t)
      PROVE  Inv'
  <2>1. UNCHANGED threadVars
    BY <1>4 DEF Callback, LogBegin, LogStep, LogEnd, UseBegin, GuardBegin, Drop, Retake, ReadCount, WriteCount, GuardEnd
  <2>2. LifeInv'
    BY <2>1, LifeStutters DEF Inv
  <2>3. UseInv'
    BY <1>4, UseOutside, UseGuards DEF Callback, Inv
  <2>4. FileInv'
    <3>1. CASE LogBegin(t) \/ LogStep(t) \/ LogEnd(t)
      BY <3>1, FileLog, ProgramAssumption DEF LogBegin, LogStep, LogEnd, Inv
    <3>2. CASE ~(LogBegin(t) \/ LogStep(t) \/ LogEnd(t))
      <4>1. UNCHANGED fileVars
        BY <1>4, <3>2 DEF Callback, UseBegin, GuardBegin, Drop, Retake, ReadCount, WriteCount, GuardEnd
      <4> QED
        BY <4>1, FileStutters DEF Inv
    <3> QED
      BY <3>1, <3>2
  <2> QED
    BY <2>2, <2>3, <2>4 DEF Inv
<1>5. CASE UNCHANGED vars
  <2>1. UNCHANGED threadVars /\ UNCHANGED useVars /\ UNCHANGED fileVars
    BY <1>5 DEF vars, callVars, useVars
  <2> QED
    BY <2>1, LifeStutters, UseStutters, FileStutters DEF Inv
<1> QED
  BY <1>1, <1>2, <1>3, <1>4, <1>5 DEF Next

THEOREM Invariance == Spec => []Inv
<1>1. Init => Inv
  BY LifeInit, UseInit, FileStart DEF Inv
<1> QED
  BY <1>1, InvStep, PTL DEF Spec

-----------------------------------------------------------------------------
(* Types.                                                                  *)

OwnerStates == {Free} \cup {Constructing(t) : t \in Threads} \cup {Joining(t) : t \in Threads}

(* A callback that is in a round has not done all of them.                 *)
InRounds ==
  /\ rounds \in [Threads -> 0..MaxRounds]
  /\ \A t \in Threads : step[t] # "idle" => rounds[t] < MaxRounds

(* What the world may do is bounded, and a stream that is stuck uses up    *)
(* one of the troubles: it never gets out of it.                           *)
BoundsInv ==
  /\ work \in {"log", "count"}
  /\ owner \in OwnerStates
  /\ InRounds
  /\ clock \in StartTime..MaxTime
  /\ openable \in BOOLEAN /\ refusals \in Nat
  /\ Troubles <= MaxTroubles /\ stream.file <= path

LEMMA BoundsInit == Init => BoundsInv
  BY FileAssumption, ProgramAssumption
  DEF Init, ThreadInit, FileInit, BoundsInv, OwnerStates, InRounds, Troubles, Stuck, Closed

LEMMA RoundsStep ==
  ASSUME UseTypeOK, InRounds, NEW t \in Threads, Callback(t)
  PROVE  InRounds'
<1> USE ProgramAssumption DEF UseTypeOK, InRounds, At, Goes, Finishes
<1>1. CASE LogBegin(t) \/ UseBegin(t)
  BY <1>1 DEF LogBegin, UseBegin
<1>2. CASE LogStep(t)
  BY <1>2 DEF LogStep, callVars
<1>3. CASE GuardBegin(t) \/ Drop(t) \/ Retake(t) \/ ReadCount(t) \/ WriteCount(t)
  BY <1>3 DEF GuardBegin, Drop, Retake, ReadCount, WriteCount
<1>4. CASE LogEnd(t) \/ GuardEnd(t)
  <2>1. rounds[t] < MaxRounds
    BY <1>4 DEF LogEnd, GuardEnd
  <2>2. step' = [step EXCEPT ![t] = "idle"] /\ rounds' = [rounds EXCEPT ![t] = @ + 1]
    BY <1>4 DEF LogEnd, GuardEnd
  <2> QED
    BY <2>1, <2>2
<1> QED
  BY <1>1, <1>2, <1>3, <1>4 DEF Callback

(* Writing a line fills the disk once at most, and reopening neither gets  *)
(* a stream into trouble nor out of it.                                    *)
LEMMA BoundsLog ==
  ASSUME FileTypes, BoundsInv, NEW t \in Writers,
         MakeEvent(t) \/ CheckTime(t) \/ Reopen(t) \/ MarkTime(t) \/ Write(t)
  PROVE  Troubles' <= MaxTroubles /\ stream'.file <= path' /\ UNCHANGED <<clock, openable, refusals>>
<1> USE DEF FileTypes, BoundsInv, Troubles, Stuck, Closed
<1>1. CASE MakeEvent(t) \/ CheckTime(t) \/ MarkTime(t)
  BY <1>1 DEF MakeEvent, CheckTime, MarkTime
<1>2. CASE Reopen(t)
  <2>1. UNCHANGED <<clock, path, openable, refusals>> /\ stream' = Reopened
    BY <1>2 DEF Reopen
  <2>2. stream' \in {stream, [file |-> path, failed |-> FALSE], [file |-> 0, failed |-> TRUE]}
    BY <2>1 DEF Reopened
  <2>3. Stuck' => Stuck
    BY <2>1, <2>2 DEF Reopened
  <2> QED
    BY <2>1, <2>2, <2>3, FileAssumption
<1>3. CASE Write(t)
  <2>1. UNCHANGED <<clock, path, openable, refusals>>
    BY <1>3 DEF Write
  <2>2. CASE UNCHANGED stream
    BY <2>1, <2>2
  <2>3. CASE Troubles < MaxTroubles /\ stream' = [stream EXCEPT !.failed = TRUE]
    BY <2>1, <2>3, FileAssumption
  <2> QED
    BY <1>3, <2>1, <2>2, <2>3 DEF Write
<1> QED
  BY <1>1, <1>2, <1>3

LEMMA BoundsStep == UseInv /\ FileInv /\ BoundsInv /\ [Next]_vars => BoundsInv'
<1> SUFFICES ASSUME UseInv, FileInv, BoundsInv, [Next]_vars
             PROVE  BoundsInv'
  OBVIOUS
<1>1. FileTypes
  BY DEF FileInv
<1>2. CASE World
  <2>1. UNCHANGED <<work, owner, rounds, step, stream>>
    BY <1>2 DEF World, threadVars, callVars, Tick, Rotate, Refuse
  <2>2. CASE Tick
    BY <1>1, <2>1, <2>2, FileAssumption DEF Tick, FileTypes, BoundsInv, InRounds, Troubles, Stuck
  <2>3. CASE Rotate
    BY <1>1, <2>1, <2>3, FileAssumption DEF Rotate, FileTypes, BoundsInv, InRounds, Troubles, Stuck
  <2>4. CASE Refuse
    BY <1>1, <2>1, <2>4, FileAssumption DEF Refuse, FileTypes, BoundsInv, InRounds, Troubles, Stuck
  <2> QED
    BY <1>2, <2>2, <2>3, <2>4 DEF World
<1>3. ASSUME NEW t \in Threads, OwnerStep(t)
      PROVE  BoundsInv'
  <2>1. owner' \in OwnerStates
    BY <1>3 DEF OwnerStep, Create, CreateFails, Created, Join, Joined, Destroy, BoundsInv, OwnerStates
  <2>2. UNCHANGED <<fileVars, work, rounds, step>>
    BY <1>3 DEF OwnerStep, callVars
  <2> QED
    BY <2>1, <2>2 DEF BoundsInv, InRounds, fileVars, Troubles, Stuck
<1>4. ASSUME NEW t \in Threads, RunStep(t)
      PROVE  BoundsInv'
  <2>1. UNCHANGED <<fileVars, work, rounds, step, owner>>
    BY <1>4 DEF RunStep, callVars, Prepare, Notify, Rename, Returned, Return
  <2> QED
    BY <2>1 DEF BoundsInv, InRounds, fileVars, Troubles, Stuck
<1>5. ASSUME NEW t \in Threads, Callback(t)
      PROVE  BoundsInv'
  <2>1. UNCHANGED <<work, owner>>
    BY <1>5 DEF Callback, LogBegin, LogStep, LogEnd, UseBegin, GuardBegin, Drop, Retake, ReadCount,
                WriteCount, GuardEnd, threadVars, callVars
  <2>2. InRounds'
    BY <1>5, RoundsStep DEF UseInv, BoundsInv
  <2>3. CASE LogBegin(t) \/ LogStep(t) \/ LogEnd(t)
    <3>1. Troubles' <= MaxTroubles /\ stream'.file <= path' /\ UNCHANGED <<clock, openable, refusals>>
      BY <1>1, <2>3, BoundsLog, ProgramAssumption DEF LogBegin, LogStep, LogEnd
    <3> QED
      BY <2>1, <2>2, <3>1 DEF BoundsInv
  <2>4. CASE ~(LogBegin(t) \/ LogStep(t) \/ LogEnd(t))
    <3>1. UNCHANGED fileVars
      BY <1>5, <2>4 DEF Callback, UseBegin, GuardBegin, Drop, Retake, ReadCount, WriteCount, GuardEnd
    <3> QED
      BY <2>1, <2>2, <3>1 DEF BoundsInv, fileVars, Troubles, Stuck
  <2> QED
    BY <2>3, <2>4
<1>6. CASE UNCHANGED vars
  BY <1>6 DEF vars, threadVars, fileVars, callVars, BoundsInv, InRounds, Troubles, Stuck
<1> QED
  BY <1>2, <1>3, <1>4, <1>5, <1>6 DEF Next

(* The handshake of the constructor protects the object: run() works on no *)
(* object that its owner has destroyed, and has taken the callback out of  *)
(* it by the time the owner may.                                           *)
THEOREM ObjectsSafe == Spec => []NoUseAfterDestroy
<1>1. Inv => NoUseAfterDestroy
  BY DEF Inv, LifeInv, LifeOf, Alive, Gone, NotMade, NoUseAfterDestroy
<1> QED
  BY <1>1, Invariance, PTL

(* join() and the destructor release each kernel's thread once between     *)
(* them, and none that pthread_create() did not make.                      *)
THEOREM ReleasedExactlyOnce == Spec => []ReleasedOnce
<1>1. Inv => ReleasedOnce
  BY DEF Inv, LifeInv, LifeTypeOK, LifeOf, BeingMade, Alive, Gone, NotMade, ReleasedOnce
<1> QED
  BY <1>1, Invariance, PTL

(* A scoped guard knows whether its thread has the mutex, through unlock() *)
(* and lock() by hand and the destructor.                                  *)
THEOREM GuardsKnow == Spec => []GuardsExact
<1>1. Inv => GuardsExact
  BY DEF Inv, UseInv
<1> QED
  BY <1>1, Invariance, PTL

(* What threads add to the count under their guards is never lost.         *)
THEOREM NothingLost == Spec => []CountExact
<1>1. Inv => CountExact
  BY DEF Inv, UseInv
<1> QED
  BY <1>1, Invariance, PTL

(* FileLogAppender::log() tests and sets m_lastTime without the lock, and  *)
(* reopens by the time of the event: an event that is made three seconds   *)
(* after the file was moved away still goes to the new file, for any       *)
(* number of threads and of rotations.                                     *)
THEOREM FollowsTheFile == Spec => []FollowsRotation
<1>1. Inv => FollowsRotation
  BY DEF Inv, FileInv
<1> QED
  BY <1>1, Invariance, PTL

(* A file that could not be opened is tried again by the first event that  *)
(* comes three seconds later.                                              *)
THEOREM TriesAgain == Spec => []RetriesOpen
<1>1. Inv => RetriesOpen
  BY DEF Inv, FileInv
<1> QED
  BY <1>1, Invariance, PTL

(* Every variable keeps its type: the semaphore is given once, the clock   *)
(* and the troubles of the file system stay within their bounds, and no    *)
(* callback does more than its rounds.                                     *)
THEOREM ProgramTypeCorrect == Spec => []TypeOK
<1>1. Inv /\ BoundsInv => TypeOK
  <2> SUFFICES ASSUME LifeInv, UseInv, FileInv, BoundsInv
               PROVE  TypeOK
    BY DEF Inv
  <2>1. ThreadTypeOK
    BY DEF LifeInv, LifeTypeOK, BoundsInv, OwnerStates, ThreadTypeOK, KernelSteps
  <2>2. FileTypeOK
    <3>1. /\ clock \in StartTime..MaxTime /\ openable \in BOOLEAN /\ stream.file <= path
          /\ path \in Nat \ {0} /\ refusals \in Nat /\ path - 1 + refusals <= MaxTroubles
      BY FileAssumption DEF FileInv, FileTypes, BoundsInv, Troubles
    <3>2. 0..clock \subseteq 0..MaxTime
      BY <3>1, FileAssumption
    <3>3. stream \in [file : 0..MaxTroubles + 1, failed : BOOLEAN]
      BY <3>1, FileAssumption DEF FileInv, FileTypes
    <3> QED
      BY <3>1, <3>2, <3>3, FileAssumption DEF FileInv, FileTypes, FileTypeOK, LineSteps
  <2>3. count \in Nat /\ adds \in Nat
    BY DEF UseInv, UseTypeOK, CountExact
  <2> QED
    BY <2>1, <2>2, <2>3 DEF TypeOK, UseInv, UseTypeOK, BoundsInv, InRounds
<1>2. Init => Inv
  BY LifeInit, UseInit, FileStart DEF Inv
<1>3. Inv /\ BoundsInv /\ [Next]_vars => (Inv /\ BoundsInv)'
  BY InvStep, BoundsStep DEF Inv
<1> QED
  BY <1>1, <1>2, <1>3, BoundsInit, PTL DEF Spec
=============================================================================
