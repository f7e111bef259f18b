------------------------------ MODULE JobProofs ------------------------------
(***************************************************************************)
(* Every job in one place, and the pool that TaskPool promises, for every  *)
(* number of threads and jobs, when no job schedules a coroutine that it   *)
(* did not get from run().  Exclusion says where coroutines are; here it   *)
(* is tied to the jobs they carry, Fiber::m_cb, and to their states.       *)
(***************************************************************************)
EXTENDS ExclusionProofs, SchedulerRefinement

USE DEF Fibers

(* Thread t has taken coroutine f and not let it go.                       *)
Holds(t, f) ==
  \/ pc[t] = "dispatch" /\ ft[t].kind = "fiber" /\ ft[t].id = f
  \/ OnCoroutine(t) /\ OnFiber(t) = f

HandOf(t) ==
  /\ ft[t].kind = "cb" => pc[t] = "dispatch"
  /\ ft[t].kind = "fiber" => pc[t] = "dispatch" \/ OnCoroutine(t)
EntryInHand == \A t \in Threads : HandOf(t)

(* The state of a coroutine tells what it carries: mainFunc() clears m_cb  *)
(* when the job returned and leaves it after an exception.                 *)
Mine(f) == IF f \in Coroutines THEN {f} ELSE Callbacks
LifeOf(f) ==
  /\ fstate[f] = "NONE" => fjob[f] = NoJob
  /\ fstate[f] = "INIT" => fjob[f] = IF f \in Coroutines THEN f ELSE NoJob
  /\ fstate[f] = "INIT" /\ f \in Coroutines => f \notin ended
  /\ fstate[f] \in {"EXEC", "READY", "HOLD"} =>
       fjob[f] \in Mine(f) /\ fjob[f] \in submitted /\ fjob[f] \notin ended
  /\ fstate[f] = "TERM" => fjob[f] = NoJob /\ (f \in Coroutines => f \in ended)
  /\ fstate[f] = "EXCEPT" => fjob[f] \in Mine(f) /\ fjob[f] \in ended
FiberLife == \A f \in Fibers : LifeOf(f)

(* No two coroutines carry the same job.                                   *)
OneFiber == \A f, g \in Fibers : fjob[f] = fjob[g] /\ fjob[f] # NoJob => f = g

(* A coroutine that swapIn() may switch to with a job to run.              *)
Startable(f) == \/ fstate[f] = "READY"
                \/ fstate[f] = "INIT" /\ f \in Coroutines /\ f \in submitted
GoesOn(f) == fstate[f] = "EXEC" \/ Startable(f)

(* Where a coroutine is tells its state.                                   *)
FitOf(t) ==
  /\ pc[t] = "dispatch" /\ ft[t].kind = "fiber" => Startable(ft[t].id)
  /\ pc[t] = "run" => fstate[OnFiber(t)] = "EXEC"
  /\ pc[t] \in {"swapOut", "settle"} => fstate[OnFiber(t)] \in {"READY", "HOLD"} \cup Over
  /\ pc[t] = "park" => fstate[OnFiber(t)] = "HOLD"
StatesFit ==
  /\ \A i \in DOMAIN queue : queue[i].kind = "fiber" => Startable(queue[i].id)
  /\ \A t \in Threads : FitOf(t)

(* A callback that no thread has started is carried by no coroutine.       *)
Unstarted(j) ==
  \/ \E i \in DOMAIN queue : EntryOfCallback(i, j)
  \/ \E t \in Threads : HasCallback(t, j)
Fresh == \A j \in Callbacks : Unstarted(j) => j \notin ended /\ \A f \in Fibers : fjob[f] # j

(* And nothing is lost: what can go on is in the queue or in a thread's    *)
(* hands, a callback is in an entry or in a coroutine until it is over.    *)
FibersSomewhere ==
  \A f \in Fibers : GoesOn(f) =>
    (\E i \in DOMAIN queue : EntryOfFiber(i, f)) \/ (\E t \in Threads : Holds(t, f))
CallbacksSomewhere ==
  \A j \in Callbacks :
    j \in submitted => j \in ended \/ Unstarted(j) \/ \E f \in Fibers : fjob[f] = j

JobInv ==
  /\ EntryInHand /\ FiberLife /\ OneFiber /\ StatesFit /\ Fresh
  /\ FibersSomewhere /\ CallbacksSomewhere /\ ended \subseteq submitted

-----------------------------------------------------------------------------
(* What a thread holds it has, so nobody else has it and no entry is left. *)
LEMMA HoldsHas ==
  ASSUME TypeInv, Exclusion
  PROVE  /\ \A t \in Threads, f \in Fibers : Holds(t, f) => Has(t, f)
         /\ \A t \in Threads : OnCoroutine(t) => OnFiber(t) \in Fibers /\ Holds(t, OnFiber(t))
         /\ \A t, u \in Threads, f \in Fibers : Holds(t, f) /\ Holds(u, f) => t = u
         /\ \A t \in Threads, f \in Fibers, i \in DOMAIN queue :
              Holds(t, f) => ~EntryOfFiber(i, f)
<1>1. \A t \in Threads, f \in Fibers : Holds(t, f) => Has(t, f)
  BY DEF Holds, Has, OnFiber
<1>2. \A t \in Threads : OnCoroutine(t) => OnFiber(t) \in Fibers /\ Holds(t, OnFiber(t))
  BY DEF Holds, OnCoroutine, TypeInv, OnSomeFiber
<1> QED
  BY <1>1, <1>2 DEF Exclusion, OneThreadHasIt, OneEntry

(* A constructor: every coroutine job carries itself.                      *)
LEMMA JobInit == Init => JobInv
<1> SUFFICES ASSUME Init PROVE JobInv
  OBVIOUS
<1>1. /\ DOMAIN queue = {}
      /\ \A t \in Threads : ft[t].kind = "none" /\ pc[t] = "off"
      /\ \A f \in Jobs : /\ fstate[f] = IF f \in Coroutines THEN "INIT" ELSE "NONE"
                         /\ fjob[f] = IF f \in Coroutines THEN f ELSE NoJob
      /\ submitted = {} /\ ended = {}
  BY DEF Init, NoEntry
<1>2. EntryInHand /\ StatesFit
  BY <1>1 DEF EntryInHand, HandOf, StatesFit, FitOf, Startable
<1>3. FiberLife
  BY <1>1 DEF FiberLife, LifeOf
<1>4. OneFiber /\ Fresh
  BY <1>1 DEF OneFiber, Fresh, Unstarted, EntryOfCallback, HasCallback
<1>5. FibersSomewhere /\ CallbacksSomewhere
  BY <1>1 DEF FibersSomewhere, CallbacksSomewhere, GoesOn, Startable
<1> QED
  BY <1>1, <1>2, <1>3, <1>4, <1>5 DEF JobInv

(* A step that leaves alone the queue, the coroutines and what the threads *)
(* hold.                                                                   *)
LEMMA JobFrame ==
  ASSUME JobInv, UNCHANGED <<queue, fstate, fjob, submitted, ended>>,
         \A t \in Threads :
           \/ UNCHANGED <<pc[t], ft[t], cbFiber[t]>>
           \/ /\ ~OnCoroutine(t) /\ ~OnCoroutine(t)'
              /\ ft[t].kind \notin {"fiber", "cb"} /\ ft'[t].kind \notin {"fiber", "cb"}
  PROVE  JobInv'
<1>1. \A t \in Threads : FitOf(t) => FitOf(t)'
  BY DEF FitOf, Startable, OnCoroutine, OnFiber
<1>2. /\ \A t \in Threads, f \in Fibers : Holds(t, f) => Holds(t, f)'
      /\ \A t \in Threads, j \in Callbacks : HasCallback(t, j) <=> HasCallback(t, j)'
  BY DEF Holds, OnCoroutine, OnFiber, HasCallback
<1>3. \A j \in Callbacks : Unstarted(j) <=> Unstarted(j)'
  BY <1>2 DEF Unstarted, EntryOfCallback
<1>4. EntryInHand'
  BY DEF JobInv, EntryInHand, HandOf, OnCoroutine
<1>5. FiberLife' /\ OneFiber'
  BY DEF JobInv, FiberLife, LifeOf, OneFiber
<1>6. StatesFit'
  BY <1>1 DEF JobInv, StatesFit, Startable
<1>7. Fresh' /\ CallbacksSomewhere'
  BY <1>3 DEF JobInv, Fresh, CallbacksSomewhere
<1>8. FibersSomewhere'
  BY <1>2 DEF JobInv, FibersSomewhere, GoesOn, Startable, EntryOfFiber
<1> QED
  BY <1>4, <1>5, <1>6, <1>7, <1>8 DEF JobInv

(* A step of the thread that holds a coroutine, on that coroutine alone.   *)
LEMMA JobLocal ==
  ASSUME TypeInv, Exclusion, JobInv,
         NEW t \in Threads, NEW f \in Fibers, Holds(t, f),
         UNCHANGED <<queue, submitted>>,
         \A u \in Threads \ {t} : ft'[u] = ft[u] /\ cbFiber'[u] = cbFiber[u] /\ pc'[u] = pc[u],
         \A g \in Fibers \ {f} : fstate'[g] = fstate[g] /\ fjob'[g] = fjob[g],
         fjob'[f] = fjob[f] \/ (fjob'[f] = NoJob /\ fjob[f] \in ended' \cup {NoJob}),
         ended \subseteq ended', ended' \subseteq submitted,
         \A j \in ended' \ ended : j = fjob[f] /\ j # NoJob,
         ft[t].kind # "cb", HandOf(t)', ft'[t].kind # "cb", LifeOf(f)', FitOf(t)',
         GoesOn(f)' => Holds(t, f)'
  PROVE  JobInv'
<1> USE DEF EntryOfFiber, EntryOfCallback
<1>1. \A u \in Threads \ {t}, g \in Fibers : Holds(u, g) <=> Holds(u, g)'
  BY DEF Holds, OnCoroutine, OnFiber
<1>2. \A g \in Fibers : Holds(t, g) => g = f
  BY HoldsHas DEF Holds, OnFiber, OnCoroutine
<1>3. \A u \in Threads, j \in Callbacks : HasCallback(u, j) <=> HasCallback(u, j)'
  BY DEF HasCallback
<1>4. \A j \in Callbacks : Unstarted(j) <=> Unstarted(j)'
  BY <1>3 DEF Unstarted
<1>5. EntryInHand'
  BY DEF JobInv, EntryInHand, HandOf, OnCoroutine
<1>6. \A g \in Fibers \ {f} : fjob[g] # NoJob => fjob[g] # fjob[f]
  BY DEF JobInv, OneFiber
<1>7. \A g \in Fibers \ {f} : fjob[g] # NoJob /\ fjob[g] \in ended' => fjob[g] \in ended
  BY <1>6
<1>8. FiberLife'
  <2> SUFFICES ASSUME NEW g \in Fibers \ {f} PROVE LifeOf(g)'
    BY DEF FiberLife
  <2>1. LifeOf(g) /\ g # NoJob
    BY JobsAssumption DEF JobInv, FiberLife
  <2>2. \A j \in Mine(g) : j # NoJob
    BY <2>1, JobsAssumption DEF Mine, Jobs
  <2> QED
    BY <1>7, <2>1, <2>2 DEF LifeOf, Mine
<1>9. OneFiber'
  BY <1>6 DEF JobInv, OneFiber
<1>10. StatesFit'
  <2>1. ASSUME NEW i \in DOMAIN queue, queue[i].kind = "fiber"
        PROVE  Startable(queue[i].id)'
    <3>1. queue[i].id \in Fibers
      BY EntryTypes DEF TypeInv, TypeOK
    <3>2. queue[i].id # f
      BY <2>1, HoldsHas
    <3> QED
      BY <2>1, <3>1, <3>2 DEF JobInv, StatesFit, Startable
  <2>2. ASSUME NEW u \in Threads \ {t} PROVE FitOf(u)'
    <3>1. FitOf(u)
      BY DEF JobInv, StatesFit
    <3>2. \A g \in Fibers : Holds(u, g) => g # f
      BY HoldsHas
    <3>3. OnCoroutine(u) => OnFiber(u) \in Fibers /\ OnFiber(u) # f
      BY <3>2, HoldsHas
    <3>4. pc[u] = "dispatch" /\ ft[u].kind = "fiber" => ft[u].id \in Fibers /\ ft[u].id # f
      BY <3>2, EntryTypes DEF Holds, TypeInv, TypeOK
    <3>5. OnFiber(u)' = OnFiber(u)
      BY DEF OnFiber
    <3> QED
      BY <3>1, <3>3, <3>4, <3>5 DEF FitOf, Startable, OnCoroutine
  <2> QED
    BY <2>1, <2>2 DEF StatesFit
<1>11. Fresh'
  <2> SUFFICES ASSUME NEW j \in Callbacks, Unstarted(j)
               PROVE  j \notin ended' /\ \A g \in Fibers : fjob'[g] # j
    BY <1>4 DEF Fresh
  <2>1. j # NoJob /\ j \notin ended /\ \A g \in Fibers : fjob[g] # j
    BY JobsAssumption DEF JobInv, Fresh, Jobs
  <2> QED
    BY <2>1
<1>12. FibersSomewhere'
  <2> SUFFICES ASSUME NEW g \in Fibers \ {f}, GoesOn(g)'
               PROVE  (\E i \in DOMAIN queue : EntryOfFiber(i, g)) \/ (\E u \in Threads : Holds(u, g)')
    BY DEF FibersSomewhere
  <2>1. GoesOn(g)
    BY DEF GoesOn, Startable
  <2> QED
    BY <1>1, <1>2, <2>1 DEF JobInv, FibersSomewhere
<1>13. CallbacksSomewhere'
  <2> SUFFICES ASSUME NEW j \in Callbacks, j \in submitted, j \notin ended'
               PROVE  Unstarted(j) \/ \E g \in Fibers : fjob'[g] = j
    BY <1>4 DEF CallbacksSomewhere
  <2>1. j \notin ended /\ j # NoJob
    BY JobsAssumption DEF Jobs
  <2>2. CASE Unstarted(j)
    BY <2>2
  <2>3. ASSUME NEW g \in Fibers, fjob[g] = j PROVE fjob'[g] = j
    BY <2>1, <2>3
  <2> QED
    BY <2>1, <2>2, <2>3 DEF JobInv, CallbacksSomewhere
<1> QED
  BY <1>5, <1>8, <1>9, <1>10, <1>11, <1>12, <1>13 DEF JobInv

(* Taking an entry moves it from the queue to the thread, and no other.    *)
LEMMA Taken ==
  ASSUME TypeInv, NEW t \in Threads, Take(t)
  PROVE  \E i \in DOMAIN queue :
           /\ \A m \in DOMAIN queue' : \E n \in DOMAIN queue : queue'[m] = queue[n]
           /\ \A n \in DOMAIN queue \ {i} : \E m \in DOMAIN queue' : queue'[m] = queue[n]
           /\ UNCHANGED <<cbFiber, fstate, fjob, submitted, ended>>
           /\ ft'[t] = queue[i] /\ pc[t] = "scan" /\ pc'[t] = "dispatch"
           /\ \A u \in Threads \ {t} : ft'[u] = ft[u] /\ pc'[u] = pc[u]
<1>1. PICK i \in DOMAIN queue : /\ ft' = [ft EXCEPT ![t] = queue[i]]
                                /\ queue' = RemoveAt(queue, i)
  BY DEF Take
<1>2. /\ DOMAIN queue = 1..Len(queue) /\ Len(queue) \in Nat
      /\ DOMAIN queue' = 1..(Len(queue) - 1)
      /\ \A m \in DOMAIN queue' : queue'[m] = IF m < i THEN queue[m] ELSE queue[m + 1]
  <2>1. queue \in Seq(Entries)
    BY DEF TypeInv, TypeOK
  <2>2. /\ queue' \in Seq(Entries) /\ Len(queue') = Len(queue) - 1
        /\ \A m \in 1..(Len(queue) - 1) : queue'[m] = IF m < i THEN queue[m] ELSE queue[m + 1]
    BY <1>1, <2>1, RemoveAtEntries
  <2> QED
    BY <2>1, <2>2
<1>3. \A m \in DOMAIN queue' : \E n \in DOMAIN queue : queue'[m] = queue[n]
  <2> TAKE m \in DOMAIN queue'
  <2>1. m \in DOMAIN queue /\ m + 1 \in DOMAIN queue
    BY <1>2
  <2> QED
    BY <1>2, <2>1
<1>4. \A n \in DOMAIN queue \ {i} : \E m \in DOMAIN queue' : queue'[m] = queue[n]
  <2> TAKE n \in DOMAIN queue \ {i}
  <2>1. CASE n < i
    BY <1>2, <2>1
  <2>2. CASE i < n
    <3>1. n - 1 \in DOMAIN queue' /\ ~(n - 1 < i) /\ (n - 1) + 1 = n
      BY <1>2, <2>2
    <3> QED
      BY <1>2, <3>1
  <2> QED
    BY <1>2, <2>1, <2>2
<1>5. /\ UNCHANGED <<cbFiber, fstate, fjob, submitted, ended>>
      /\ ft'[t] = queue[i] /\ pc[t] = "scan" /\ pc'[t] = "dispatch"
      /\ \A u \in Threads \ {t} : ft'[u] = ft[u] /\ pc'[u] = pc[u]
  BY <1>1 DEF Take, TypeInv, TypeOK, fiberVars, jobVars
<1> QED
  BY <1>3, <1>4, <1>5

(* Taking an entry: it goes from the queue into the hands of t.            *)
LEMMA JobTake ==
  ASSUME TypeInv, Exclusion, JobInv, NEW t \in Threads, Take(t)
  PROVE  JobInv'
<1> USE DEF EntryOfFiber, EntryOfCallback
<1>1. PICK i \in DOMAIN queue :
        /\ \A m \in DOMAIN queue' : \E n \in DOMAIN queue : queue'[m] = queue[n]
        /\ \A n \in DOMAIN queue \ {i} : \E m \in DOMAIN queue' : queue'[m] = queue[n]
        /\ UNCHANGED <<cbFiber, fstate, fjob, submitted, ended>>
        /\ ft'[t] = queue[i] /\ pc[t] = "scan" /\ pc'[t] = "dispatch"
        /\ \A u \in Threads \ {t} : ft'[u] = ft[u] /\ pc'[u] = pc[u]
  BY Taken
<1> DEFINE e == queue[i]
<1>2. ft[t].kind \notin {"fiber", "cb"} /\ \A f \in Fibers : ~Holds(t, f)
  BY <1>1 DEF JobInv, EntryInHand, HandOf, OnCoroutine, Holds
<1> HIDE DEF e
<1>3. /\ \A u \in Threads \ {t}, f \in Fibers : Holds(u, f) <=> Holds(u, f)'
      /\ \A f \in Fibers : Holds(t, f)' <=> e.kind = "fiber" /\ e.id = f
  BY <1>1 DEF e, Holds, OnCoroutine, OnFiber
<1>4. /\ \A u \in Threads \ {t}, j \in Callbacks : HasCallback(u, j) <=> HasCallback(u, j)'
      /\ \A j \in Callbacks : HasCallback(t, j)' <=> e.kind = "cb" /\ e.id = j
  BY <1>1 DEF e, HasCallback
<1>5. \A j \in Callbacks : Unstarted(j) <=> Unstarted(j)'
  BY <1>1, <1>2, <1>4 DEF e, Unstarted, HasCallback
<1>6. EntryInHand'
  BY <1>1 DEF JobInv, EntryInHand, HandOf, OnCoroutine
<1>7. FiberLife' /\ OneFiber' /\ Fresh' /\ CallbacksSomewhere'
  BY <1>1, <1>5 DEF JobInv, FiberLife, LifeOf, OneFiber, Fresh, CallbacksSomewhere
<1>8. StatesFit'
  <2>1. \A k \in DOMAIN queue' : queue'[k].kind = "fiber" => Startable(queue[k].id)'
    BY <1>1 DEF JobInv, StatesFit, Startable
  <2>2. \A u \in Threads \ {t} : FitOf(u)'
    BY <1>1 DEF JobInv, StatesFit, FitOf, Startable, OnFiber
  <2>3. FitOf(t)'
    BY <1>1 DEF e, JobInv, StatesFit, FitOf, Startable
  <2> QED
    BY <2>1, <2>2, <2>3 DEF StatesFit
<1>9. FibersSomewhere'
  <2> SUFFICES ASSUME NEW f \in Fibers, GoesOn(f)
               PROVE  (\E k \in DOMAIN queue' : EntryOfFiber(k, f)') \/ (\E u \in Threads : Holds(u, f)')
    BY <1>1 DEF FibersSomewhere, GoesOn, Startable
  <2>1. CASE \E u \in Threads : Holds(u, f)
    BY <1>2, <1>3, <2>1
  <2>2. ASSUME NEW m \in DOMAIN queue, EntryOfFiber(m, f)
        PROVE  (\E k \in DOMAIN queue' : EntryOfFiber(k, f)') \/ (\E u \in Threads : Holds(u, f)')
    BY <1>1, <1>3, <2>2 DEF e
  <2> QED
    BY <2>1, <2>2 DEF JobInv, FibersSomewhere
<1> QED
  BY <1>1, <1>6, <1>7, <1>8, <1>9 DEF JobInv

(* Starting a callback: the coroutine is the one the thread keeps, or a    *)
(* new one; nobody holds it, and none carries the callback yet.            *)
LEMMA Started ==
  ASSUME TypeInv, Exclusion, JobInv, NEW t \in Threads, RunCallback(t)
  PROVE  \E j \in Callbacks, f \in Callbacks :
           /\ j = ft[t].id /\ pc[t] = "dispatch" /\ ft[t].kind = "cb" /\ HasCallback(t, j)
           /\ j \in Jobs /\ f \in Fibers /\ j # NoJob /\ f # NoJob /\ f \notin Coroutines
           /\ j \in submitted /\ j \notin ended /\ \A g \in Fibers : fjob[g] # j
           /\ \A u \in Threads : ~Holds(u, f)
           /\ \A k \in DOMAIN queue : ~EntryOfFiber(k, f)
           /\ fstate[f] \in {"NONE", "INIT"} /\ fjob[f] = NoJob
           /\ UNCHANGED <<queue, submitted, ended>>
           /\ fstate'[f] = "EXEC" /\ fjob'[f] = j
           /\ \A g \in Fibers \ {f} : fstate'[g] = fstate[g] /\ fjob'[g] = fjob[g]
           /\ ft'[t].kind = "none" /\ cbFiber'[t] = f /\ pc'[t] = "run"
           /\ \A u \in Threads \ {t} : ft'[u] = ft[u] /\ cbFiber'[u] = cbFiber[u] /\ pc'[u] = pc[u]
<1> USE DEF EntryOfFiber, EntryOfCallback
<1>0. PICK j \in Callbacks, f \in Callbacks :
        j = ft[t].id /\ f = IF cbFiber[t] = NoJob THEN j ELSE cbFiber[t]
  BY EntryTypes DEF RunCallback, TypeInv, TypeOK
<1>1. /\ pc[t] = "dispatch" /\ ft[t].kind = "cb" /\ j \in Callbacks /\ j \in Jobs /\ j # NoJob
      /\ f \in Callbacks /\ f \in Fibers /\ f # NoJob /\ HasCallback(t, j)
  BY <1>0, JobsAssumption DEF RunCallback, HasCallback, Jobs
<1>2. /\ UNCHANGED <<queue, submitted, ended>>
      /\ fstate'[f] = "EXEC" /\ fjob'[f] = j
      /\ \A g \in Fibers \ {f} : fstate'[g] = fstate[g] /\ fjob'[g] = fjob[g]
      /\ ft'[t] = NoEntry /\ cbFiber'[t] = f /\ pc'[t] = "run"
      /\ \A u \in Threads \ {t} : ft'[u] = ft[u] /\ cbFiber'[u] = cbFiber[u] /\ pc'[u] = pc[u]
  BY <1>0, <1>1 DEF RunCallback, TypeInv, TypeOK, jobVars
<1>3. /\ f \notin Coroutines /\ NoEntry.kind = "none"
      /\ j \in submitted /\ j \notin ended /\ \A g \in Fibers : fjob[g] # j
  <2>1. Unstarted(j)
    BY <1>1 DEF Unstarted
  <2>2. f \notin Coroutines /\ NoEntry.kind = "none"
    BY <1>1, JobsAssumption DEF NoEntry
  <2>3. j \in submitted
    BY <1>0, <1>1 DEF Exclusion, UnsubmittedNowhere
  <2> QED
    BY <1>1, <2>1, <2>2, <2>3 DEF JobInv, Fresh
<1>4. /\ \A u \in Threads : ~Holds(u, f)
      /\ \A k \in DOMAIN queue : ~EntryOfFiber(k, f)
      /\ fstate[f] \in {"NONE", "INIT"} /\ fjob[f] = NoJob
  <2>1. CASE cbFiber[t] = NoJob
    <3>1. f = j /\ fstate[f] = "NONE"
      BY <1>0, <1>1, <2>1 DEF Exclusion, CallbackOnce
    <3> QED
      BY <1>1, <3>1, HoldsHas DEF Exclusion, NotMadeNowhere, JobInv, FiberLife, LifeOf
  <2>2. CASE cbFiber[t] # NoJob
    <3>1. f = cbFiber[t] /\ Has(t, f) /\ ~Holds(t, f)
      BY <1>0, <1>1, <2>2 DEF Has, Holds, OnCoroutine
    <3>2. fstate[f] = "INIT"
      BY <1>0, <1>1, <2>2 DEF Exclusion, KeptIsReset, OnCoroutine
    <3>3. \A u \in Threads : ~Holds(u, f)
      BY <1>1, <3>1, HoldsHas DEF Exclusion, OneThreadHasIt
    <3> QED
      BY <1>1, <1>3, <3>1, <3>2, <3>3 DEF Exclusion, OneEntry, JobInv, FiberLife, LifeOf
  <2> QED
    BY <2>1, <2>2
<1>5. ft'[t].kind = "none"
  BY <1>2, <1>3
<1> QED
  BY <1>0, <1>1, <1>2, <1>3, <1>4, <1>5

(* From now on a coroutine carries it, and no other does.                  *)
LEMMA JobRunCallback ==
  ASSUME TypeInv, Exclusion, JobInv, NEW t \in Threads, RunCallback(t)
  PROVE  JobInv'
<1> USE DEF EntryOfFiber, EntryOfCallback
<1>0. PICK j \in Callbacks, f \in Callbacks :
        /\ j = ft[t].id /\ pc[t] = "dispatch" /\ ft[t].kind = "cb" /\ HasCallback(t, j)
        /\ j \in Jobs /\ f \in Fibers /\ j # NoJob /\ f # NoJob /\ f \notin Coroutines
        /\ j \in submitted /\ j \notin ended /\ \A g \in Fibers : fjob[g] # j
        /\ \A u \in Threads : ~Holds(u, f)
        /\ \A k \in DOMAIN queue : ~EntryOfFiber(k, f)
        /\ fstate[f] \in {"NONE", "INIT"} /\ fjob[f] = NoJob
        /\ UNCHANGED <<queue, submitted, ended>>
        /\ fstate'[f] = "EXEC" /\ fjob'[f] = j
        /\ \A g \in Fibers \ {f} : fstate'[g] = fstate[g] /\ fjob'[g] = fjob[g]
        /\ ft'[t].kind = "none" /\ cbFiber'[t] = f /\ pc'[t] = "run"
        /\ \A u \in Threads \ {t} : ft'[u] = ft[u] /\ cbFiber'[u] = cbFiber[u] /\ pc'[u] = pc[u]
  BY Started
<1>1. \A k \in Callbacks : HasCallback(t, k) => k = j
  BY <1>0 DEF HasCallback
<1>2. \A k \in DOMAIN queue : ~EntryOfCallback(k, j)
  BY <1>0 DEF Exclusion, CallbackOnce
<1>3. \A u \in Threads \ {t} : ~HasCallback(u, j)
  BY <1>0 DEF Exclusion, CallbackOnce
<1>4. \A g \in Fibers : ~Holds(t, g)
  BY <1>0 DEF Holds, OnCoroutine
<1>5. /\ \A u \in Threads \ {t}, g \in Fibers : Holds(u, g) <=> Holds(u, g)'
      /\ Holds(t, f)'
  BY <1>0 DEF Holds, OnCoroutine, OnFiber
<1>6. \A k \in Callbacks \ {j} : Unstarted(k) <=> Unstarted(k)'
  BY <1>0, <1>1 DEF Unstarted, HasCallback
<1>7. ~Unstarted(j)'
  BY <1>0, <1>2, <1>3 DEF Unstarted, HasCallback
<1>8. EntryInHand'
  BY <1>0 DEF JobInv, EntryInHand, HandOf, OnCoroutine
<1>9. FiberLife'
  <2>1. \A g \in Fibers \ {f} : LifeOf(g)'
    BY <1>0 DEF JobInv, FiberLife, LifeOf
  <2>2. LifeOf(f)'
    BY <1>0 DEF LifeOf, Mine
  <2> QED
    BY <2>1, <2>2 DEF FiberLife
<1>10. OneFiber'
  BY <1>0 DEF JobInv, OneFiber
<1>11. StatesFit'
  <2>1. ASSUME NEW k \in DOMAIN queue, queue[k].kind = "fiber"
        PROVE  Startable(queue[k].id)'
    <3>1. queue[k].id \in Fibers
      BY EntryTypes DEF TypeInv, TypeOK
    <3> QED
      BY <1>0, <2>1, <3>1 DEF JobInv, StatesFit, Startable
  <2>2. ASSUME NEW u \in Threads \ {t} PROVE FitOf(u)'
    <3>1. FitOf(u)
      BY DEF JobInv, StatesFit
    <3>2. OnCoroutine(u) => OnFiber(u) \in Fibers /\ OnFiber(u) # f
      BY <1>0, HoldsHas
    <3>3. pc[u] = "dispatch" /\ ft[u].kind = "fiber" => ft[u].id \in Fibers /\ ft[u].id # f
      BY <1>0, EntryTypes DEF Holds, TypeInv, TypeOK
    <3>4. OnFiber(u)' = OnFiber(u)
      BY <1>0 DEF OnFiber
    <3> QED
      BY <1>0, <3>1, <3>2, <3>3, <3>4 DEF FitOf, Startable, OnCoroutine
  <2>3. FitOf(t)'
    BY <1>0 DEF FitOf, Startable, OnFiber
  <2> QED
    BY <1>0, <2>1, <2>2, <2>3 DEF StatesFit
<1>12. Fresh'
  BY <1>0, <1>6, <1>7 DEF JobInv, Fresh
<1>13. FibersSomewhere'
  <2> SUFFICES ASSUME NEW g \in Fibers \ {f}, GoesOn(g)'
               PROVE  (\E k \in DOMAIN queue : EntryOfFiber(k, g)) \/ (\E u \in Threads : Holds(u, g)')
    BY <1>0, <1>5 DEF FibersSomewhere
  <2>1. GoesOn(g)
    BY <1>0 DEF GoesOn, Startable
  <2> QED
    BY <1>4, <1>5, <2>1 DEF JobInv, FibersSomewhere
<1>14. CallbacksSomewhere'
  <2> SUFFICES ASSUME NEW k \in Callbacks \ {j}, k \in submitted, k \notin ended
               PROVE  Unstarted(k) \/ \E g \in Fibers : fjob'[g] = k
    BY <1>0, <1>6 DEF CallbacksSomewhere
  <2>1. k # NoJob
    BY JobsAssumption DEF Jobs
  <2> QED
    BY <1>0, <2>1 DEF JobInv, CallbacksSomewhere
<1> QED
  BY <1>0, <1>8, <1>9, <1>10, <1>11, <1>12, <1>13, <1>14 DEF JobInv

(* A coroutine that yielded goes from the hands of t back to the queue.    *)
LEMMA JobRequeue ==
  ASSUME TypeInv, Exclusion, JobInv, NEW t \in Threads, Requeue(t)
  PROVE  JobInv'
<1> USE DEF EntryOfFiber, EntryOfCallback
<1> DEFINE n == Len(queue)
<1>1. PICK f \in Fibers : f = OnFiber(t) /\ fstate[f] = "READY"
  BY DEF Requeue, TypeInv, OnSomeFiber
<1> DEFINE e == FiberEntry(f, AnyThread)
<1>2. e \in Entries /\ e.kind = "fiber" /\ e.id = f
  BY EntryTypes DEF FiberEntry
<1>3. /\ DOMAIN queue = 1..n /\ n \in Nat /\ DOMAIN queue' = 1..(n + 1)
      /\ \A k \in DOMAIN queue : queue'[k] = queue[k]
      /\ queue'[n + 1] = e
  BY <1>1, <1>2, AppendEntries DEF Requeue, TypeInv, TypeOK
<1>4. /\ UNCHANGED <<fstate, fjob, submitted, ended>>
      /\ pc[t] = "settle" /\ ft'[t] = NoEntry /\ pc'[t] = "scan" /\ NoEntry.kind = "none"
      /\ \A u \in Threads \ {t} : ft'[u] = ft[u] /\ cbFiber'[u] = cbFiber[u] /\ pc'[u] = pc[u]
  BY DEF Requeue, LetGo, TypeInv, TypeOK, fiberVars, jobVars, NoEntry
<1>5. ft[t].kind # "cb" /\ \A g \in Fibers : Holds(t, g) => g = f
  BY <1>1, <1>4 DEF JobInv, EntryInHand, HandOf, Holds
<1> HIDE DEF e, n
<1>6. \A k \in DOMAIN queue' : k \in DOMAIN queue \/ k = n + 1
  BY <1>3
<1>7. n + 1 \in DOMAIN queue' /\ DOMAIN queue \subseteq DOMAIN queue'
  BY <1>3
<1>8. \A u \in Threads \ {t}, g \in Fibers : Holds(u, g) <=> Holds(u, g)'
  BY <1>4 DEF Holds, OnCoroutine, OnFiber
<1>9. \A j \in Callbacks : Unstarted(j) <=> Unstarted(j)'
  <2>1. \A u \in Threads, j \in Callbacks : HasCallback(u, j) <=> HasCallback(u, j)'
    BY <1>4, <1>5 DEF HasCallback
  <2> QED
    BY <1>2, <1>3, <1>6, <1>7, <2>1 DEF Unstarted
<1>10. EntryInHand'
  BY <1>4 DEF JobInv, EntryInHand, HandOf, OnCoroutine
<1>11. FiberLife' /\ OneFiber' /\ Fresh' /\ CallbacksSomewhere'
  BY <1>4, <1>9 DEF JobInv, FiberLife, LifeOf, OneFiber, Fresh, CallbacksSomewhere
<1>12. StatesFit'
  <2>1. \A k \in DOMAIN queue' : queue'[k].kind = "fiber" => Startable(queue[k].id)'
    BY <1>1, <1>2, <1>3, <1>4, <1>6 DEF JobInv, StatesFit, Startable
  <2>2. \A u \in Threads \ {t} : FitOf(u)'
    BY <1>4 DEF JobInv, StatesFit, FitOf, Startable, OnFiber
  <2>3. FitOf(t)'
    BY <1>4 DEF FitOf, Startable
  <2> QED
    BY <2>1, <2>2, <2>3 DEF StatesFit
<1>13. FibersSomewhere'
  <2> SUFFICES ASSUME NEW g \in Fibers, GoesOn(g)
               PROVE  (\E k \in DOMAIN queue' : EntryOfFiber(k, g)') \/ (\E u \in Threads : Holds(u, g)')
    BY <1>4 DEF FibersSomewhere, GoesOn, Startable
  <2>1. CASE g = f
    BY <1>2, <1>3, <1>7, <2>1
  <2>2. CASE g # f
    BY <1>3, <1>5, <1>7, <1>8, <2>2 DEF JobInv, FibersSomewhere
  <2> QED
    BY <2>1, <2>2
<1> QED
  BY <1>4, <1>10, <1>11, <1>12, <1>13 DEF JobInv

(* A job that is submitted goes into the queue, and no coroutine carries   *)
(* it but its own.                                                         *)
LEMMA JobSubmit ==
  ASSUME TypeInv, Exclusion, JobInv, NEW j \in Jobs, NEW v \in Threads \cup {AnyThread},
         Submit(j, v), UNCHANGED <<pc, ft, cbFiber, fstate, fjob, ended>>
  PROVE  JobInv'
<1> USE DEF EntryOfFiber, EntryOfCallback
<1> DEFINE n == Len(queue)
           e == JobEntry(j, v)
<1>1. e \in Entries /\ e.id = j /\ e.kind = IF j \in Coroutines THEN "fiber" ELSE "cb"
  BY EntryTypes DEF JobEntry
<1>2. /\ DOMAIN queue = 1..n /\ n \in Nat /\ DOMAIN queue' = 1..(n + 1)
      /\ \A k \in DOMAIN queue : queue'[k] = queue[k]
      /\ queue'[n + 1] = e
  BY <1>1, AppendEntries DEF Submit, TypeInv, TypeOK
<1>3. j \notin submitted /\ submitted' = submitted \cup {j} /\ j \notin ended
  BY DEF Submit, JobInv
<1>4. j \in Coroutines => fstate[j] = "INIT"
  BY <1>3 DEF Exclusion, UnsubmittedNowhere
<1>5. j \notin Coroutines => j \in Callbacks /\ \A f \in Fibers : fjob[f] # j
  <2> SUFFICES ASSUME j \in Callbacks, j \notin Coroutines, NEW f \in Fibers, fjob[f] = j
               PROVE  FALSE
    BY DEF Jobs
  <2>1. fstate[f] \in FiberStates /\ LifeOf(f) /\ j # NoJob
    BY JobsAssumption DEF JobInv, FiberLife, TypeInv, TypeOK
  <2> QED
    BY <1>3, <2>1 DEF LifeOf, FiberStates
<1> HIDE DEF e, n
<1>6. \A k \in DOMAIN queue' : k \in DOMAIN queue \/ k = n + 1
  BY <1>2
<1>7. n + 1 \in DOMAIN queue' /\ DOMAIN queue \subseteq DOMAIN queue'
  BY <1>2
<1>8. /\ \A u \in Threads, f \in Fibers : Holds(u, f) <=> Holds(u, f)'
      /\ \A u \in Threads, k \in Callbacks : HasCallback(u, k) <=> HasCallback(u, k)'
  BY DEF Holds, OnCoroutine, OnFiber, HasCallback
<1>9. \A k \in Callbacks : Unstarted(k)' <=> Unstarted(k) \/ (k = j /\ e.kind = "cb")
  BY <1>1, <1>2, <1>6, <1>7, <1>8 DEF Unstarted
<1>10. EntryInHand' /\ OneFiber'
  BY DEF JobInv, EntryInHand, HandOf, OnCoroutine, OneFiber
<1>11. FiberLife'
  BY <1>3 DEF JobInv, FiberLife, LifeOf
<1>12. StatesFit'
  <2>1. ASSUME NEW k \in DOMAIN queue', queue'[k].kind = "fiber"
        PROVE  Startable(queue[k].id)'
    BY <1>1, <1>2, <1>3, <1>4, <1>6, <2>1 DEF JobInv, StatesFit, Startable
  <2>2. \A u \in Threads : FitOf(u)'
    BY <1>3 DEF JobInv, StatesFit, FitOf, Startable, OnFiber
  <2> QED
    BY <2>1, <2>2 DEF StatesFit
<1>13. Fresh'
  BY <1>1, <1>3, <1>5, <1>9 DEF JobInv, Fresh
<1>14. FibersSomewhere'
  <2> SUFFICES ASSUME NEW f \in Fibers, GoesOn(f)'
               PROVE  (\E k \in DOMAIN queue' : EntryOfFiber(k, f)') \/ (\E u \in Threads : Holds(u, f)')
    BY DEF FibersSomewhere
  <2>1. CASE f = j /\ f \in Coroutines
    BY <1>1, <1>2, <1>7, <2>1
  <2>2. CASE GoesOn(f)
    BY <1>2, <1>7, <1>8, <2>2 DEF JobInv, FibersSomewhere
  <2> QED
    BY <1>3, <2>1, <2>2 DEF GoesOn, Startable
<1>15. CallbacksSomewhere'
  <2> SUFFICES ASSUME NEW k \in Callbacks, k \in submitted', k \notin ended
               PROVE  Unstarted(k)' \/ \E f \in Fibers : fjob[f] = k
    BY DEF CallbacksSomewhere
  <2>1. CASE k = j
    <3>1. j \notin Coroutines
      BY <2>1, JobsAssumption
    <3> QED
      BY <1>1, <1>9, <2>1, <3>1
  <2>2. CASE k # j
    BY <1>3, <1>9, <2>2 DEF JobInv, CallbacksSomewhere
  <2> QED
    BY <2>1, <2>2
<1> QED
  BY <1>3, <1>10, <1>11, <1>12, <1>13, <1>14, <1>15 DEF JobInv

(* The steps of run() and idle().  A thread that takes a coroutine finds   *)
(* none that is over: DropFinished waits for a job that schedules one.     *)
LEMMA JobLoop ==
  ASSUME TypeInv, Exclusion, JobInv, NEW t \in Threads, LoopStep(t)
  PROVE  JobInv'
<1>1. NoEntry.kind = "none" /\ HandOf(t) /\ FitOf(t) /\ ended \subseteq submitted
  BY DEF NoEntry, JobInv, EntryInHand, StatesFit
<1>2. \A f \in Fibers : LifeOf(f) /\ f # NoJob
  BY JobsAssumption DEF JobInv, FiberLife
<1>3. \A u \in Threads \ {t} : ft'[u] = ft[u] /\ cbFiber'[u] = cbFiber[u] /\ pc'[u] = pc[u]
  BY ThreadFrame
<1>4. CASE Take(t)
  BY <1>4, JobTake
<1>5. CASE FindNothing(t) \/ EnterIdle(t) \/ LeaveLoop(t) \/ Idle(t)
  <2>1. UNCHANGED <<queue, fstate, fjob, submitted, ended>>
    BY <1>5 DEF FindNothing, EnterIdle, LeaveLoop, Idle, fiberVars, jobVars
  <2>2. /\ ~OnCoroutine(t) /\ ~OnCoroutine(t)'
        /\ ft[t].kind \notin {"fiber", "cb"} /\ ft'[t].kind \notin {"fiber", "cb"}
    BY <1>1, <1>5
    DEF FindNothing, EnterIdle, LeaveLoop, Idle, HandOf, OnCoroutine, TypeInv, TypeOK
  <2> QED
    BY <1>3, <2>1, <2>2, JobFrame
<1>6. CASE SwapInFiber(t)
  <2>1. PICK f \in Fibers : f = ft[t].id
    BY <1>6, EntryTypes DEF SwapInFiber, TypeInv, TypeOK
  <2>2. /\ UNCHANGED <<queue, submitted, ft, cbFiber, fjob, ended>>
        /\ pc[t] = "dispatch" /\ ft[t].kind = "fiber" /\ pc'[t] = "run"
        /\ fstate'[f] = "EXEC" /\ \A g \in Fibers \ {f} : fstate'[g] = fstate[g]
    BY <1>6, <2>1 DEF SwapInFiber, TypeInv, TypeOK, jobVars
  <2>3. Holds(t, f) /\ Startable(f)
    BY <1>1, <2>1, <2>2 DEF Holds, FitOf
  <2>4. HandOf(t)' /\ FitOf(t)' /\ Holds(t, f)'
    BY <2>1, <2>2 DEF HandOf, FitOf, Holds, OnCoroutine, OnFiber
  <2>5. LifeOf(f)'
    BY <1>2, <2>2, <2>3 DEF LifeOf, Startable, Mine
  <2> QED
    BY <1>1, <1>3, <2>2, <2>3, <2>4, <2>5, JobLocal
<1>7. CASE DropFinished(t)
  BY <1>1, <1>7 DEF DropFinished, FitOf, Startable, Over
<1>8. CASE RunCallback(t)
  BY <1>8, JobRunCallback
<1>9. CASE SwapOut(t) \/ FindsHold(t)
  <2>1. PICK f \in Fibers : f = OnFiber(t)
    BY <1>9 DEF SwapOut, FindsHold, TypeInv, OnSomeFiber
  <2>2. /\ UNCHANGED <<queue, submitted, ft, cbFiber, fjob, fstate, ended>>
        /\ \/ pc[t] = "swapOut" /\ pc'[t] = "settle"
           \/ /\ pc[t] = "settle" /\ pc'[t] = "park"
              /\ fstate[f] \notin Over \cup {"READY"}
    BY <1>9, <2>1 DEF SwapOut, FindsHold, TypeInv, TypeOK, fiberVars, jobVars
  <2>3. Holds(t, f) /\ Holds(t, f)'
    BY <2>1, <2>2 DEF Holds, OnCoroutine, OnFiber
  <2>4. HandOf(t)' /\ FitOf(t)' /\ ft[t].kind # "cb"
    BY <1>1, <2>1, <2>2 DEF HandOf, FitOf, OnCoroutine, OnFiber
  <2>5. LifeOf(f)'
    BY <1>2, <2>2 DEF LifeOf
  <2> QED
    BY <1>1, <1>3, <2>2, <2>3, <2>4, <2>5, JobLocal
<1>10. CASE Requeue(t)
  BY <1>10, JobRequeue
<1>11. CASE Release(t)
  <2>1. PICK f \in Fibers : f = OnFiber(t) /\ fstate[f] \in Over
    BY <1>11 DEF Release, TypeInv, OnSomeFiber
  <2>2. /\ UNCHANGED <<queue, submitted, ended>>
        /\ pc[t] = "settle" /\ pc'[t] = "scan" /\ ft'[t] = NoEntry
        /\ \A g \in Fibers \ {f} : fstate'[g] = fstate[g] /\ fjob'[g] = fjob[g]
        /\ \/ fstate'[f] = fstate[f] /\ fjob'[f] = fjob[f]
           \/ fstate'[f] = "INIT" /\ fjob'[f] = NoJob /\ f = cbFiber[t]
    BY <1>11, <2>1 DEF Release, TypeInv, TypeOK, OnFiber, fiberVars, jobVars
  <2>3. Holds(t, f) /\ ft[t].kind # "cb"
    BY <1>1, <2>1, <2>2 DEF Holds, OnCoroutine, HandOf
  <2>4. HandOf(t)' /\ FitOf(t)'
    BY <1>1, <2>2 DEF HandOf, FitOf
  <2>5. fjob[f] \in ended \cup {NoJob}
    BY <1>2, <2>1 DEF LifeOf, Over
  <2>6. f = cbFiber[t] => f \notin Coroutines
    BY JobsAssumption DEF TypeInv, TypeOK
  <2>7. LifeOf(f)' /\ ~GoesOn(f)'
    BY <1>2, <2>1, <2>2, <2>6 DEF LifeOf, GoesOn, Startable, Over
  <2> QED
    BY <1>1, <1>3, <2>2, <2>3, <2>4, <2>5, <2>7, JobLocal
<1>12. CASE Park(t)
  <2>1. PICK f \in Fibers : f = OnFiber(t)
    BY <1>12 DEF Park, TypeInv, OnSomeFiber
  <2>2. /\ UNCHANGED <<queue, submitted, fjob, ended>>
        /\ pc[t] = "park" /\ pc'[t] = "scan" /\ ft'[t] = NoEntry
        /\ fstate'[f] = "HOLD" /\ \A g \in Fibers \ {f} : fstate'[g] = fstate[g]
    BY <1>12, <2>1 DEF Park, LetGo, TypeInv, TypeOK, jobVars
  <2>3. Holds(t, f) /\ ft[t].kind # "cb" /\ fstate[f] = "HOLD"
    BY <1>1, <2>1, <2>2 DEF Holds, OnCoroutine, HandOf, FitOf
  <2>4. HandOf(t)' /\ FitOf(t)' /\ ~GoesOn(f)'
    BY <1>1, <2>2 DEF HandOf, FitOf, GoesOn, Startable
  <2>5. LifeOf(f)'
    BY <1>2, <2>2, <2>3 DEF LifeOf
  <2> QED
    BY <1>1, <1>3, <2>2, <2>3, <2>4, <2>5, JobLocal
<1> QED
  BY <1>4, <1>5, <1>6, <1>7, <1>8, <1>9, <1>10, <1>11, <1>12 DEF LoopStep

(* What the code of a job does.                                            *)
LEMMA JobTask ==
  ASSUME TypeInv, Exclusion, JobInv, NEW t \in Threads, Works(t)
  PROVE  JobInv'
<1>1. ASSUME NEW j \in Jobs, NEW u \in TaskPins, TaskSchedule(t, j, u) PROVE JobInv'
  BY <1>1, JobSubmit, PinsAssumption DEF TaskSchedule, loopVars, fiberVars
<1>2. CASE YieldReady(t) \/ YieldHold(t) \/ Finish(t) \/ Throw(t)
  <2>1. PICK f \in Fibers : f = OnFiber(t)
    BY <1>2 DEF YieldReady, YieldHold, Yield, Finish, Throw, RunsJob, TypeInv, OnSomeFiber
  <2>2. /\ UNCHANGED <<queue, submitted, ft, cbFiber>>
        /\ pc[t] = "run" /\ pc'[t] = "swapOut"
        /\ \A g \in Fibers \ {f} : fstate'[g] = fstate[g] /\ fjob'[g] = fjob[g]
        /\ \/ fstate'[f] \in {"READY", "HOLD"} /\ fjob'[f] = fjob[f] /\ ended' = ended
           \/ fstate'[f] = "TERM" /\ fjob'[f] = NoJob /\ ended' = ended \cup {fjob[f]}
           \/ /\ fstate'[f] = "EXCEPT" /\ fjob'[f] = fjob[f]
              /\ ended' = ended \cup ({fjob[f]} \ {NoJob})
    BY <1>2, <2>1
    DEF YieldReady, YieldHold, Yield, Finish, Throw, RunsJob, TypeInv, TypeOK
  <2>3. LifeOf(f) /\ FitOf(t) /\ HandOf(t) /\ ended \subseteq submitted
    BY DEF JobInv, FiberLife, StatesFit, EntryInHand
  <2>4. /\ fstate[f] = "EXEC" /\ Holds(t, f) /\ Holds(t, f)' /\ ft[t].kind # "cb"
        /\ HandOf(t)'
    BY <2>1, <2>2, <2>3 DEF FitOf, Holds, OnCoroutine, OnFiber, HandOf
  <2>5. FitOf(t)'
    BY <2>1, <2>2 DEF FitOf, OnFiber, Over
  <2>6. /\ fjob[f] \in Mine(f) /\ fjob[f] \in submitted /\ fjob[f] \notin ended
        /\ fjob[f] # NoJob
    BY <2>3, <2>4, JobsAssumption DEF LifeOf, Mine, Jobs
  <2>7. LifeOf(f)'
    BY <2>2, <2>6 DEF LifeOf, Mine
  <2> QED
    BY <2>2, <2>3, <2>4, <2>5, <2>6, <2>7, ThreadFrame, JobLocal DEF TaskStep, Works
<1> QED
  BY <1>1, <1>2 DEF Works

(* Every step keeps the jobs where they are or moves one.                  *)
LEMMA JobStep ==
  ASSUME TypeInv, OwnerAhead, Exclusion, JobInv, QuietStep
  PROVE  JobInv'
<1>1. CASE OwnerStep
  <2>1. CASE \E j \in Jobs, u \in OwnerPins : OwnerSchedule(j, u)
    BY <2>1, JobSubmit, PinsAssumption DEF OwnerSchedule, loopVars, fiberVars
  <2>2. CASE ~\E j \in Jobs, u \in OwnerPins : OwnerSchedule(j, u)
    <3>1. UNCHANGED <<queue, ft, cbFiber, fstate, fjob, submitted, ended>>
      BY <1>1, <2>2, OwnerFrame
      DEF OwnerStep, Start, StopAtOnce, StopBegin, StopStep, EnterRoot, SkipRoot, LeaveRoot,
          Join, jobVars, fiberVars
    <3>2. \A t \in Threads : pc'[t] = pc[t] \/ (pc[t] = "off" /\ pc'[t] = "scan")
      BY <1>1, <2>2, ThreadsAssumption
      DEF OwnerStep, Start, StopAtOnce, StopBegin, StopStep, EnterRoot, SkipRoot, LeaveRoot,
          Join, loopVars, TypeInv, TypeOK, OwnerAhead, Threads
    <3>3. \A t \in Threads : pc[t] = "off" => ft[t].kind \notin {"fiber", "cb"}
      BY DEF JobInv, EntryInHand, HandOf, OnCoroutine
    <3> QED
      BY <3>1, <3>2, <3>3, JobFrame DEF OnCoroutine
  <2> QED
    BY <2>1, <2>2
<1>2. CASE UNCHANGED vars
  BY <1>2, JobFrame DEF vars, loopVars, fiberVars, jobVars
<1> QED
  BY <1>1, <1>2, JobLoop, JobTask DEF QuietStep

-----------------------------------------------------------------------------
(* A coroutine that carries a job which is not over is in one place.       *)
LEMMA OnePlace ==
  ASSUME TypeInv, Exclusion, JobInv, NEW f \in Fibers, NEW j \in Jobs,
         fjob[f] = j, j \in submitted, j \notin ended
  PROVE  \/ \E i \in DOMAIN queue :
              /\ \A k \in DOMAIN queue : EntryOfFiber(k, f) <=> k = i
              /\ \A t \in Threads : ~Holds(t, f)
              /\ fstate[f] # "HOLD"
         \/ \E t \in Threads :
              /\ \A k \in DOMAIN queue : ~EntryOfFiber(k, f)
              /\ \A u \in Threads : Holds(u, f) <=> u = t
              /\ fstate[f] = "HOLD" => pc[t] \in {"swapOut", "settle", "park"}
         \/ /\ \A k \in DOMAIN queue : ~EntryOfFiber(k, f)
            /\ \A u \in Threads : ~Holds(u, f)
            /\ fstate[f] = "HOLD"
<1>1. fstate[f] \in FiberStates /\ LifeOf(f) /\ j # NoJob
  BY JobsAssumption DEF TypeInv, TypeOK, JobInv, FiberLife
<1>2. GoesOn(f) \/ fstate[f] = "HOLD"
  <2>1. fstate[f] \in {"INIT", "EXEC", "READY", "HOLD"}
    BY <1>1 DEF LifeOf, FiberStates
  <2>2. fstate[f] = "INIT" => f \in Coroutines /\ f \in submitted
    BY <1>1 DEF LifeOf
  <2> QED
    BY <2>1, <2>2 DEF GoesOn, Startable
<1>3. ASSUME NEW i \in DOMAIN queue, EntryOfFiber(i, f)
      PROVE  /\ \A k \in DOMAIN queue : EntryOfFiber(k, f) <=> k = i
             /\ \A t \in Threads : ~Holds(t, f)
             /\ fstate[f] # "HOLD"
  <2>1. \A k \in DOMAIN queue : EntryOfFiber(k, f) <=> k = i
    BY <1>3 DEF EntryOfFiber, Exclusion, OneEntry
  <2>2. Startable(f)
    BY <1>3 DEF EntryOfFiber, JobInv, StatesFit
  <2> QED
    BY <1>3, <2>1, <2>2, HoldsHas DEF Startable
<1>4. ASSUME NEW t \in Threads, Holds(t, f)
      PROVE  /\ \A k \in DOMAIN queue : ~EntryOfFiber(k, f)
             /\ \A u \in Threads : Holds(u, f) <=> u = t
             /\ fstate[f] = "HOLD" => pc[t] \in {"swapOut", "settle", "park"}
  <2>1. fstate[f] = "HOLD" => pc[t] \notin {"dispatch", "run"}
    BY <1>4 DEF JobInv, StatesFit, FitOf, Startable, Holds, OnCoroutine
  <2> QED
    BY <1>4, <2>1, HoldsHas DEF Holds, OnCoroutine
<1> QED
  BY <1>2, <1>3, <1>4 DEF JobInv, FibersSomewhere

(* Sets of one place, and of none.                                         *)
LEMMA Counted ==
  /\ Cardinality({}) = 0
  /\ \A x : Cardinality({x}) = 1
  BY FS_EmptySet, FS_Singleton

(* A job that a coroutine carries is where the coroutine is.               *)
LEMMA CarriedJob ==
  ASSUME TypeInv, Exclusion, JobInv, NEW f \in Fibers, NEW j \in Jobs,
         fjob[f] = j, j \in submitted, j \notin ended, ~Unstarted(j)
  PROVE  /\ QueuedFor(j) = {i \in DOMAIN queue : EntryOfFiber(i, f)}
         /\ HeldFor(j) = {t \in Threads : Holds(t, f)}
         /\ OnHoldFor(j) = {g \in {f} : /\ fstate[f] = "HOLD"
                                        /\ \A t \in Threads : ~(Holds(t, f) /\ pc[t] \in {"swapOut", "settle", "park"})}
<1>1. \A g \in Fibers : fjob[g] = j <=> g = f
  BY JobsAssumption DEF JobInv, OneFiber
<1>2. \A i \in DOMAIN queue : queue[i].kind = "fiber" => queue[i].id \in Fibers
  BY EntryTypes DEF TypeInv, TypeOK
<1>3. \A i \in DOMAIN queue : EntryOf(queue[i], j) <=> EntryOfFiber(i, f)
  <2>1. \A i \in DOMAIN queue : ~(queue[i].kind = "cb" /\ queue[i].id = j)
    <3>1. \A i \in DOMAIN queue : queue[i].kind = "cb" => queue[i].id \in Callbacks
      BY EntryTypes DEF TypeInv, TypeOK
    <3> QED
      BY <3>1 DEF Unstarted, EntryOfCallback
  <2> QED
    BY <1>1, <1>2, <2>1 DEF EntryOf, EntryOfFiber
<1>4. \A t \in Threads :
        (\/ pc[t] = "dispatch" /\ EntryOf(ft[t], j)
         \/ pc[t] \in {"run", "swapOut", "settle", "park"} /\ fjob[OnFiber(t)] = j)
        <=> Holds(t, f)
  <2> SUFFICES ASSUME NEW t \in Threads
               PROVE  (\/ pc[t] = "dispatch" /\ EntryOf(ft[t], j)
                       \/ OnCoroutine(t) /\ fjob[OnFiber(t)] = j)
                      <=> Holds(t, f)
    BY DEF OnCoroutine
  <2>1. ~(ft[t].kind = "cb" /\ ft[t].id = j)
    BY DEF Unstarted, HasCallback
  <2>2. ft[t].kind = "fiber" => ft[t].id \in Fibers
    BY EntryTypes DEF TypeInv, TypeOK
  <2>3. OnCoroutine(t) => OnFiber(t) \in Fibers
    BY HoldsHas
  <2> QED
    BY <1>1, <2>1, <2>2, <2>3 DEF EntryOf, Holds
<1>5. \A t \in Threads : pc[t] \in {"swapOut", "settle", "park"} =>
        (OnFiber(t) = f <=> Holds(t, f))
  BY DEF Holds, OnCoroutine
<1>6. HeldFor(j) = {t \in Threads : Holds(t, f)}
  BY <1>4 DEF HeldFor
<1>7. OnHoldFor(j) = {g \in {f} : /\ fstate[f] = "HOLD"
                                  /\ \A t \in Threads : ~(Holds(t, f) /\ pc[t] \in {"swapOut", "settle", "park"})}
  BY <1>1, <1>5 DEF OnHoldFor
<1>8. QueuedFor(j) = {i \in DOMAIN queue : EntryOfFiber(i, f)}
  BY <1>3 DEF QueuedFor
<1> QED
  BY <1>6, <1>7, <1>8

(* A callback that no thread has started is in one entry.                  *)
LEMMA UnstartedJob ==
  ASSUME TypeInv, Exclusion, JobInv, NEW j \in Callbacks, Unstarted(j)
  PROVE  /\ QueuedFor(j) = {i \in DOMAIN queue : EntryOfCallback(i, j)}
         /\ HeldFor(j) = {t \in Threads : HasCallback(t, j)}
         /\ OnHoldFor(j) = {}
<1>1. \A f \in Fibers : fjob[f] # j
  BY DEF JobInv, Fresh
<1>2. \A i \in DOMAIN queue : queue[i].kind = "fiber" => queue[i].id \in Fibers
  BY EntryTypes DEF TypeInv, TypeOK
<1>3. QueuedFor(j) = {i \in DOMAIN queue : EntryOfCallback(i, j)}
  BY <1>1, <1>2 DEF QueuedFor, EntryOf, EntryOfCallback
<1>4. \A t \in Threads :
        (\/ pc[t] = "dispatch" /\ EntryOf(ft[t], j)
         \/ pc[t] \in {"run", "swapOut", "settle", "park"} /\ fjob[OnFiber(t)] = j)
        <=> HasCallback(t, j)
  <2> SUFFICES ASSUME NEW t \in Threads
               PROVE  (\/ pc[t] = "dispatch" /\ EntryOf(ft[t], j)
                       \/ OnCoroutine(t) /\ fjob[OnFiber(t)] = j)
                      <=> HasCallback(t, j)
    BY DEF OnCoroutine
  <2>1. ft[t].kind = "fiber" => ft[t].id \in Fibers
    BY EntryTypes DEF TypeInv, TypeOK
  <2>2. OnCoroutine(t) => OnFiber(t) \in Fibers
    BY HoldsHas
  <2>3. HasCallback(t, j) => pc[t] = "dispatch"
    BY DEF HasCallback, JobInv, EntryInHand, HandOf
  <2> QED
    BY <1>1, <2>1, <2>2, <2>3 DEF EntryOf, HasCallback
<1>5. HeldFor(j) = {t \in Threads : HasCallback(t, j)}
  BY <1>4 DEF HeldFor
<1>6. OnHoldFor(j) = {}
  BY <1>1 DEF OnHoldFor
<1> QED
  BY <1>3, <1>5, <1>6

(* In the queue once, or in one thread's hands, or on hold.                *)
InOnePlace(j) ==
  \/ \E i : QueuedFor(j) = {i} /\ HeldFor(j) = {} /\ OnHoldFor(j) = {}
  \/ \E t : QueuedFor(j) = {} /\ HeldFor(j) = {t} /\ OnHoldFor(j) = {}
  \/ \E f : QueuedFor(j) = {} /\ HeldFor(j) = {} /\ OnHoldFor(j) = {f}

(* A job is carried by a coroutine, or it is a callback not yet started.   *)
LEMMA Carrier ==
  ASSUME TypeInv, Exclusion, JobInv, NEW j \in Jobs, j \in submitted, j \notin ended
  PROVE  \/ j \in Callbacks /\ Unstarted(j)
         \/ ~Unstarted(j) /\ \E f \in Fibers : fjob[f] = j
<1>1. CASE j \in Coroutines
  <2>1. fstate[j] \in FiberStates /\ LifeOf(j) /\ fstate[j] # "NONE"
    BY <1>1, JobsAssumption
    DEF TypeInv, TypeOK, JobInv, FiberLife, Exclusion, NotMadeNowhere
  <2>2. fjob[j] = j
    BY <1>1, <2>1 DEF LifeOf, FiberStates, Mine
  <2>3. ~Unstarted(j)
    <3>1. \A i \in DOMAIN queue : queue[i].kind = "cb" => queue[i].id \in Callbacks
      BY EntryTypes DEF TypeInv, TypeOK
    <3>2. \A t \in Threads : ft[t].kind = "cb" => ft[t].id \in Callbacks
      BY EntryTypes DEF TypeInv, TypeOK
    <3> QED
      BY <1>1, <3>1, <3>2, JobsAssumption DEF Unstarted, EntryOfCallback, HasCallback
  <2> QED
    BY <2>2, <2>3
<1>2. CASE j \notin Coroutines
  BY <1>2 DEF Jobs, JobInv, CallbacksSomewhere
<1> QED
  BY <1>1, <1>2

LEMMA Placed ==
  ASSUME TypeInv, Exclusion, JobInv, NEW j \in submitted, j \notin ended
  PROVE  InOnePlace(j)
<1>1. j \in Jobs
  BY DEF TypeInv, TypeOK
<1>2. CASE j \in Callbacks /\ Unstarted(j)
  <2>1. /\ QueuedFor(j) = {i \in DOMAIN queue : EntryOfCallback(i, j)}
        /\ HeldFor(j) = {t \in Threads : HasCallback(t, j)}
        /\ OnHoldFor(j) = {}
    BY <1>2, UnstartedJob
  <2>2. CASE \E t \in Threads : HasCallback(t, j)
    <3>1. PICK t \in Threads : HasCallback(t, j)
      BY <2>2
    <3>2. \A u \in Threads : HasCallback(u, j) <=> u = t
      BY <1>2, <3>1 DEF Exclusion, CallbackOnce
    <3>3. \A i \in DOMAIN queue : ~EntryOfCallback(i, j)
      BY <1>2, <3>1 DEF Exclusion, CallbackOnce
    <3>4. QueuedFor(j) = {} /\ HeldFor(j) = {t}
      BY <2>1, <3>2, <3>3
    <3> QED
      BY <2>1, <3>4 DEF InOnePlace
  <2>3. CASE ~\E t \in Threads : HasCallback(t, j)
    <3>1. PICK i \in DOMAIN queue : EntryOfCallback(i, j)
      BY <1>2, <2>3 DEF Unstarted
    <3>2. \A k \in DOMAIN queue : EntryOfCallback(k, j) <=> k = i
      BY <3>1 DEF EntryOfCallback, Exclusion, OneEntry
    <3>3. QueuedFor(j) = {i} /\ HeldFor(j) = {}
      BY <2>1, <2>3, <3>2
    <3> QED
      BY <2>1, <3>3 DEF InOnePlace
  <2> QED
    BY <2>2, <2>3
<1>3. CASE ~Unstarted(j) /\ \E f \in Fibers : fjob[f] = j
  <2>1. PICK f \in Fibers : fjob[f] = j
    BY <1>3
  <2>2. /\ QueuedFor(j) = {i \in DOMAIN queue : EntryOfFiber(i, f)}
        /\ HeldFor(j) = {t \in Threads : Holds(t, f)}
        /\ OnHoldFor(j) = {g \in {f} : /\ fstate[f] = "HOLD"
                                       /\ \A t \in Threads : ~(Holds(t, f) /\ pc[t] \in {"swapOut", "settle", "park"})}
    BY <1>1, <1>3, <2>1, CarriedJob
  <2>3. ASSUME NEW i \in DOMAIN queue,
               \A k \in DOMAIN queue : EntryOfFiber(k, f) <=> k = i,
               \A t \in Threads : ~Holds(t, f), fstate[f] # "HOLD"
        PROVE  InOnePlace(j)
    <3>1. QueuedFor(j) = {i} /\ HeldFor(j) = {} /\ OnHoldFor(j) = {}
      BY <2>2, <2>3
    <3> QED
      BY <3>1 DEF InOnePlace
  <2>4. ASSUME NEW t \in Threads,
               \A k \in DOMAIN queue : ~EntryOfFiber(k, f),
               \A u \in Threads : Holds(u, f) <=> u = t,
               fstate[f] = "HOLD" => pc[t] \in {"swapOut", "settle", "park"}
        PROVE  InOnePlace(j)
    <3>1. QueuedFor(j) = {} /\ HeldFor(j) = {t} /\ OnHoldFor(j) = {}
      BY <2>2, <2>4
    <3> QED
      BY <3>1 DEF InOnePlace
  <2>5. ASSUME \A k \in DOMAIN queue : ~EntryOfFiber(k, f),
               \A u \in Threads : ~Holds(u, f), fstate[f] = "HOLD"
        PROVE  InOnePlace(j)
    <3>1. QueuedFor(j) = {} /\ HeldFor(j) = {} /\ OnHoldFor(j) = {f}
      BY <2>2, <2>5
    <3> QED
      BY <3>1 DEF InOnePlace
  <2> QED
    BY <1>1, <2>1, <2>3, <2>4, <2>5, OnePlace
<1> QED
  BY <1>1, <1>2, <1>3, Carrier

(* So it is counted once.                                                  *)
LEMMA InPlaces == TypeInv /\ Exclusion /\ JobInv => NoJobLost
<1> SUFFICES ASSUME TypeInv, Exclusion, JobInv, NEW j \in submitted \ ended
             PROVE  Cardinality(QueuedFor(j)) + Cardinality(HeldFor(j))
                      + Cardinality(OnHoldFor(j)) = 1
  BY DEF NoJobLost
<1>1. InOnePlace(j)
  BY Placed
<1>2. \/ \E i : QueuedFor(j) = {i} /\ HeldFor(j) = {} /\ OnHoldFor(j) = {}
      \/ \E t : QueuedFor(j) = {} /\ HeldFor(j) = {t} /\ OnHoldFor(j) = {}
      \/ \E f : QueuedFor(j) = {} /\ HeldFor(j) = {} /\ OnHoldFor(j) = {f}
  BY ONLY <1>1 DEF InOnePlace
<1>3. 1 + 0 + 0 = 1 /\ 0 + 1 + 0 = 1 /\ 0 + 0 + 1 = 1
  OBVIOUS
<1> QED
  BY ONLY <1>2, <1>3, Counted, Zenon

(* No job is lost and none is in two places, however many threads and jobs *)
(* there are, when a coroutine gets back into the queue only from run():   *)
(* what run() drops is over, what it recycles has been left by its job,    *)
(* and what it forgets is in the queue or on hold.                         *)
THEOREM EveryJobPlaced ==
  ASSUME Wakers = {}
  PROVE  Spec => []NoJobLost
<1> DEFINE Inv == OwnerAhead /\ Exclusion /\ JobInv
<1>1. Init => Inv
  BY ExclusionInit, JobInit DEF Init, OwnerAhead
<1>2. TypeInv /\ Inv /\ [Next]_vars => Inv'
  BY OwnerAheadStep, ExclusionStep, JobStep, WithoutWakers
<1> QED
  BY <1>1, <1>2, InPlaces, Typing, PTL DEF Spec

-----------------------------------------------------------------------------
(* The scheduler implements TaskPool: what a job's status is, read off the *)
(* place it is in.                                                         *)

RunsIt(t, k) == pc[t] \in {"run", "swapOut"} /\ fjob[OnFiber(t)] = k
HandsIt(t, k) ==
  \/ pc[t] = "dispatch" /\ EntryOf(ft[t], k)
  \/ pc[t] = "settle" /\ fjob[OnFiber(t)] = k /\ fstate[OnFiber(t)] = "READY"
InQueue(k) == \E i \in DOMAIN queue : EntryOf(queue[i], k)
Waiting(k) == InQueue(k) \/ \E t \in Threads : HandsIt(t, k)

(* The cases of a status exclude each other.                               *)
StatusRead(k) ==
  /\ k \notin submitted => StatusOf(k) = "new"
  /\ k \in ended => StatusOf(k) = "over" /\ RunnersOf(k) = {}
  /\ k \notin ended => RunnersOf(k) = {t \in Threads : RunsIt(t, k)}
  /\ k \in submitted /\ k \notin ended =>
       StatusOf(k) = IF \E t \in Threads : RunsIt(t, k) THEN "running"
                     ELSE IF Waiting(k) THEN "waiting" ELSE "suspended"
JobsRead == ended \subseteq submitted => \A k \in Jobs : StatusRead(k)

LEMMA StatusCases == JobsRead
<1> SUFFICES ASSUME ended \subseteq submitted, NEW k \in Jobs PROVE StatusRead(k)
  BY DEF JobsRead
<1> USE DEF StatusRead
<1>1. /\ k \in ended => RunnersOf(k) = {}
      /\ k \notin ended => RunnersOf(k) = {t \in Threads : RunsIt(t, k)}
  BY DEF RunnersOf, RunsIt
<1>2. Waiting(k) <=> QueuedFor(k) # {} \/ InHand(k)
  BY DEF Waiting, InQueue, QueuedFor, InHand, HandsIt
<1>3. CASE k \notin submitted
  BY <1>1, <1>3 DEF StatusOf
<1>4. CASE k \in ended
  BY <1>1, <1>4 DEF StatusOf
<1>5. CASE k \in submitted /\ k \notin ended
  <2>1. RunnersOf(k) # {} <=> \E t \in Threads : RunsIt(t, k)
    BY <1>1, <1>5
  <2>2. CASE RunnersOf(k) # {}
    BY <1>1, <1>5, <2>1, <2>2 DEF StatusOf
  <2>3. CASE RunnersOf(k) = {} /\ Waiting(k)
    BY <1>1, <1>2, <1>5, <2>1, <2>3 DEF StatusOf
  <2>4. CASE RunnersOf(k) = {} /\ ~Waiting(k)
    BY <1>1, <1>2, <1>5, <2>1, <2>4 DEF StatusOf
  <2> QED
    BY <2>2, <2>3, <2>4
<1> QED
  BY <1>1, <1>3, <1>4, <1>5

(* The job that a coroutine carries, while a thread holds it, while its    *)
(* entry waits, and while it is on hold; and a job not yet started.        *)
HeldStatus(t, f) ==
  IF pc[t] \in {"run", "swapOut"} THEN "running"
  ELSE IF pc[t] = "dispatch" \/ (pc[t] = "settle" /\ fstate[f] = "READY") THEN "waiting"
  ELSE "suspended"
HeldJob(t, f) ==
  Holds(t, f) =>
    /\ StatusOf(fjob[f]) = HeldStatus(t, f)
    /\ RunnersOf(fjob[f]) = IF pc[t] \in {"run", "swapOut"} THEN {t} ELSE {}
LeftJob(f) ==
  (\A t \in Threads : ~Holds(t, f)) =>
    /\ RunnersOf(fjob[f]) = {}
    /\ StatusOf(fjob[f]) = IF \E i \in DOMAIN queue : EntryOfFiber(i, f)
                           THEN "waiting" ELSE "suspended"
Places ==
  /\ \A f \in Fibers : fjob[f] \in Jobs /\ fjob[f] \in submitted /\ fjob[f] \notin ended =>
       LeftJob(f) /\ \A t \in Threads : HeldJob(t, f)
  /\ \A j \in Callbacks : Unstarted(j) => StatusOf(j) = "waiting" /\ RunnersOf(j) = {}
  /\ \A k \in Jobs : /\ k \notin submitted => StatusOf(k) = "new" /\ RunnersOf(k) = {}
                     /\ k \in ended => StatusOf(k) = "over" /\ RunnersOf(k) = {}

(* Nobody runs a job that was not submitted.                               *)
LEMMA UnsubmittedRunsNot ==
  ASSUME TypeInv, Exclusion, JobInv, NEW k \in Jobs, k \notin submitted, NEW t \in Threads
  PROVE  ~RunsIt(t, k)
<1> SUFFICES ASSUME RunsIt(t, k) PROVE FALSE
  OBVIOUS
<1>1. OnFiber(t) \in Fibers /\ fjob[OnFiber(t)] = k /\ k # NoJob
  BY JobsAssumption DEF RunsIt, TypeInv, OnSomeFiber
<1>2. fstate[OnFiber(t)] \in FiberStates \ {"NONE", "INIT"}
  BY <1>1 DEF RunsIt, JobInv, StatesFit, FitOf, FiberStates, Over
<1>3. LifeOf(OnFiber(t)) /\ ended \subseteq submitted
  BY <1>1 DEF JobInv, FiberLife
<1> QED
  BY <1>1, <1>2, <1>3 DEF LifeOf, FiberStates

LEMMA PlacesHold == TypeInv /\ Exclusion /\ JobInv => Places
<1> SUFFICES ASSUME TypeInv, Exclusion, JobInv PROVE Places
  OBVIOUS
<1>1. ended \subseteq submitted
  BY DEF JobInv
<1>2. ASSUME NEW f \in Fibers, NEW j \in Jobs, fjob[f] = j, j \in submitted, j \notin ended
      PROVE  LeftJob(f) /\ \A t \in Threads : HeldJob(t, f)
  <2>1. ~Unstarted(j)
    BY <1>2, Carrier DEF JobInv, Fresh
  <2>2. /\ \A t \in Threads : RunsIt(t, j) <=> Holds(t, f) /\ pc[t] \in {"run", "swapOut"}
        /\ \A t \in Threads : HandsIt(t, j) <=>
             /\ Holds(t, f)
             /\ pc[t] = "dispatch" \/ (pc[t] = "settle" /\ fstate[f] = "READY")
        /\ InQueue(j) <=> \E i \in DOMAIN queue : EntryOfFiber(i, f)
    <3>1. \A g \in Fibers : fjob[g] = j <=> g = f
      BY <1>2, JobsAssumption DEF JobInv, OneFiber
    <3>2. /\ \A i \in DOMAIN queue : queue[i].kind = "fiber" => queue[i].id \in Fibers
          /\ \A t \in Threads : ft[t].kind = "fiber" => ft[t].id \in Fibers
          /\ \A t \in Threads : OnCoroutine(t) => OnFiber(t) \in Fibers
      BY EntryTypes, HoldsHas DEF TypeInv, TypeOK
    <3>3. /\ \A i \in DOMAIN queue : ~(queue[i].kind = "cb" /\ queue[i].id = j)
          /\ \A t \in Threads : ~(ft[t].kind = "cb" /\ ft[t].id = j)
      BY <2>1 DEF Unstarted, EntryOfCallback, HasCallback
    <3>4. \A t \in Threads : RunsIt(t, j) <=> Holds(t, f) /\ pc[t] \in {"run", "swapOut"}
      BY <3>1, <3>2 DEF RunsIt, Holds, OnCoroutine
    <3>5. ASSUME NEW t \in Threads
          PROVE  HandsIt(t, j) <=>
                   /\ Holds(t, f)
                   /\ pc[t] = "dispatch" \/ (pc[t] = "settle" /\ fstate[f] = "READY")
      BY <3>1, <3>2, <3>3 DEF HandsIt, EntryOf, Holds, OnCoroutine
    <3>6. InQueue(j) <=> \E i \in DOMAIN queue : EntryOfFiber(i, f)
      BY <3>1, <3>2, <3>3 DEF InQueue, EntryOf, EntryOfFiber
    <3> QED
      BY <3>4, <3>5, <3>6
  <2>3. /\ RunnersOf(j) = {t \in Threads : RunsIt(t, j)}
        /\ StatusOf(j) = IF \E t \in Threads : RunsIt(t, j) THEN "running"
                         ELSE IF Waiting(j) THEN "waiting" ELSE "suspended"
    BY <1>1, <1>2, StatusCases DEF JobsRead, StatusRead
  <2>4. LeftJob(f)
    BY <1>2, <2>2, <2>3 DEF LeftJob, Waiting
  <2>5. ASSUME NEW t \in Threads, Holds(t, f)
        PROVE  /\ StatusOf(j) = HeldStatus(t, f)
               /\ RunnersOf(j) = IF pc[t] \in {"run", "swapOut"} THEN {t} ELSE {}
    <3>1. /\ \A u \in Threads : Holds(u, f) => u = t
          /\ \A i \in DOMAIN queue : ~EntryOfFiber(i, f)
      BY <2>5, HoldsHas
    <3>2. RunnersOf(j) = IF pc[t] \in {"run", "swapOut"} THEN {t} ELSE {}
      BY <2>2, <2>3, <2>5, <3>1
    <3>3. Waiting(j) <=> pc[t] = "dispatch" \/ (pc[t] = "settle" /\ fstate[f] = "READY")
      BY <2>2, <2>5, <3>1 DEF Waiting
    <3>4. (\E u \in Threads : RunsIt(u, j)) <=> pc[t] \in {"run", "swapOut"}
      BY <2>2, <2>5, <3>1
    <3> QED
      BY <2>3, <3>2, <3>3, <3>4 DEF HeldStatus
  <2> QED
    BY <1>2, <2>4, <2>5 DEF HeldJob
<1>3. ASSUME NEW j \in Callbacks, Unstarted(j)
      PROVE  StatusOf(j) = "waiting" /\ RunnersOf(j) = {}
  <2>1. j \in Jobs /\ j \notin ended /\ \A f \in Fibers : fjob[f] # j
    BY <1>3 DEF JobInv, Fresh, Jobs
  <2>2. j \in submitted
    BY <1>3, <2>1 DEF Exclusion, UnsubmittedNowhere, Unstarted, EntryOfCallback, HasCallback
  <2>3. \A t \in Threads : ~RunsIt(t, j)
    BY <2>1 DEF RunsIt, TypeInv, OnSomeFiber
  <2>4. Waiting(j)
    BY <1>3 DEF Unstarted, EntryOfCallback, HasCallback, Waiting, InQueue, HandsIt, EntryOf,
       JobInv, EntryInHand, HandOf
  <2> QED
    BY <1>1, <2>1, <2>2, <2>3, <2>4, StatusCases DEF JobsRead, StatusRead
<1>4. ASSUME NEW k \in Jobs
      PROVE  /\ k \notin submitted => StatusOf(k) = "new" /\ RunnersOf(k) = {}
             /\ k \in ended => StatusOf(k) = "over" /\ RunnersOf(k) = {}
  BY <1>1, StatusCases, UnsubmittedRunsNot DEF JobsRead, StatusRead
<1> QED
  BY <1>2, <1>3, <1>4 DEF Places

(* Both hold in the next state too.                                        *)
LEMMA StatusCasesNext == JobsRead'
  BY StatusCases, PTL
LEMMA PlacesNext == TypeInv' /\ Exclusion' /\ JobInv' => Places'
  BY PlacesHold, PTL

(* In particular, the job whose code a thread is in runs on that thread.   *)
RunsHeld ==
  \A t \in Threads, f \in Fibers :
    /\ fjob[f] \in Jobs /\ fjob[f] \in submitted /\ fjob[f] \notin ended
    /\ Holds(t, f) /\ pc[t] \in {"run", "swapOut"}
    => StatusOf(fjob[f]) = "running" /\ RunnersOf(fjob[f]) = {t}

LEMMA RunsHold == TypeInv /\ Exclusion /\ JobInv => RunsHeld
<1> SUFFICES ASSUME TypeInv, Exclusion, JobInv, NEW t \in Threads, NEW f \in Fibers,
                    fjob[f] \in Jobs, fjob[f] \in submitted, fjob[f] \notin ended,
                    Holds(t, f), pc[t] \in {"run", "swapOut"}
             PROVE  StatusOf(fjob[f]) = "running" /\ RunnersOf(fjob[f]) = {t}
  BY DEF RunsHeld
<1>1. HeldJob(t, f)
  BY PlacesHold DEF Places
<1>2. HeldStatus(t, f) = "running"
  BY DEF HeldStatus
<1> QED
  BY <1>1, <1>2 DEF HeldJob

LEMMA RunsNext == TypeInv' /\ Exclusion' /\ JobInv' => RunsHeld'
  BY RunsHold, PTL

(* A job whose places a step leaves alone keeps its status.                *)
LEMMA StatusFrame ==
  ASSUME ended \subseteq submitted, (ended \subseteq submitted)', NEW k \in Jobs,
         k \in submitted' <=> k \in submitted, k \in ended' <=> k \in ended,
         \A t \in Threads : RunsIt(t, k)' <=> RunsIt(t, k),
         Waiting(k)' <=> Waiting(k)
  PROVE  StatusOf(k)' = StatusOf(k) /\ RunnersOf(k)' = RunnersOf(k)
<1>1. StatusRead(k)
  BY StatusCases DEF JobsRead
<1>2. StatusRead(k)'
  BY StatusCasesNext DEF JobsRead
<1>3. CASE k \in ended
  BY <1>1, <1>2, <1>3 DEF StatusRead
<1>4. CASE k \notin ended
  <2>1. RunnersOf(k)' = RunnersOf(k)
    BY <1>1, <1>2, <1>4 DEF StatusRead
  <2>2. StatusOf(k)' = StatusOf(k)
    BY <1>1, <1>2, <1>4 DEF StatusRead
  <2> QED
    BY <2>1, <2>2
<1> QED
  BY <1>3, <1>4

(* The abstract pool does not see a step for job k.                        *)
Same(k) == StatusOf(k)' = StatusOf(k) /\ RunnersOf(k)' = RunnersOf(k)

(* What a thread does with a coroutine it holds is seen in the job that    *)
(* the coroutine carries, and in no other.                                 *)
LEMMA OthersLocal ==
  ASSUME TypeInv, Exclusion, JobInv, JobInv',
         NEW t \in Threads, NEW f \in Fibers, Holds(t, f),
         UNCHANGED <<queue, submitted>>,
         \A u \in Threads \ {t} : ft'[u] = ft[u] /\ cbFiber'[u] = cbFiber[u] /\ pc'[u] = pc[u],
         \A g \in Fibers \ {f} : fstate'[g] = fstate[g] /\ fjob'[g] = fjob[g],
         fjob'[f] \in {fjob[f], NoJob},
         ended \subseteq ended', \A j \in ended' \ ended : j = fjob[f],
         ft[t].kind # "cb", ft'[t].kind # "cb",
         OnCoroutine(t)' => OnFiber(t)' = f,
         pc'[t] # "dispatch",
         NEW k \in Jobs, k # fjob[f]
  PROVE  Same(k)
<1>1. \A u \in Threads \ {t} : ~Holds(u, f)
  BY HoldsHas
<1>2. /\ \A u \in Threads : OnCoroutine(u) => OnFiber(u) \in Fibers
      /\ \A u \in Threads : ft[u].kind = "fiber" => ft[u].id \in Fibers
      /\ \A i \in DOMAIN queue : queue[i].kind = "fiber" => queue[i].id \in Fibers /\ queue[i].id # f
  BY HoldsHas, EntryTypes DEF TypeInv, TypeOK, EntryOfFiber
<1>3. k # NoJob /\ fjob'[f] # k
  BY JobsAssumption
<1>4. \A u \in Threads \ {t} : OnFiber(u)' = OnFiber(u)
  BY DEF OnFiber
<1>5. \A u \in Threads : RunsIt(u, k)' <=> RunsIt(u, k)
  <2>1. ASSUME NEW u \in Threads \ {t} PROVE RunsIt(u, k)' <=> RunsIt(u, k)
    BY <1>1, <1>2, <1>4 DEF RunsIt, Holds, OnCoroutine
  <2>2. ~RunsIt(t, k)
    BY HoldsHas DEF RunsIt, Holds, OnCoroutine
  <2>3. ~RunsIt(t, k)'
    BY <1>3 DEF RunsIt, OnCoroutine
  <2> QED
    BY <2>1, <2>2, <2>3
<1>6. \A u \in Threads : HandsIt(u, k)' <=> HandsIt(u, k)
  <2>1. ASSUME NEW u \in Threads \ {t} PROVE HandsIt(u, k)' <=> HandsIt(u, k)
    <3>1. pc[u] = "dispatch" /\ ft[u].kind = "fiber" => ft[u].id # f
      BY <1>1 DEF Holds
    <3>2. pc[u] = "dispatch" => (EntryOf(ft[u], k)' <=> EntryOf(ft[u], k))
      BY <1>2, <3>1 DEF EntryOf
    <3>3. pc[u] = "settle" => OnFiber(u) \in Fibers /\ OnFiber(u) # f
      BY <1>1, <1>2 DEF Holds, OnCoroutine
    <3> QED
      BY <1>4, <3>2, <3>3 DEF HandsIt
  <2>2. ~HandsIt(t, k)
    BY DEF HandsIt, EntryOf, Holds, OnCoroutine
  <2>3. ~HandsIt(t, k)'
    BY <1>3 DEF HandsIt, OnCoroutine
  <2> QED
    BY <2>1, <2>2, <2>3
<1>7. InQueue(k)' <=> InQueue(k)
  BY <1>2 DEF InQueue, EntryOf
<1>8. k \in submitted' <=> k \in submitted
  OBVIOUS
<1>9. k \in ended' <=> k \in ended
  OBVIOUS
<1>10. Waiting(k)' <=> Waiting(k)
  BY <1>6, <1>7 DEF Waiting
<1> QED
  BY <1>5, <1>8, <1>9, <1>10, StatusFrame DEF Same, JobInv

(* Taking an entry, and putting one back, leaves the job waiting.          *)
LEMMA SameTake ==
  ASSUME TypeInv, Exclusion, JobInv, JobInv', NEW t \in Threads, Take(t), NEW k \in Jobs
  PROVE  Same(k)
<1>1. PICK i \in DOMAIN queue :
        /\ \A m \in DOMAIN queue' : \E n \in DOMAIN queue : queue'[m] = queue[n]
        /\ \A n \in DOMAIN queue \ {i} : \E m \in DOMAIN queue' : queue'[m] = queue[n]
        /\ UNCHANGED <<cbFiber, fstate, fjob, submitted, ended>>
        /\ ft'[t] = queue[i] /\ pc[t] = "scan" /\ pc'[t] = "dispatch"
        /\ \A u \in Threads \ {t} : ft'[u] = ft[u] /\ pc'[u] = pc[u]
  BY Taken
<1>2. \A u \in Threads : RunsIt(u, k)' <=> RunsIt(u, k)
  BY <1>1 DEF RunsIt, OnFiber
<1>3. /\ \A u \in Threads \ {t} : HandsIt(u, k)' <=> HandsIt(u, k)
      /\ ~HandsIt(t, k)
      /\ HandsIt(t, k)' <=> EntryOf(queue[i], k)
  BY <1>1 DEF HandsIt, EntryOf, OnFiber
<1>4. InQueue(k)' => InQueue(k)
  BY <1>1 DEF InQueue, EntryOf
<1>5. InQueue(k) => InQueue(k)' \/ EntryOf(queue[i], k)
  BY <1>1 DEF InQueue, EntryOf
<1>6. EntryOf(queue[i], k) => InQueue(k)
  BY DEF InQueue
<1>7. Waiting(k)' <=> Waiting(k)
  BY <1>3, <1>4, <1>5, <1>6 DEF Waiting
<1> QED
  BY <1>1, <1>2, <1>7, StatusFrame DEF Same, JobInv

LEMMA SameRequeue ==
  ASSUME TypeInv, Exclusion, JobInv, JobInv', NEW t \in Threads, Requeue(t), NEW k \in Jobs
  PROVE  Same(k)
<1> DEFINE n == Len(queue)
<1>1. PICK f \in Fibers : f = OnFiber(t) /\ fstate[f] = "READY"
  BY DEF Requeue, TypeInv, OnSomeFiber
<1> DEFINE e == FiberEntry(f, AnyThread)
<1>2. e \in Entries /\ e.kind = "fiber" /\ e.id = f
  BY EntryTypes DEF FiberEntry
<1>3. /\ DOMAIN queue = 1..n /\ n \in Nat /\ DOMAIN queue' = 1..(n + 1)
      /\ \A m \in DOMAIN queue : queue'[m] = queue[m]
      /\ queue'[n + 1] = e
  BY <1>1, <1>2, AppendEntries DEF Requeue, TypeInv, TypeOK
<1>4. /\ UNCHANGED <<fstate, fjob, submitted, ended>>
      /\ pc[t] = "settle" /\ pc'[t] = "scan"
      /\ \A u \in Threads \ {t} : ft'[u] = ft[u] /\ cbFiber'[u] = cbFiber[u] /\ pc'[u] = pc[u]
  BY DEF Requeue, LetGo, TypeInv, TypeOK, fiberVars, jobVars
<1> HIDE DEF e, n
<1>5. \A m \in DOMAIN queue' : m \in DOMAIN queue \/ m = n + 1
  BY <1>3
<1>6. n + 1 \in DOMAIN queue' /\ DOMAIN queue \subseteq DOMAIN queue'
  BY <1>3
<1>7. \A u \in Threads : RunsIt(u, k)' <=> RunsIt(u, k)
  BY <1>4 DEF RunsIt, OnFiber
<1>8. /\ \A u \in Threads \ {t} : HandsIt(u, k)' <=> HandsIt(u, k)
      /\ ~HandsIt(t, k)'
      /\ HandsIt(t, k) <=> fjob[f] = k
  BY <1>1, <1>4 DEF HandsIt, EntryOf, OnFiber
<1>9. InQueue(k)' <=> InQueue(k) \/ fjob[f] = k
  BY <1>2, <1>3, <1>4, <1>5, <1>6 DEF InQueue, EntryOf
<1>10. Waiting(k)' <=> Waiting(k)
  BY <1>8, <1>9 DEF Waiting
<1> QED
  BY <1>4, <1>7, <1>10, StatusFrame DEF Same, JobInv

(* Nothing is seen of a step that leaves the queue and the coroutines.     *)
LEMMA SameFrame ==
  ASSUME JobInv, JobInv', UNCHANGED <<queue, fstate, fjob, submitted, ended>>,
         \A t \in Threads :
           \/ UNCHANGED <<pc[t], ft[t], cbFiber[t]>>
           \/ /\ ~OnCoroutine(t) /\ ~OnCoroutine(t)'
              /\ ft[t].kind \notin {"fiber", "cb"} /\ ft'[t].kind \notin {"fiber", "cb"},
         NEW k \in Jobs
  PROVE  Same(k)
<1>1. \A u \in Threads : RunsIt(u, k)' <=> RunsIt(u, k)
  BY DEF RunsIt, OnFiber, OnCoroutine
<1>2. \A u \in Threads : HandsIt(u, k)' <=> HandsIt(u, k)
  BY DEF HandsIt, EntryOf, OnFiber, OnCoroutine
<1>3. InQueue(k)' <=> InQueue(k)
  BY DEF InQueue, EntryOf
<1>4. Waiting(k)' <=> Waiting(k)
  BY <1>2, <1>3 DEF Waiting
<1> QED
  BY <1>1, <1>4, StatusFrame DEF Same, JobInv

-----------------------------------------------------------------------------
(* What TaskPool sees of each step: nothing, or one job that changes its   *)
(* status.                                                                 *)
Whole == TypeInv /\ Exclusion /\ JobInv

LEMMA PoolSame ==
  ASSUME \A k \in Jobs : Same(k), ownerPc' = "stopped" <=> ownerPc = "stopped"
  PROVE  UNCHANGED Pool!vars
<1>1. /\ [k \in Jobs |-> StatusOf(k)]' = [k \in Jobs |-> StatusOf(k)]
      /\ [k \in Jobs |-> RunnersOf(k)]' = [k \in Jobs |-> RunnersOf(k)]
  BY DEF Same
<1> QED
  BY <1>1 DEF Pool!vars

(* One job changes its status, and perhaps the threads that run it.        *)
LEMMA PoolMoves ==
  ASSUME NEW j \in Jobs, \A k \in Jobs \ {j} : Same(k)
  PROVE  /\ [k \in Jobs |-> StatusOf(k)]' =
              [[k \in Jobs |-> StatusOf(k)] EXCEPT ![j] = StatusOf(j)']
         /\ [k \in Jobs |-> RunnersOf(k)]' =
              [[k \in Jobs |-> RunnersOf(k)] EXCEPT ![j] = RunnersOf(j)']
  BY DEF Same

LEMMA PoolSubmit ==
  ASSUME NEW j \in Jobs, \A k \in Jobs \ {j} : Same(k),
         ownerPc # "stopped", ownerPc' # "stopped",
         StatusOf(j) = "new", RunnersOf(j) = {}, StatusOf(j)' = "waiting", RunnersOf(j)' = {}
  PROVE  Pool!Submit(j)
<1>1. /\ [k \in Jobs |-> StatusOf(k)]' = [[k \in Jobs |-> StatusOf(k)] EXCEPT ![j] = "waiting"]
      /\ [k \in Jobs |-> RunnersOf(k)]' = [[k \in Jobs |-> RunnersOf(k)] EXCEPT ![j] = RunnersOf(j)]
  BY PoolMoves
<1>2. [k \in Jobs |-> RunnersOf(k)]' = [k \in Jobs |-> RunnersOf(k)]
  BY <1>1
<1> QED
  BY <1>1, <1>2 DEF Pool!Submit, Pool!Move

LEMMA PoolRun ==
  ASSUME NEW j \in Jobs, NEW t \in Threads, \A k \in Jobs \ {j} : Same(k),
         ownerPc # "stopped", ownerPc' # "stopped",
         StatusOf(j) = "waiting", StatusOf(j)' = "running", RunnersOf(j)' = {t},
         \A k \in Jobs : t \notin RunnersOf(k)
  PROVE  Pool!Run(j, t)
<1>1. /\ [k \in Jobs |-> StatusOf(k)]' = [[k \in Jobs |-> StatusOf(k)] EXCEPT ![j] = "running"]
      /\ [k \in Jobs |-> RunnersOf(k)]' = [[k \in Jobs |-> RunnersOf(k)] EXCEPT ![j] = {t}]
  BY PoolMoves
<1> QED
  BY <1>1 DEF Pool!Run, Pool!Move

LEMMA PoolLeave ==
  ASSUME NEW j \in Jobs, NEW to, \A k \in Jobs \ {j} : Same(k),
         ownerPc # "stopped", ownerPc' # "stopped",
         StatusOf(j) = "running", StatusOf(j)' = to, RunnersOf(j)' = {}
  PROVE  Pool!Leave(j, to)
<1>1. /\ [k \in Jobs |-> StatusOf(k)]' = [[k \in Jobs |-> StatusOf(k)] EXCEPT ![j] = to]
      /\ [k \in Jobs |-> RunnersOf(k)]' = [[k \in Jobs |-> RunnersOf(k)] EXCEPT ![j] = {}]
  BY PoolMoves
<1> QED
  BY <1>1 DEF Pool!Leave, Pool!Move

(* schedule() makes a new job wait, whoever calls it.                      *)
LEMMA SubmitSeen ==
  ASSUME Whole, Whole', NEW j \in Jobs, NEW v \in Threads \cup {AnyThread}, Submit(j, v),
         UNCHANGED <<pc, ft, cbFiber, fstate, fjob, ended, ownerPc>>, ownerPc # "stopped"
  PROVE  Pool!Submit(j)
<1> USE DEF Whole
<1> DEFINE n == Len(queue)
           e == JobEntry(j, v)
<1>1. e \in Entries /\ e.id = j /\ e.kind = IF j \in Coroutines THEN "fiber" ELSE "cb"
  BY EntryTypes DEF JobEntry
<1>2. /\ DOMAIN queue = 1..n /\ n \in Nat /\ DOMAIN queue' = 1..(n + 1)
      /\ \A m \in DOMAIN queue : queue'[m] = queue[m]
      /\ queue'[n + 1] = e
  BY <1>1, AppendEntries DEF Submit, TypeInv, TypeOK
<1>3. j \notin submitted /\ submitted' = submitted \cup {j} /\ j \notin ended
  BY DEF Submit, JobInv
<1> HIDE DEF e, n
<1>4. \A m \in DOMAIN queue' : m \in DOMAIN queue \/ m = n + 1
  BY <1>2
<1>5. n + 1 \in DOMAIN queue' /\ DOMAIN queue \subseteq DOMAIN queue'
  BY <1>2
<1>6. j \in Coroutines => fjob[j] = j
  BY <1>3 DEF Exclusion, UnsubmittedNowhere, JobInv, FiberLife, LifeOf
<1>7. \A k \in Jobs : EntryOf(e, k) <=> k = j
  BY <1>1, <1>6 DEF EntryOf
<1>8. \A u \in Threads, k \in Jobs : /\ RunsIt(u, k)' <=> RunsIt(u, k)
                                     /\ HandsIt(u, k)' <=> HandsIt(u, k)
  BY DEF RunsIt, HandsIt, EntryOf, OnFiber
<1>9. \A k \in Jobs : InQueue(k)' <=> InQueue(k) \/ k = j
  <2> SUFFICES ASSUME NEW k \in Jobs PROVE InQueue(k)' <=> InQueue(k) \/ k = j
    OBVIOUS
  <2>1. InQueue(k) => InQueue(k)'
    BY <1>2, <1>5 DEF InQueue, EntryOf
  <2>2. k = j => InQueue(k)'
    BY <1>2, <1>5, <1>7 DEF InQueue, EntryOf
  <2>3. InQueue(k)' => InQueue(k) \/ k = j
    BY <1>2, <1>4, <1>7 DEF InQueue, EntryOf
  <2> QED
    BY <2>1, <2>2, <2>3
<1>10. ASSUME NEW k \in Jobs \ {j} PROVE Same(k)
  <2>1. Waiting(k)' <=> Waiting(k)
    BY <1>8, <1>9 DEF Waiting
  <2> QED
    BY <1>3, <1>8, <2>1, StatusFrame DEF Same, JobInv
<1>11. StatusOf(j) = "new" /\ RunnersOf(j) = {}
  BY <1>3, PlacesHold DEF Places
<1>12. StatusOf(j)' = "waiting" /\ RunnersOf(j)' = {}
  <2>1. \A u \in Threads : ~RunsIt(u, j)'
    BY <1>3, <1>8, UnsubmittedRunsNot
  <2>2. Waiting(j)'
    BY <1>9 DEF Waiting
  <2>3. StatusRead(j)'
    BY StatusCasesNext DEF JobsRead, JobInv
  <2> QED
    BY <1>3, <2>1, <2>2, <2>3 DEF StatusRead
<1> QED
  BY <1>10, <1>11, <1>12, PoolSubmit

(* A coroutine that run() switches to: its job runs, on this thread only.  *)
LEMMA SwapInSeen ==
  ASSUME Whole, Whole', NEW t \in Threads, SwapInFiber(t),
         ownerPc # "stopped", ownerPc' # "stopped"
  PROVE  \E j \in Jobs : Pool!Run(j, t)
<1> USE DEF Whole
<1>1. PICK f \in Fibers : f = ft[t].id
  BY EntryTypes DEF SwapInFiber, TypeInv, TypeOK
<1>2. /\ UNCHANGED <<queue, submitted, ft, cbFiber, fjob, ended>>
      /\ pc[t] = "dispatch" /\ ft[t].kind = "fiber" /\ pc'[t] = "run"
      /\ fstate'[f] = "EXEC" /\ \A g \in Fibers \ {f} : fstate'[g] = fstate[g]
      /\ \A u \in Threads \ {t} : pc'[u] = pc[u]
  BY <1>1 DEF SwapInFiber, TypeInv, TypeOK, jobVars
<1>3. Holds(t, f) /\ Holds(t, f)' /\ OnFiber(t)' = f /\ OnCoroutine(t)'
  BY <1>1, <1>2 DEF Holds, OnCoroutine, OnFiber
<1>4. PICK j \in Jobs : j = fjob[f] /\ j \in submitted /\ j \notin ended
  <2>1. LifeOf(f)'
    BY DEF JobInv, FiberLife
  <2> QED
    BY <1>2, <2>1 DEF LifeOf, Mine, Jobs
<1>5. \A k \in Jobs \ {j} : Same(k)
  BY <1>2, <1>3, <1>4, OthersLocal
<1>6. StatusOf(j) = "waiting"
  BY <1>2, <1>3, <1>4, PlacesHold DEF Places, HeldJob, HeldStatus
<1>7. StatusOf(j)' = "running" /\ RunnersOf(j)' = {t}
  <2>1. /\ fjob'[f] = j /\ j \in submitted' /\ j \notin ended' /\ f \in Fibers /\ j \in Jobs
        /\ pc'[t] = "run" /\ Holds(t, f)'
    BY <1>2, <1>3, <1>4
  <2> QED
    BY <2>1, RunsNext DEF RunsHeld
<1>8. \A k \in Jobs : t \notin RunnersOf(k)
  BY <1>2 DEF RunnersOf
<1> QED
  BY <1>5, <1>6, <1>7, <1>8, PoolRun

(* A callback that run() starts: its job runs, on this thread only.        *)
LEMMA CallbackSeen ==
  ASSUME Whole, Whole', NEW t \in Threads, RunCallback(t),
         ownerPc # "stopped", ownerPc' # "stopped"
  PROVE  \E j \in Jobs : Pool!Run(j, t)
<1> USE DEF Whole
<1>1. PICK j \in Callbacks, f \in Callbacks :
        /\ j = ft[t].id /\ pc[t] = "dispatch" /\ ft[t].kind = "cb" /\ HasCallback(t, j)
        /\ j \in Jobs /\ f \in Fibers /\ j # NoJob /\ f # NoJob /\ f \notin Coroutines
        /\ j \in submitted /\ j \notin ended /\ \A g \in Fibers : fjob[g] # j
        /\ \A u \in Threads : ~Holds(u, f)
        /\ \A k \in DOMAIN queue : ~EntryOfFiber(k, f)
        /\ fstate[f] \in {"NONE", "INIT"} /\ fjob[f] = NoJob
        /\ UNCHANGED <<queue, submitted, ended>>
        /\ fstate'[f] = "EXEC" /\ fjob'[f] = j
        /\ \A g \in Fibers \ {f} : fstate'[g] = fstate[g] /\ fjob'[g] = fjob[g]
        /\ ft'[t].kind = "none" /\ cbFiber'[t] = f /\ pc'[t] = "run"
        /\ \A u \in Threads \ {t} : ft'[u] = ft[u] /\ cbFiber'[u] = cbFiber[u] /\ pc'[u] = pc[u]
  BY Started
<1>2. OnFiber(t)' = f /\ OnCoroutine(t)' /\ Holds(t, f)'
  BY <1>1 DEF OnFiber, OnCoroutine, Holds
<1>3. /\ \A i \in DOMAIN queue : queue[i].kind = "fiber" => queue[i].id \in Fibers /\ queue[i].id # f
      /\ \A u \in Threads : ft[u].kind = "fiber" => ft[u].id \in Fibers
      /\ \A u \in Threads : pc[u] = "dispatch" /\ ft[u].kind = "fiber" => ft[u].id # f
      /\ \A u \in Threads : OnCoroutine(u) => OnFiber(u) \in Fibers /\ OnFiber(u) # f
      /\ \A u \in Threads \ {t} : OnFiber(u)' = OnFiber(u)
  <2>1. /\ \A i \in DOMAIN queue : queue[i].kind = "fiber" => queue[i].id \in Fibers /\ queue[i].id # f
        /\ \A u \in Threads : ft[u].kind = "fiber" => ft[u].id \in Fibers
    BY <1>1, EntryTypes DEF TypeInv, TypeOK, EntryOfFiber
  <2>2. \A u \in Threads : pc[u] = "dispatch" /\ ft[u].kind = "fiber" => ft[u].id # f
    BY <1>1 DEF Holds
  <2>3. \A u \in Threads : OnCoroutine(u) => OnFiber(u) \in Fibers /\ OnFiber(u) # f
    BY <1>1, HoldsHas
  <2>4. \A u \in Threads \ {t} : OnFiber(u)' = OnFiber(u)
    BY <1>1 DEF OnFiber
  <2> QED
    BY <2>1, <2>2, <2>3, <2>4
<1>4. ASSUME NEW k \in Jobs \ {j} PROVE Same(k)
  <2>1. \A u \in Threads : RunsIt(u, k)' <=> RunsIt(u, k)
    <3>1. ~RunsIt(t, k) /\ ~RunsIt(t, k)'
      BY <1>1, <1>2 DEF RunsIt
    <3>2. \A u \in Threads \ {t} : RunsIt(u, k)' <=> RunsIt(u, k)
      BY <1>1, <1>3 DEF RunsIt, OnCoroutine
    <3> QED
      BY <3>1, <3>2
  <2>2. \A u \in Threads : HandsIt(u, k)' <=> HandsIt(u, k)
    <3>1. ~HandsIt(t, k) /\ ~HandsIt(t, k)'
      BY <1>1, <1>2 DEF HandsIt, EntryOf
    <3>2. ASSUME NEW u \in Threads \ {t} PROVE HandsIt(u, k)' <=> HandsIt(u, k)
      <4>1. pc[u] = "dispatch" => (EntryOf(ft[u], k)' <=> EntryOf(ft[u], k))
        BY <1>1, <1>3 DEF EntryOf
      <4>2. pc[u] = "settle" => OnFiber(u) \in Fibers /\ OnFiber(u) # f
        BY <1>3 DEF OnCoroutine
      <4> QED
        BY <1>1, <1>3, <4>1, <4>2 DEF HandsIt
    <3> QED
      BY <3>1, <3>2
  <2>3. InQueue(k)' <=> InQueue(k)
    BY <1>1, <1>3 DEF InQueue, EntryOf
  <2>4. Waiting(k)' <=> Waiting(k)
    BY <2>2, <2>3 DEF Waiting
  <2> QED
    BY <1>1, <2>1, <2>4, StatusFrame DEF Same, JobInv
<1>5. StatusOf(j) = "waiting"
  <2>1. Unstarted(j)
    BY <1>1 DEF Unstarted
  <2> QED
    BY <2>1, PlacesHold DEF Places
<1>6. StatusOf(j)' = "running" /\ RunnersOf(j)' = {t}
  <2>1. /\ fjob'[f] = j /\ j \in submitted' /\ j \notin ended' /\ f \in Fibers /\ j \in Jobs
        /\ pc'[t] = "run" /\ Holds(t, f)'
    BY <1>1, <1>2
  <2> QED
    BY <2>1, RunsNext DEF RunsHeld
<1>7. \A k \in Jobs : t \notin RunnersOf(k)
  BY <1>1 DEF RunnersOf
<1>8. j \in Jobs /\ \A k \in Jobs \ {j} : Same(k)
  BY <1>1, <1>4
<1>9. Pool!Run(j, t)
  BY ONLY <1>5, <1>6, <1>7, <1>8, PoolRun, ownerPc # "stopped", ownerPc' # "stopped", t \in Threads
<1> QED
  BY <1>8, <1>9

(* The code of a job that returns or throws: the job is over.  A yield is  *)
(* not seen, before the thread has switched back.                          *)
LEMMA TaskSeen ==
  ASSUME Whole, Whole', NEW t \in Threads, ownerPc # "stopped", UNCHANGED ownerPc,
         YieldReady(t) \/ YieldHold(t) \/ Finish(t) \/ Throw(t)
  PROVE  \/ UNCHANGED Pool!vars
         \/ \E j \in Jobs : Pool!Leave(j, "over")
<1> USE DEF Whole
<1>1. PICK f \in Fibers : f = OnFiber(t)
  BY DEF YieldReady, YieldHold, Yield, Finish, Throw, RunsJob, TypeInv, OnSomeFiber
<1>2. /\ UNCHANGED <<queue, submitted, ft, cbFiber>>
      /\ pc[t] = "run" /\ pc'[t] = "swapOut"
      /\ \A u \in Threads \ {t} : pc'[u] = pc[u]
      /\ \A g \in Fibers \ {f} : fstate'[g] = fstate[g] /\ fjob'[g] = fjob[g]
      /\ \/ fjob'[f] = fjob[f] /\ ended' = ended
         \/ fjob'[f] = NoJob /\ ended' = ended \cup {fjob[f]}
         \/ fjob'[f] = fjob[f] /\ ended' = ended \cup ({fjob[f]} \ {NoJob})
  BY <1>1 DEF YieldReady, YieldHold, Yield, Finish, Throw, RunsJob, TypeInv, TypeOK
<1>3. Holds(t, f) /\ Holds(t, f)' /\ OnFiber(t)' = f /\ OnCoroutine(t)' /\ ft[t].kind # "cb"
  BY <1>1, <1>2 DEF Holds, OnCoroutine, OnFiber, JobInv, EntryInHand, HandOf
<1>4. PICK j \in Jobs : j = fjob[f] /\ j \in submitted /\ j \notin ended /\ j # NoJob
  <2>1. LifeOf(f) /\ fstate[f] = "EXEC"
    BY <1>1, <1>2 DEF JobInv, FiberLife, StatesFit, FitOf
  <2> QED
    BY <2>1, JobsAssumption DEF LifeOf, Mine, Jobs
<1>5. \A k \in Jobs \ {j} : Same(k)
  BY <1>2, <1>3, <1>4, OthersLocal
<1>6. StatusOf(j) = "running" /\ RunnersOf(j) = {t}
  BY <1>2, <1>3, <1>4, RunsHold DEF RunsHeld
<1>7. CASE fjob'[f] = fjob[f] /\ ended' = ended
  <2>1. StatusOf(j)' = "running" /\ RunnersOf(j)' = {t}
    <3>1. /\ fjob'[f] = j /\ j \in submitted' /\ j \notin ended' /\ f \in Fibers /\ j \in Jobs
          /\ pc'[t] = "swapOut" /\ Holds(t, f)'
      BY <1>2, <1>3, <1>4, <1>7 DEF TypeInv, TypeOK
    <3> QED
      BY <3>1, RunsNext DEF RunsHeld
  <2>2. Same(j)
    BY <1>6, <2>1 DEF Same
  <2>3. \A k \in Jobs : Same(k)
    BY <1>5, <2>2
  <2>4. UNCHANGED Pool!vars
    BY ONLY <2>3, ownerPc' = ownerPc, PoolSame
  <2> QED
    BY <2>4
<1>8. CASE j \in ended'
  <2>1. StatusOf(j)' = "over" /\ RunnersOf(j)' = {}
    BY <1>8, PlacesNext DEF Places
  <2> QED
    BY <1>5, <1>6, <2>1, PoolLeave
<1> QED
  BY <1>2, <1>4, <1>7, <1>8

(* A thread that has switched back: the job waits or is on hold, unless it *)
(* was over before.                                                        *)
LEMMA SwapOutSeen ==
  ASSUME Whole, Whole', NEW t \in Threads, ownerPc # "stopped", UNCHANGED ownerPc, SwapOut(t)
  PROVE  \/ UNCHANGED Pool!vars
         \/ \E j \in Jobs, to \in {"waiting", "suspended"} : Pool!Leave(j, to)
<1> USE DEF Whole
<1>1. PICK f \in Fibers : f = OnFiber(t)
  BY DEF SwapOut, TypeInv, OnSomeFiber
<1>2. /\ UNCHANGED <<queue, submitted, ended, ft, cbFiber, fstate, fjob>>
      /\ pc[t] = "swapOut" /\ pc'[t] = "settle"
      /\ \A u \in Threads \ {t} : pc'[u] = pc[u]
  BY DEF SwapOut, TypeInv, TypeOK, fiberVars, jobVars
<1>3. Holds(t, f) /\ Holds(t, f)' /\ OnFiber(t)' = f /\ OnCoroutine(t)' /\ ft[t].kind # "cb"
  BY <1>1, <1>2 DEF Holds, OnCoroutine, OnFiber, JobInv, EntryInHand, HandOf
<1>4. \A k \in Jobs : k # fjob[f] => Same(k)
  BY <1>2, <1>3, OthersLocal
<1>5. fstate[f] \in {"READY", "HOLD"} \cup Over
  BY <1>1, <1>2 DEF JobInv, StatesFit, FitOf
<1>6. CASE fstate[f] \in {"READY", "HOLD"}
  <2>1. PICK j \in Jobs : j = fjob[f] /\ j \in submitted /\ j \notin ended
    <3>1. LifeOf(f)
      BY DEF JobInv, FiberLife
    <3> QED
      BY <1>6, <3>1 DEF LifeOf, Mine, Jobs
  <2>2. StatusOf(j) = "running" /\ RunnersOf(j) = {t}
    BY <1>2, <1>3, <2>1, RunsHold DEF RunsHeld
  <2>3. /\ StatusOf(j)' = IF fstate[f] = "READY" THEN "waiting" ELSE "suspended"
        /\ RunnersOf(j)' = {}
    BY <1>2, <1>3, <2>1, PlacesNext DEF Places, HeldJob, HeldStatus
  <2> QED
    BY <1>4, <2>1, <2>2, <2>3, PoolLeave
<1>7. CASE fstate[f] \in Over
  <2>1. fjob[f] \notin Jobs \/ fjob[f] \in ended
    BY <1>7, JobsAssumption DEF JobInv, FiberLife, LifeOf, Over
  <2>2. \A k \in Jobs : k = fjob[f] => Same(k)
    BY <1>2, <2>1, PlacesHold, PlacesNext DEF Places, Same
  <2> QED
    BY <1>4, <2>2, PoolSame
<1> QED
  BY <1>5, <1>6, <1>7

(* What the loop does with a coroutine it has come back from is not seen:  *)
(* the job is where it was.                                                *)
LEMMA SettleSeen ==
  ASSUME Whole, Whole', NEW t \in Threads, UNCHANGED ownerPc,
         Release(t) \/ FindsHold(t) \/ Park(t)
  PROVE  UNCHANGED Pool!vars
<1> USE DEF Whole
<1>1. PICK f \in Fibers : f = OnFiber(t)
  BY DEF Release, FindsHold, Park, TypeInv, OnSomeFiber
<1>2. /\ UNCHANGED <<queue, submitted, ended>>
      /\ pc[t] \in {"settle", "park"} /\ pc'[t] \in {"scan", "park"}
      /\ pc'[t] = "park" => UNCHANGED <<ft, cbFiber>>
      /\ ft'[t] \in {ft[t], NoEntry}
      /\ \A u \in Threads \ {t} : ft'[u] = ft[u] /\ cbFiber'[u] = cbFiber[u] /\ pc'[u] = pc[u]
      /\ \A g \in Fibers \ {f} : fstate'[g] = fstate[g] /\ fjob'[g] = fjob[g]
      /\ fjob'[f] \in {fjob[f], NoJob}
  BY <1>1 DEF Release, FindsHold, Park, LetGo, TypeInv, TypeOK, OnFiber, fiberVars, jobVars
<1>3. Holds(t, f) /\ ft[t].kind # "cb" /\ ft'[t].kind # "cb"
  BY <1>1, <1>2 DEF Holds, OnCoroutine, JobInv, EntryInHand, HandOf, NoEntry
<1>4. OnCoroutine(t)' => OnFiber(t)' = f
  BY <1>1, <1>2 DEF OnCoroutine, OnFiber
<1>5. \A k \in Jobs : k # fjob[f] => Same(k)
  BY <1>2, <1>3, <1>4, OthersLocal
<1>6. CASE Release(t)
  <2>1. fjob[f] \notin Jobs \/ fjob[f] \in ended
    BY <1>1, <1>6, JobsAssumption DEF Release, JobInv, FiberLife, LifeOf, Over
  <2>2. \A k \in Jobs : k = fjob[f] => Same(k)
    BY <1>2, <2>1, PlacesHold, PlacesNext DEF Places, Same
  <2> QED
    BY <1>5, <2>2, PoolSame
<1>7. CASE FindsHold(t) \/ Park(t)
  <2>1. fstate[f] = "HOLD" /\ fstate'[f] = "HOLD" /\ fjob'[f] = fjob[f]
    BY <1>1, <1>7 DEF FindsHold, Park, JobInv, StatesFit, FitOf, TypeInv, TypeOK, fiberVars, Over
  <2>2. PICK j \in Jobs : j = fjob[f] /\ j \in submitted /\ j \notin ended
    <3>1. LifeOf(f)
      BY DEF JobInv, FiberLife
    <3> QED
      BY <2>1, <3>1 DEF LifeOf, Mine, Jobs
  <2>3. StatusOf(j) = "suspended" /\ RunnersOf(j) = {}
    BY <1>2, <1>3, <2>1, <2>2, PlacesHold DEF Places, HeldJob, HeldStatus
  <2>4. StatusOf(j)' = "suspended" /\ RunnersOf(j)' = {}
    <3>1. CASE FindsHold(t)
      <4>1. Holds(t, f)' /\ pc'[t] = "park"
        BY <1>1, <3>1 DEF FindsHold, Holds, OnCoroutine, OnFiber, TypeInv, TypeOK
      <4> QED
        BY <1>2, <2>1, <2>2, <4>1, PlacesNext DEF Places, HeldJob, HeldStatus
    <3>2. CASE Park(t)
      <4>1. pc'[t] = "scan"
        BY <3>2 DEF Park, LetGo, TypeInv, TypeOK
      <4>2. \A u \in Threads \ {t} : ~Holds(u, f)
        BY <1>3, HoldsHas
      <4>3. \A u \in Threads : ~Holds(u, f)'
        BY <1>2, <4>1, <4>2 DEF Holds, OnCoroutine, OnFiber
      <4>4. \A i \in DOMAIN queue : ~EntryOfFiber(i, f)
        BY <1>3, HoldsHas
      <4>5. \A i \in DOMAIN queue' : ~EntryOfFiber(i, f)'
        BY <1>2, <4>4 DEF EntryOfFiber
      <4> QED
        BY <1>2, <2>1, <2>2, <4>3, <4>5, PlacesNext DEF Places, LeftJob
    <3> QED
      BY <1>7, <3>1, <3>2
  <2> QED
    BY <1>5, <2>2, <2>3, <2>4, PoolSame DEF Same
<1> QED
  BY <1>6, <1>7

(* stop() returns when no job waits and none runs.                         *)
LEMMA CloseSeen ==
  ASSUME Whole, Whole', QueueDrained', ownerPc # "stopped", ownerPc' = "stopped",
         UNCHANGED <<queue, pc, ft, cbFiber, fstate, fjob, submitted, ended>>
  PROVE  Pool!Close
<1> USE DEF Whole
<1>1. queue = <<>> /\ \A t \in Threads : pc[t] \in {"off", "exited"}
  BY DEF QueueDrained
<1>2. ASSUME NEW k \in Jobs PROVE StatusOf(k) \notin {"waiting", "running"} /\ Same(k)
  <2>1. \A t \in Threads : ~RunsIt(t, k) /\ ~HandsIt(t, k)
    BY <1>1 DEF RunsIt, HandsIt
  <2>2. ~Waiting(k)
    BY <1>1, <2>1 DEF Waiting, InQueue
  <2>3. StatusOf(k) \in {"new", "over", "suspended"}
    BY <2>1, <2>2, StatusCases DEF JobsRead, StatusRead, JobInv
  <2>4. Same(k)
    BY SameFrame
  <2> QED
    BY <2>3, <2>4
<1>3. /\ [k \in Jobs |-> StatusOf(k)]' = [k \in Jobs |-> StatusOf(k)]
      /\ [k \in Jobs |-> RunnersOf(k)]' = [k \in Jobs |-> RunnersOf(k)]
  BY <1>2 DEF Same
<1> QED
  BY <1>2, <1>3 DEF Pool!Close

(* The steps of a thread.                                                  *)
LEMMA ThreadSeen ==
  ASSUME Wakers = {}, Whole, Whole', QueueDrained, NEW t \in Threads, LoopStep(t) \/ TaskStep(t)
  PROVE  Pool!Next \/ UNCHANGED Pool!vars
<1> USE DEF Whole
<1>1. /\ ownerPc' = ownerPc /\ pc[t] \notin {"off", "exited"}
      /\ \A u \in Threads \ {t} : ft'[u] = ft[u] /\ cbFiber'[u] = cbFiber[u] /\ pc'[u] = pc[u]
  BY ThreadFrame
<1>2. ownerPc # "stopped" /\ ownerPc' # "stopped"
  BY <1>1 DEF QueueDrained
<1>3. CASE Take(t)
  BY <1>1, <1>3, SameTake, PoolSame
<1>4. CASE Requeue(t)
  BY <1>1, <1>4, SameRequeue, PoolSame
<1>5. CASE FindNothing(t) \/ EnterIdle(t) \/ LeaveLoop(t) \/ Idle(t)
  <2>1. UNCHANGED <<queue, fstate, fjob, submitted, ended>>
    BY <1>5 DEF FindNothing, EnterIdle, LeaveLoop, Idle, fiberVars, jobVars
  <2>2. /\ ~OnCoroutine(t) /\ ~OnCoroutine(t)'
        /\ ft[t].kind \notin {"fiber", "cb"} /\ ft'[t].kind \notin {"fiber", "cb"}
    BY <1>5
    DEF FindNothing, EnterIdle, LeaveLoop, Idle, HandOf, OnCoroutine, TypeInv, TypeOK,
        JobInv, EntryInHand, NoEntry
  <2>3. \A k \in Jobs : Same(k)
    BY <1>1, <2>1, <2>2, SameFrame
  <2> QED
    BY <1>1, <2>3, PoolSame
<1>6. CASE SwapInFiber(t)
  BY <1>2, <1>6, SwapInSeen DEF Pool!Next
<1>7. ~DropFinished(t)
  BY DEF DropFinished, JobInv, StatesFit, FitOf, Startable, Over
<1>8. CASE RunCallback(t)
  BY <1>2, <1>8, CallbackSeen DEF Pool!Next
<1>9. CASE SwapOut(t)
  BY <1>1, <1>2, <1>9, SwapOutSeen DEF Pool!Next
<1>10. CASE Release(t) \/ FindsHold(t) \/ Park(t)
  BY <1>1, <1>10, SettleSeen
<1>11. ASSUME NEW j \in Jobs, NEW u \in TaskPins, TaskSchedule(t, j, u)
       PROVE  Pool!Next
  <2>1. Pool!Submit(j)
    BY <1>1, <1>2, <1>11, SubmitSeen, PinsAssumption DEF TaskSchedule, loopVars, fiberVars
  <2> QED
    BY <2>1 DEF Pool!Next
<1>12. ~\E f \in Fibers : Wake(t, f)
  BY DEF Wake
<1>13. CASE YieldReady(t) \/ YieldHold(t) \/ Finish(t) \/ Throw(t)
  BY <1>1, <1>2, <1>13, TaskSeen DEF Pool!Next
<1> QED
  BY <1>3, <1>4, <1>5, <1>6, <1>7, <1>8, <1>9, <1>10, <1>11, <1>12, <1>13
  DEF LoopStep, TaskStep

(* The steps of the owner.                                                 *)
LEMMA OwnerSeen ==
  ASSUME Whole, Whole', OwnerAhead, QueueDrained', OwnerStep
  PROVE  Pool!Next \/ UNCHANGED Pool!vars
<1> USE DEF Whole
<1>1. ASSUME NEW j \in Jobs, NEW u \in OwnerPins, OwnerSchedule(j, u) PROVE Pool!Next
  <2>1. ownerPc # "stopped" /\ UNCHANGED <<pc, ft, cbFiber, fstate, fjob, ended, ownerPc>>
    BY <1>1 DEF OwnerSchedule, stopVars, loopVars, fiberVars
  <2>2. Pool!Submit(j)
    BY <1>1, <2>1, SubmitSeen, PinsAssumption DEF OwnerSchedule
  <2> QED
    BY <2>2 DEF Pool!Next
<1>2. CASE StopAtOnce \/ Join
  <2>1. /\ ownerPc # "stopped" /\ ownerPc' = "stopped"
        /\ UNCHANGED <<queue, pc, ft, cbFiber, fstate, fjob, submitted, ended>>
    BY <1>2 DEF StopAtOnce, Join, loopVars, fiberVars, jobVars
  <2> QED
    BY <2>1, CloseSeen DEF Pool!Next
<1>3. CASE Start \/ StopBegin \/ EnterRoot \/ SkipRoot \/ LeaveRoot
  <2>1. /\ UNCHANGED <<queue, ft, cbFiber, fstate, fjob, submitted, ended>>
        /\ ownerPc # "stopped" /\ ownerPc' # "stopped"
    BY <1>3 DEF Start, StopBegin, EnterRoot, SkipRoot, LeaveRoot, loopVars, fiberVars, jobVars
  <2>2. \A t \in Threads : pc'[t] = pc[t] \/ (pc[t] = "off" /\ pc'[t] = "scan")
    BY <1>3, ThreadsAssumption
    DEF Start, StopBegin, EnterRoot, SkipRoot, LeaveRoot, loopVars, TypeInv, TypeOK,
        OwnerAhead, Threads
  <2>3. \A t \in Threads : pc[t] = "off" => ft[t].kind \notin {"fiber", "cb"}
    BY DEF JobInv, EntryInHand, HandOf, OnCoroutine
  <2>4. \A k \in Jobs : Same(k)
    BY <2>1, <2>2, <2>3, SameFrame DEF OnCoroutine
  <2> QED
    BY <2>1, <2>4, PoolSame
<1> QED
  BY <1>1, <1>2, <1>3 DEF OwnerStep, StopStep

(* A pool that is made has no job and is open.                             *)
LEMMA PoolInit == Init => Pool!Init
<1> SUFFICES ASSUME Init PROVE Pool!Init
  OBVIOUS
<1>1. Whole
  BY TypingInit, ExclusionInit, JobInit DEF Whole
<1>2. submitted = {} /\ ownerPc # "stopped"
  BY DEF Init
<1>3. \A k \in Jobs : StatusOf(k) = "new" /\ RunnersOf(k) = {}
  BY <1>1, <1>2, PlacesHold DEF Whole, Places
<1> QED
  BY <1>2, <1>3 DEF Pool!Init

(* The scheduler implements TaskPool, for every number of threads and      *)
(* jobs, when coroutines get back into the queue only from run() and jobs  *)
(* pin none: whatever the threads do, a job is submitted once, run by one  *)
(* thread at a time until its context is saved, taken up again or not, and *)
(* over once; and stop() returns only when none waits and none runs.       *)
THEOREM Implements ==
  ASSUME Wakers = {}, TaskPins \subseteq {AnyThread}
  PROVE  Spec => ImplementsTaskPool
<1>1. Init => OwnerAhead /\ Exclusion /\ JobInv
  BY ExclusionInit, JobInit DEF Init, OwnerAhead
<1>2. TypeInv /\ OwnerAhead /\ Exclusion /\ JobInv /\ [Next]_vars
        => (OwnerAhead /\ Exclusion /\ JobInv)'
  BY OwnerAheadStep, ExclusionStep, JobStep, WithoutWakers
<1>3. /\ TypeInv /\ OwnerAhead /\ Exclusion /\ JobInv /\ QueueDrained
      /\ (TypeInv /\ OwnerAhead /\ Exclusion /\ JobInv /\ QueueDrained)'
      /\ [Next]_vars
      => [Pool!Next]_(Pool!vars)
  <2> SUFFICES ASSUME Whole, Whole', OwnerAhead, QueueDrained, QueueDrained', [Next]_vars
               PROVE  Pool!Next \/ UNCHANGED Pool!vars
    BY DEF Whole
  <2>1. CASE UNCHANGED vars
    <3>1. /\ UNCHANGED <<queue, fstate, fjob, submitted, ended, ownerPc>>
          /\ \A t \in Threads : UNCHANGED <<pc[t], ft[t], cbFiber[t]>>
      BY <2>1 DEF vars, loopVars, fiberVars, jobVars, stopVars
    <3>2. \A k \in Jobs : Same(k)
      BY <3>1, SameFrame DEF Whole
    <3> QED
      BY <3>1, <3>2, PoolSame
  <2> QED
    BY <2>1, ThreadSeen, OwnerSeen DEF Next, Terminated
<1> QED
  BY <1>1, <1>2, <1>3, PoolInit, Typing, Drained, PTL DEF Spec, Pool!Spec, ImplementsTaskPool

=============================================================================
