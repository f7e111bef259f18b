--------------------------- MODULE ExclusionProofs ---------------------------
(***************************************************************************)
(* One thread per coroutine, for every number of threads and jobs, when no *)
(* job schedules a coroutine that it did not get from run(): then a        *)
(* coroutine has one entry in the queue, or one thread, or neither.        *)
(***************************************************************************)
EXTENDS SchedulerProofs

USE DEF Fibers

(* The coroutines thread t may switch to: the one of its entry, and the    *)
(* one it keeps for callbacks.                                             *)
Has(t, f) == (ft[t].kind = "fiber" /\ ft[t].id = f) \/ cbFiber[t] = f

EntryOfCallback(i, j) == queue[i].kind = "cb" /\ queue[i].id = j
HasCallback(t, j) == ft[t].kind = "cb" /\ ft[t].id = j

OneThreadHasIt ==
  /\ \A t, u \in Threads, f \in Fibers : Has(t, f) /\ Has(u, f) => t = u
  /\ \A t \in Threads : ft[t].kind = "fiber" => ft[t].id # cbFiber[t]

OneEntry ==
  /\ \A i, k \in DOMAIN queue :
       queue[i].kind = queue[k].kind /\ queue[i].id = queue[k].id => i = k
  /\ \A t \in Threads, f \in Fibers :
       Has(t, f) => \A i \in DOMAIN queue : ~EntryOfFiber(i, f)

(* Nobody has a job before it is submitted.                                *)
UnsubmittedNowhere ==
  \A j \in Jobs \ submitted :
    /\ \A i \in DOMAIN queue : queue[i].id # j
    /\ \A t \in Threads : ft[t].id # j /\ cbFiber[t] # j
    /\ fstate[j] = (IF j \in Coroutines THEN "INIT" ELSE "NONE")

(* A callback is in one place, until run() makes or takes a coroutine for  *)
(* it; and a coroutine that is not made is nowhere.                        *)
CallbackOnce ==
  \A j \in Callbacks :
    /\ \A t, u \in Threads : HasCallback(t, j) /\ HasCallback(u, j) => t = u
    /\ \A t \in Threads : HasCallback(t, j) => \A i \in DOMAIN queue : ~EntryOfCallback(i, j)
    /\ (\E t \in Threads : HasCallback(t, j)) \/ (\E i \in DOMAIN queue : EntryOfCallback(i, j))
         => fstate[j] = "NONE"
NotMadeNowhere ==
  \A j \in Jobs : fstate[j] = "NONE" =>
    /\ j \in Callbacks
    /\ \A t \in Threads : ~Has(t, j)
    /\ \A i \in DOMAIN queue : ~EntryOfFiber(i, j)

OnCoroutine(t) == pc[t] \in {"run", "swapOut", "settle", "park"}

(* The coroutine kept for callbacks was reset, unless the thread is on it. *)
KeptIsReset ==
  \A t \in Threads :
    /\ cbFiber[t] # NoJob
    /\ ~OnCoroutine(t) \/ ft[t].kind = "fiber"
    => fstate[cbFiber[t]] = "INIT"

Exclusion ==
  /\ OneThreadHasIt /\ OneEntry /\ UnsubmittedNowhere
  /\ CallbackOnce /\ NotMadeNowhere /\ KeptIsReset

-----------------------------------------------------------------------------
(* A constructor leaves no thread with a coroutine.                        *)
LEMMA ExclusionInit == Init => Exclusion
<1> SUFFICES ASSUME Init PROVE Exclusion
  OBVIOUS
<1> USE DEF Has, HasCallback, EntryOfCallback, EntryOfFiber
<1>1. /\ DOMAIN queue = {}
      /\ \A t \in Threads : ft[t].kind = "none" /\ ft[t].id = NoJob /\ cbFiber[t] = NoJob
      /\ \A f \in Jobs : fstate[f] = IF f \in Coroutines THEN "INIT" ELSE "NONE"
  BY DEF Init, NoEntry
<1>2. \A f \in Jobs : f # NoJob
  BY JobsAssumption
<1>3. OneThreadHasIt /\ OneEntry /\ UnsubmittedNowhere
  BY <1>1, <1>2 DEF OneThreadHasIt, OneEntry, UnsubmittedNowhere
<1>4. CallbackOnce
  BY <1>1 DEF CallbackOnce
<1>5. NotMadeNowhere /\ KeptIsReset
  BY <1>1, <1>2 DEF NotMadeNowhere, KeptIsReset, Jobs
<1> QED
  BY <1>3, <1>4, <1>5 DEF Exclusion

(* A step that leaves alone the queue, what the threads have and the       *)
(* states of the coroutines.                                               *)
LEMMA ExclusionFrame ==
  ASSUME Exclusion, UNCHANGED <<queue, ft, cbFiber, fstate, submitted>>,
         \A t \in Threads : OnCoroutine(t) => OnCoroutine(t)'
  PROVE  Exclusion'
<1> USE DEF Has, HasCallback, EntryOfCallback, EntryOfFiber
<1>1. (OneThreadHasIt /\ OneEntry)'
  BY DEF Exclusion, OneThreadHasIt, OneEntry
<1>2. (UnsubmittedNowhere /\ CallbackOnce /\ NotMadeNowhere)'
  BY DEF Exclusion, UnsubmittedNowhere, CallbackOnce, NotMadeNowhere
<1>3. KeptIsReset'
  BY DEF Exclusion, KeptIsReset
<1> QED
  BY <1>1, <1>2, <1>3 DEF Exclusion

(* schedule() of a job that was not submitted before.                      *)
LEMMA ExclusionSubmit ==
  ASSUME TypeInv, Exclusion, NEW j \in Jobs, NEW u \in Threads \cup {AnyThread},
         Submit(j, u), UNCHANGED <<ft, cbFiber, fstate, pc>>
  PROVE  Exclusion'
<1> DEFINE e == JobEntry(j, u)
           n == Len(queue)
<1> USE DEF Has, HasCallback, EntryOfCallback, EntryOfFiber
<1>1. /\ e \in Entries /\ e.id = j
      /\ e.kind = IF j \in Coroutines THEN "fiber" ELSE "cb"
  BY EntryTypes DEF JobEntry
<1>2. /\ queue \in Seq(Entries) /\ n \in Nat /\ DOMAIN queue = 1..n
      /\ queue' \in Seq(Entries) /\ DOMAIN queue' = 1..(n + 1)
      /\ \A i \in 1..n : queue'[i] = queue[i]
      /\ queue'[n + 1] = e
  BY <1>1, AppendEntries DEF TypeInv, TypeOK, Submit
<1>3. j \notin submitted /\ submitted' = submitted \cup {j}
  BY DEF Submit
<1>4. /\ \A i \in DOMAIN queue : queue[i].id # j
      /\ \A t \in Threads : ft[t].id # j /\ cbFiber[t] # j
      /\ fstate[j] = (IF j \in Coroutines THEN "INIT" ELSE "NONE")
  BY <1>3 DEF Exclusion, UnsubmittedNowhere
<1> HIDE DEF e, n
<1>5. OneThreadHasIt' /\ KeptIsReset'
  BY DEF Exclusion, OneThreadHasIt, KeptIsReset, OnCoroutine
<1>6. OneEntry'
  BY <1>1, <1>2, <1>4 DEF Exclusion, OneEntry
<1>7. UnsubmittedNowhere'
  BY <1>1, <1>2, <1>3 DEF Exclusion, UnsubmittedNowhere
<1>8. CallbackOnce'
  BY <1>1, <1>2, <1>4 DEF Exclusion, CallbackOnce, Jobs
<1>9. NotMadeNowhere'
  BY <1>1, <1>2, <1>4 DEF Exclusion, NotMadeNowhere
<1> QED
  BY <1>5, <1>6, <1>7, <1>8, <1>9 DEF Exclusion

(* Thread t forgets a coroutine, or changes the state of one it has: the   *)
(* one it keeps is reset unless it is on it.                               *)
LEMMA ExclusionForget ==
  ASSUME TypeInv, Exclusion, NEW t \in Threads,
         UNCHANGED <<queue, submitted>>,
         \A u \in Threads \ {t} : ft'[u] = ft[u] /\ cbFiber'[u] = cbFiber[u] /\ pc'[u] = pc[u],
         ft'[t] \in {ft[t], NoEntry}, cbFiber'[t] \in {cbFiber[t], NoJob},
         \A f \in Fibers : fstate'[f] = fstate[f] \/ (Has(t, f) /\ fstate'[f] # "NONE"),
         cbFiber'[t] # NoJob /\ (~OnCoroutine(t)' \/ ft'[t].kind = "fiber")
           => fstate'[cbFiber'[t]] = "INIT"
  PROVE  Exclusion'
<1> USE DEF Has, HasCallback, EntryOfCallback, EntryOfFiber
<1>1. /\ NoEntry.kind = "none" /\ NoEntry.id = NoJob
      /\ \A f \in Jobs : f # NoJob
  BY JobsAssumption DEF NoEntry
<1>2. /\ \A u \in Threads, f \in Jobs : Has(u, f)' => Has(u, f)
      /\ \A u \in Threads, j \in Jobs : HasCallback(u, j)' => HasCallback(u, j)
  BY <1>1
<1>3. OneThreadHasIt' /\ OneEntry'
  <2>1. \A u \in Threads : cbFiber[u] \in Jobs \cup {NoJob}
    BY DEF TypeInv, TypeOK, Jobs
  <2>2. \A u \in Threads : ft'[u].kind = "fiber" => ft'[u] = ft[u] /\ ft[u].id \in Jobs
    BY <1>1, EntryTypes DEF TypeInv, TypeOK
  <2>3. OneThreadHasIt'
    BY <1>1, <1>2, <2>1, <2>2 DEF Exclusion, OneThreadHasIt
  <2> QED
    BY <1>2, <2>3 DEF Exclusion, OneEntry
<1>4. UnsubmittedNowhere'
  BY <1>1 DEF Exclusion, UnsubmittedNowhere
<1>5. CallbackOnce'
  BY <1>2 DEF Exclusion, CallbackOnce, NotMadeNowhere, Jobs
<1>6. NotMadeNowhere'
  BY <1>2 DEF Exclusion, NotMadeNowhere
<1>7. KeptIsReset'
  <2> SUFFICES ASSUME NEW u \in Threads \ {t}, cbFiber[u] # NoJob,
                      ~OnCoroutine(u) \/ ft[u].kind = "fiber"
               PROVE  fstate'[cbFiber[u]] = "INIT"
    BY DEF KeptIsReset, OnCoroutine
  <2>1. cbFiber[u] \in Fibers /\ fstate[cbFiber[u]] = "INIT"
    BY DEF Exclusion, KeptIsReset, TypeInv, TypeOK, Jobs
  <2>2. Has(u, cbFiber[u]) /\ ~Has(t, cbFiber[u])
    BY <2>1 DEF Exclusion, OneThreadHasIt
  <2> QED
    BY <2>1, <2>2
<1> QED
  BY <1>3, <1>4, <1>5, <1>6, <1>7 DEF Exclusion

(* Taking an entry out of the queue.                                       *)
LEMMA ExclusionTake ==
  ASSUME TypeInv, Exclusion, NEW t \in Threads, Take(t)
  PROVE  Exclusion'
<1> USE DEF Has, HasCallback, EntryOfCallback, EntryOfFiber
<1>1. PICK i \in DOMAIN queue : /\ ft' = [ft EXCEPT ![t] = queue[i]]
                                /\ queue' = RemoveAt(queue, i)
  BY DEF Take
<1> DEFINE e == queue[i]
           From(k) == IF k < i THEN k ELSE k + 1
<1>2. /\ DOMAIN queue = 1..Len(queue) /\ Len(queue) \in Nat
      /\ DOMAIN queue' = 1..(Len(queue) - 1)
      /\ \A k \in DOMAIN queue' : queue'[k] = IF k < i THEN queue[k] ELSE queue[k + 1]
  <2>1. queue \in Seq(Entries)
    BY DEF TypeInv, TypeOK
  <2>2. /\ queue' \in Seq(Entries) /\ Len(queue') = Len(queue) - 1
        /\ \A k \in 1..(Len(queue) - 1) : queue'[k] = IF k < i THEN queue[k] ELSE queue[k + 1]
    BY <1>1, <2>1, RemoveAtEntries
  <2> QED
    BY <2>1, <2>2
<1>3. /\ \A k \in DOMAIN queue' : /\ From(k) \in DOMAIN queue /\ From(k) # i
                                  /\ queue'[k] = queue[From(k)]
      /\ \A k, m \in DOMAIN queue' : From(k) = From(m) => k = m
  BY <1>1, <1>2
<1>4. /\ UNCHANGED <<cbFiber, fstate, submitted>>
      /\ pc' = [pc EXCEPT ![t] = "dispatch"] /\ pc[t] = "scan"
  BY DEF Take, fiberVars, jobVars
<1>5. /\ ft'[t] = e
      /\ \A u \in Threads \ {t} : ft'[u] = ft[u] /\ pc'[u] = pc[u]
      /\ pc'[t] = "dispatch"
  BY <1>1, <1>4 DEF TypeInv, TypeOK
<1>6. e \in Entries /\ e.id \in Jobs
  BY EntryTypes DEF TypeInv, TypeOK
<1> HIDE DEF From, e
<1>7. /\ \A u \in Threads, f \in Jobs :
           Has(u, f)' <=> IF u = t THEN (e.kind = "fiber" /\ e.id = f) \/ cbFiber[t] = f
                                   ELSE Has(u, f)
      /\ \A u \in Threads, j \in Jobs :
           HasCallback(u, j)' <=> IF u = t THEN e.kind = "cb" /\ e.id = j ELSE HasCallback(u, j)
  BY <1>4, <1>5
<1>8. /\ \A f \in Jobs : e.kind = "fiber" /\ e.id = f =>
           /\ EntryOfFiber(i, f)
           /\ \A u \in Threads : ~Has(u, f)
           /\ \A k \in DOMAIN queue : EntryOfFiber(k, f) => k = i
      /\ \A j \in Callbacks : e.kind = "cb" /\ e.id = j =>
           /\ EntryOfCallback(i, j)
           /\ \A u \in Threads : ~HasCallback(u, j)
           /\ \A k \in DOMAIN queue : EntryOfCallback(k, j) => k = i
  BY DEF e, Exclusion, OneEntry, CallbackOnce
<1>9. OneThreadHasIt'
  <2>1. \A u \in Threads : cbFiber[u] # e.id \/ e.kind # "fiber"
    BY <1>6, <1>8
  <2>2. \A u \in Threads : ft'[u].kind = "fiber" => ft'[u].id # cbFiber'[u]
    BY <1>4, <1>5, <2>1 DEF Exclusion, OneThreadHasIt
  <2>3. \A u, v \in Threads, f \in Fibers : Has(u, f)' /\ Has(v, f)' => u = v
    BY <1>7, <1>8 DEF Exclusion, OneThreadHasIt
  <2> QED
    BY <2>2, <2>3 DEF OneThreadHasIt
<1>10. OneEntry'
  <2>1. \A k, m \in DOMAIN queue' :
          queue'[k].kind = queue'[m].kind /\ queue'[k].id = queue'[m].id => k = m
    BY <1>3 DEF Exclusion, OneEntry
  <2>2. ASSUME NEW u \in Threads, NEW f \in Fibers, Has(u, f)', NEW k \in DOMAIN queue'
        PROVE  ~EntryOfFiber(k, f)'
    BY <1>3, <1>7, <1>8, <2>2 DEF Exclusion, OneEntry
  <2> QED
    BY <2>1, <2>2 DEF OneEntry
<1>11. UnsubmittedNowhere'
  BY <1>3, <1>4, <1>5 DEF e, Exclusion, UnsubmittedNowhere
<1>12. CallbackOnce'
  <2> SUFFICES ASSUME NEW j \in Callbacks
               PROVE  /\ \A u, v \in Threads : HasCallback(u, j)' /\ HasCallback(v, j)' => u = v
                      /\ \A u \in Threads : HasCallback(u, j)' =>
                           \A k \in DOMAIN queue' : ~EntryOfCallback(k, j)'
                      /\ (\E u \in Threads : HasCallback(u, j)')
                           \/ (\E k \in DOMAIN queue' : EntryOfCallback(k, j)')
                         => fstate'[j] = "NONE"
    BY DEF CallbackOnce
  <2>1. j \in Jobs
    BY DEF Jobs
  <2>2. \A u, v \in Threads : HasCallback(u, j)' /\ HasCallback(v, j)' => u = v
    BY <1>7, <1>8, <2>1 DEF Exclusion, CallbackOnce
  <2>3. \A k \in DOMAIN queue' : EntryOfCallback(k, j)' => EntryOfCallback(From(k), j)
    BY <1>3
  <2>4. \A u \in Threads : HasCallback(u, j)' => \A k \in DOMAIN queue' : ~EntryOfCallback(k, j)'
    BY <1>3, <1>7, <1>8, <2>1, <2>3 DEF Exclusion, CallbackOnce
  <2>5. (\E u \in Threads : HasCallback(u, j)') \/ (\E k \in DOMAIN queue' : EntryOfCallback(k, j)')
          => (\E u \in Threads : HasCallback(u, j)) \/ (\E k \in DOMAIN queue : EntryOfCallback(k, j))
    BY <1>3, <1>7, <1>8, <2>1, <2>3
  <2> QED
    BY <1>4, <2>2, <2>4, <2>5 DEF Exclusion, CallbackOnce
<1>13. NotMadeNowhere'
  BY <1>3, <1>4, <1>7, <1>8 DEF Exclusion, NotMadeNowhere
<1>14. KeptIsReset'
  BY <1>4, <1>5 DEF Exclusion, KeptIsReset, OnCoroutine
<1> QED
  BY <1>9, <1>10, <1>11, <1>12, <1>13, <1>14 DEF Exclusion

(* Making a coroutine for a callback.                                      *)
LEMMA ExclusionNewFiber ==
  ASSUME TypeInv, Exclusion, NEW t \in Threads, RunCallback(t), cbFiber[t] = NoJob
  PROVE  Exclusion'
<1> USE DEF Has, HasCallback, EntryOfCallback, EntryOfFiber
<1> DEFINE f == ft[t].id
<1>1. /\ ft[t] \in Entries /\ ft[t].kind = "cb" /\ f \in Callbacks /\ f \in Jobs /\ f # NoJob
  BY EntryTypes, JobsAssumption DEF RunCallback, TypeInv, TypeOK
<1>2. /\ UNCHANGED <<queue, submitted>>
      /\ fstate'[f] = "EXEC" /\ \A g \in Jobs \ {f} : fstate'[g] = fstate[g]
      /\ ft'[t] = NoEntry /\ cbFiber'[t] = f /\ pc'[t] = "run"
      /\ \A u \in Threads \ {t} : ft'[u] = ft[u] /\ cbFiber'[u] = cbFiber[u] /\ pc'[u] = pc[u]
  BY <1>1 DEF RunCallback, TypeInv, TypeOK, jobVars
<1>3. NoEntry.kind = "none" /\ NoEntry.id = NoJob
  BY DEF NoEntry
<1>4. HasCallback(t, f) /\ fstate[f] = "NONE"
  BY <1>1 DEF Exclusion, CallbackOnce
<1>5. /\ \A u \in Threads : ~Has(u, f)
      /\ \A i \in DOMAIN queue : ~EntryOfFiber(i, f) /\ ~EntryOfCallback(i, f)
      /\ \A u \in Threads \ {t} : ~HasCallback(u, f)
      /\ f \in submitted
  BY <1>1, <1>4 DEF Exclusion, CallbackOnce, NotMadeNowhere, UnsubmittedNowhere
<1> HIDE DEF f
<1>6. /\ \A u \in Threads, g \in Jobs : Has(u, g)' <=> IF u = t THEN g = f ELSE Has(u, g)
      /\ \A u \in Threads, j \in Jobs : HasCallback(u, j)' => u # t /\ j # f /\ HasCallback(u, j)
  BY <1>2, <1>3, <1>5
<1>7. OneThreadHasIt'
  <2>1. \A u, v \in Threads, g \in Fibers : Has(u, g)' /\ Has(v, g)' => u = v
    BY <1>5, <1>6 DEF Exclusion, OneThreadHasIt
  <2>2. \A u \in Threads : ft'[u].kind = "fiber" => ft'[u].id # cbFiber'[u]
    BY <1>2, <1>3 DEF Exclusion, OneThreadHasIt
  <2> QED
    BY <2>1, <2>2 DEF OneThreadHasIt
<1>8. OneEntry'
  BY <1>2, <1>5, <1>6 DEF Exclusion, OneEntry
<1>9. UnsubmittedNowhere'
  BY <1>2, <1>3, <1>5 DEF Exclusion, UnsubmittedNowhere
<1>10. CallbackOnce'
  BY <1>2, <1>5, <1>6 DEF Exclusion, CallbackOnce, Jobs
<1>11. NotMadeNowhere'
  BY <1>2, <1>6 DEF Exclusion, NotMadeNowhere
<1>12. KeptIsReset'
  <2> SUFFICES ASSUME NEW u \in Threads \ {t}, cbFiber[u] # NoJob,
                      ~OnCoroutine(u) \/ ft[u].kind = "fiber"
               PROVE  fstate'[cbFiber[u]] = "INIT"
    BY <1>2, <1>3 DEF KeptIsReset, OnCoroutine
  <2>1. cbFiber[u] \in Fibers /\ fstate[cbFiber[u]] = "INIT"
    BY DEF Exclusion, KeptIsReset, TypeInv, TypeOK, Jobs
  <2>2. cbFiber[u] # f
    BY <1>5
  <2> QED
    BY <1>2, <2>1, <2>2
<1> QED
  BY <1>7, <1>8, <1>9, <1>10, <1>11, <1>12 DEF Exclusion

(* Putting a coroutine that yielded back into the queue.                   *)
LEMMA ExclusionRequeue ==
  ASSUME TypeInv, Exclusion, NEW t \in Threads, Requeue(t)
  PROVE  Exclusion'
<1> USE DEF Has, HasCallback, EntryOfCallback, EntryOfFiber
<1> DEFINE f == OnFiber(t)
           e == FiberEntry(f, AnyThread)
           n == Len(queue)
<1>1. f \in Fibers /\ f # NoJob /\ Has(t, f) /\ fstate[f] = "READY"
  BY JobsAssumption DEF Requeue, TypeInv, OnSomeFiber, OnFiber
<1>2. e \in Entries /\ e.kind = "fiber" /\ e.id = f
  BY <1>1, EntryTypes DEF FiberEntry
<1>3. /\ n \in Nat /\ DOMAIN queue = 1..n /\ DOMAIN queue' = 1..(n + 1)
      /\ \A i \in 1..n : queue'[i] = queue[i]
      /\ queue'[n + 1] = e
  BY <1>2, AppendEntries DEF Requeue, TypeInv, TypeOK
<1>4. /\ UNCHANGED <<fstate, submitted>>
      /\ ft'[t] = NoEntry /\ pc'[t] = "scan"
      /\ cbFiber'[t] = IF ft[t].kind = "fiber" THEN cbFiber[t] ELSE NoJob
      /\ \A u \in Threads \ {t} : ft'[u] = ft[u] /\ cbFiber'[u] = cbFiber[u] /\ pc'[u] = pc[u]
  BY DEF Requeue, LetGo, TypeInv, TypeOK, fiberVars, jobVars
<1>5. /\ NoEntry.kind = "none" /\ NoEntry.id = NoJob
      /\ \A j \in Jobs : j # NoJob
  BY JobsAssumption DEF NoEntry
<1>6. /\ \A u \in Threads \ {t} : ~Has(u, f)
      /\ cbFiber'[t] # f
      /\ \A i \in DOMAIN queue : ~EntryOfFiber(i, f)
      /\ f \in submitted
  <2>1. \A u \in Threads \ {t} : ~Has(u, f)
    BY <1>1 DEF Exclusion, OneThreadHasIt
  <2>2. cbFiber'[t] # f
    BY <1>1, <1>4 DEF OnFiber, Exclusion, OneThreadHasIt
  <2>3. \A i \in DOMAIN queue : ~EntryOfFiber(i, f)
    BY <1>1 DEF Exclusion, OneEntry
  <2>4. f \in submitted
    BY <1>1 DEF Exclusion, UnsubmittedNowhere
  <2> QED
    BY <2>1, <2>2, <2>3, <2>4
<1> HIDE DEF f, e, n
<1>7. /\ \A u \in Threads, g \in Jobs : Has(u, g)' => Has(u, g) /\ g # f
      /\ \A u \in Threads, j \in Jobs : HasCallback(u, j)' => HasCallback(u, j)
  BY <1>4, <1>5, <1>6
<1>8. OneThreadHasIt'
  <2>1. \A u, v \in Threads, g \in Fibers : Has(u, g)' /\ Has(v, g)' => u = v
    BY <1>7 DEF Exclusion, OneThreadHasIt
  <2>2. \A u \in Threads : ft'[u].kind = "fiber" => ft'[u].id # cbFiber'[u]
    BY <1>4, <1>5 DEF Exclusion, OneThreadHasIt
  <2> QED
    BY <2>1, <2>2 DEF OneThreadHasIt
<1>9. OneEntry'
  <2>1. \A i, k \in DOMAIN queue' :
          queue'[i].kind = queue'[k].kind /\ queue'[i].id = queue'[k].id => i = k
    BY <1>2, <1>3, <1>6 DEF Exclusion, OneEntry
  <2>2. ASSUME NEW u \in Threads, NEW g \in Fibers, Has(u, g)', NEW k \in DOMAIN queue'
        PROVE  ~EntryOfFiber(k, g)'
    BY <1>2, <1>3, <1>7, <2>2 DEF Exclusion, OneEntry
  <2> QED
    BY <2>1, <2>2 DEF OneEntry
<1>10. UnsubmittedNowhere'
  BY <1>2, <1>3, <1>4, <1>5, <1>6 DEF Exclusion, UnsubmittedNowhere
<1>11. CallbackOnce'
  <2>1. \A j \in Callbacks : j \in Jobs
    BY DEF Jobs
  <2>2. \A j \in Callbacks, i \in DOMAIN queue' :
          EntryOfCallback(i, j)' => i \in DOMAIN queue /\ EntryOfCallback(i, j)
    BY <1>2, <1>3
  <2> QED
    BY <1>4, <1>7, <2>1, <2>2 DEF Exclusion, CallbackOnce
<1>12. NotMadeNowhere'
  BY <1>1, <1>2, <1>3, <1>4, <1>7 DEF Exclusion, NotMadeNowhere
<1>13. KeptIsReset'
  BY <1>4 DEF Exclusion, KeptIsReset, OnCoroutine, Requeue
<1> QED
  BY <1>8, <1>9, <1>10, <1>11, <1>12, <1>13 DEF Exclusion

(* The steps of run() and idle().                                          *)
LEMMA ExclusionLoop ==
  ASSUME TypeInv, Exclusion, NEW t \in Threads, LoopStep(t)
  PROVE  Exclusion'
<1>1. /\ cbFiber[t] # NoJob => cbFiber[t] \in Fibers
      /\ ft[t].kind = "fiber" => ft[t].id \in Fibers /\ ft[t].id # cbFiber[t]
      /\ cbFiber[t] # NoJob /\ (~OnCoroutine(t) \/ ft[t].kind = "fiber") => fstate[cbFiber[t]] = "INIT"
      /\ NoEntry.kind = "none"
  BY EntryTypes DEF Exclusion, OneThreadHasIt, KeptIsReset, TypeInv, TypeOK, Jobs
<1>2. CASE Take(t)
  BY <1>2, ExclusionTake
<1>3. CASE FindNothing(t)
  BY <1>1, <1>3, ExclusionForget DEF FindNothing, TypeInv, TypeOK, OnCoroutine, fiberVars, jobVars
<1>4. CASE SwapInFiber(t)
  BY <1>1, <1>4, ExclusionForget DEF SwapInFiber, TypeInv, TypeOK, OnCoroutine, Has, jobVars
<1>5. CASE DropFinished(t)
  BY <1>1, <1>5, ExclusionForget DEF DropFinished, TypeInv, TypeOK, OnCoroutine, fiberVars, jobVars
<1>6. CASE RunCallback(t) /\ cbFiber[t] = NoJob
  BY <1>6, ExclusionNewFiber
<1>7. CASE RunCallback(t) /\ cbFiber[t] # NoJob
  BY <1>1, <1>7, ExclusionForget DEF RunCallback, TypeInv, TypeOK, OnCoroutine, Has, jobVars
<1>8. CASE EnterIdle(t) \/ LeaveLoop(t) \/ Idle(t) \/ SwapOut(t) \/ FindsHold(t)
  BY <1>8, ExclusionFrame
  DEF EnterIdle, LeaveLoop, Idle, SwapOut, FindsHold, TypeInv, TypeOK, OnCoroutine, fiberVars, jobVars
<1>9. CASE Requeue(t)
  BY <1>9, ExclusionRequeue
<1>10. CASE Release(t)
  BY <1>1, <1>10, ExclusionForget
  DEF Release, TypeInv, TypeOK, OnSomeFiber, OnFiber, OnCoroutine, Has, fiberVars, jobVars
<1>11. CASE Park(t)
  BY <1>1, <1>11, ExclusionForget
  DEF Park, LetGo, TypeInv, TypeOK, OnSomeFiber, OnFiber, OnCoroutine, Has, jobVars
<1> QED
  BY <1>2, <1>3, <1>4, <1>5, <1>6, <1>7, <1>8, <1>9, <1>10, <1>11 DEF LoopStep

(* What the code of a job does when it schedules no other coroutine, and a *)
(* step of a scheduler whose jobs do nothing else.                         *)
Works(t) ==
  \/ \E j \in Jobs, u \in TaskPins : TaskSchedule(t, j, u)
  \/ YieldReady(t) \/ YieldHold(t) \/ Finish(t) \/ Throw(t)

QuietStep ==
  OwnerStep \/ (\E t \in Threads : LoopStep(t) \/ Works(t)) \/ UNCHANGED vars

LEMMA WithoutWakers == Wakers = {} /\ [Next]_vars => QuietStep
  BY DEF Next, TaskStep, Wake, Works, QuietStep, Terminated

LEMMA QuietIsNext == QuietStep => [Next]_vars
  BY DEF QuietStep, Works, Next, TaskStep

LEMMA ExclusionTask ==
  ASSUME TypeInv, Exclusion, NEW t \in Threads, Works(t)
  PROVE  Exclusion'
<1>1. ASSUME NEW j \in Jobs, NEW u \in TaskPins, TaskSchedule(t, j, u) PROVE Exclusion'
  BY <1>1, ExclusionSubmit, PinsAssumption DEF TaskSchedule, loopVars, fiberVars
<1>2. CASE YieldReady(t) \/ YieldHold(t) \/ Finish(t) \/ Throw(t)
  <2>1. OnFiber(t) \in Fibers /\ Has(t, OnFiber(t))
    BY <1>2 DEF YieldReady, YieldHold, Yield, Finish, Throw, RunsJob, TypeInv, OnSomeFiber,
       OnFiber, Has
  <2>2. cbFiber[t] # NoJob /\ ft[t].kind = "fiber" =>
          OnFiber(t) # cbFiber[t] /\ cbFiber[t] \in Fibers /\ fstate[cbFiber[t]] = "INIT"
    BY DEF OnFiber, Exclusion, OneThreadHasIt, KeptIsReset, TypeInv, TypeOK, Jobs
  <2> QED
    BY <1>2, <2>1, <2>2, ExclusionForget
    DEF YieldReady, YieldHold, Yield, Finish, Throw, TypeInv, TypeOK, OnCoroutine
<1> QED
  BY <1>1, <1>2 DEF Works

(* Every step keeps the exclusion.                                         *)
LEMMA ExclusionStep ==
  ASSUME TypeInv, OwnerAhead, Exclusion, QuietStep
  PROVE  Exclusion'
<1>1. CASE OwnerStep
  <2>1. CASE \E j \in Jobs, u \in OwnerPins : OwnerSchedule(j, u)
    BY <2>1, ExclusionSubmit, PinsAssumption DEF OwnerSchedule, loopVars, fiberVars
  <2>2. CASE UNCHANGED <<queue, submitted>>
    <3>1. \A t \in Threads : OnCoroutine(t) => OnCoroutine(t)'
      BY <1>1, ThreadsAssumption
      DEF OwnerStep, Start, StopAtOnce, StopBegin, StopStep, EnterRoot, SkipRoot, LeaveRoot,
          Join, OwnerSchedule, loopVars, TypeInv, TypeOK, OwnerAhead, OnCoroutine, Threads
    <3> QED
      BY <1>1, <2>2, <3>1, OwnerFrame, ExclusionFrame DEF fiberVars
  <2> QED
    BY <1>1, <2>1, <2>2, OwnerFrame
<1>2. CASE UNCHANGED vars
  BY <1>2, ExclusionFrame DEF vars, loopVars, fiberVars, jobVars, OnCoroutine
<1> QED
  BY <1>1, <1>2, ExclusionLoop, ExclusionTask DEF QuietStep

-----------------------------------------------------------------------------
(* A thread on the stack of a coroutine has it, and nobody else does.      *)
LEMMA OneStack == TypeInv /\ Exclusion => OneThreadPerFiber
<1> SUFFICES ASSUME TypeInv, Exclusion, NEW t \in Threads, NEW u \in Threads,
                    pc[t] \in {"run", "swapOut"}, pc[u] \in {"run", "swapOut"},
                    OnFiber(t) = OnFiber(u)
             PROVE  t = u
  BY DEF OneThreadPerFiber
<1>1. OnFiber(t) \in Fibers
  BY DEF TypeInv, OnSomeFiber
<1>2. Has(t, OnFiber(t)) /\ Has(u, OnFiber(t))
  BY DEF OnFiber, Has
<1> QED
  BY <1>1, <1>2 DEF Exclusion, OneThreadHasIt

(* No two threads are on the stack of one coroutine, however many threads  *)
(* there are, when a coroutine gets back into the queue only from run():   *)
(* run() schedules a coroutine that yielded only after it has switched     *)
(* back.  SchedulerWakeRace shows what a job that schedules one can do.    *)
THEOREM OneThread ==
  ASSUME Wakers = {}
  PROVE  Spec => []OneThreadPerFiber
<1>1. TypeInv /\ OwnerAhead /\ Exclusion /\ [Next]_vars => Exclusion'
  BY ExclusionStep, WithoutWakers
<1>2. Init => OwnerAhead
  BY DEF Init, OwnerAhead
<1> QED
  BY <1>1, <1>2, OneStack, OwnerAheadStep, ExclusionInit, Typing, PTL DEF Spec

(* The assertions of swapIn() and reset() never fail, under the same       *)
(* condition: the entry in hand is of a coroutine that no other thread has *)
(* started since the scan, and a kept coroutine has been reset.            *)
THEOREM NoAbort ==
  ASSUME Wakers = {}
  PROVE  Spec => []AssertsHold
<1> DEFINE Inv == OwnerAhead /\ ExecutedByThread /\ Exclusion
<1>1. TypeInv /\ Inv /\ [Next]_vars => Inv'
  BY ExclusionStep, WithoutWakers, OwnerAheadStep, ExecutedStep
<1>2. Init => Inv
  BY ExclusionInit, OrphanInit DEF OrphanInv
<1>3. TypeInv /\ Inv => AssertsHold
  <2> SUFFICES ASSUME TypeInv, Inv, NEW t \in Threads, pc[t] = "dispatch"
               PROVE  /\ ft[t].kind = "fiber" => fstate[ft[t].id] # "EXEC"
                      /\ ft[t].kind = "cb" /\ cbFiber[t] # NoJob => fstate[cbFiber[t]] \in Resettable
    BY DEF AssertsHold
  <2>1. ASSUME ft[t].kind = "fiber", fstate[ft[t].id] = "EXEC" PROVE FALSE
    <3>1. ft[t].id \in Fibers
      BY <2>1, EntryTypes DEF TypeInv, TypeOK
    <3>2. PICK u \in Threads : pc[u] = "run" /\ OnFiber(u) = ft[t].id
      BY <2>1, <3>1 DEF ExecutedByThread
    <3>3. Has(t, ft[t].id) /\ Has(u, ft[t].id)
      BY <2>1, <3>2 DEF OnFiber, Has
    <3> QED
      BY <3>1, <3>2, <3>3 DEF Exclusion, OneThreadHasIt
  <2>2. cbFiber[t] # NoJob => fstate[cbFiber[t]] = "INIT"
    BY DEF Exclusion, KeptIsReset, OnCoroutine
  <2> QED
    BY <2>1, <2>2 DEF Resettable
<1> QED
  BY <1>1, <1>2, <1>3, Typing, PTL DEF Spec

-----------------------------------------------------------------------------
(* One thread alone, whatever the jobs schedule: a stale entry may get the *)
(* coroutine that is kept for callbacks, which is empty then and throws.   *)
KeptAlone ==
  \A t \in Threads : cbFiber[t] # NoJob =>
    /\ ~OnCoroutine(t) => fjob[cbFiber[t]] = NoJob /\ fstate[cbFiber[t]] \in {"INIT", "EXCEPT"}
    /\ OnCoroutine(t) /\ ft[t].kind = "fiber" =>
         /\ fjob[cbFiber[t]] = NoJob
         /\ ft[t].id # cbFiber[t] => fstate[cbFiber[t]] \in {"INIT", "EXCEPT"}
         /\ ft[t].id = cbFiber[t] =>
              fstate[cbFiber[t]] = IF pc[t] = "run" THEN "EXEC" ELSE "EXCEPT"
         /\ ft[t].id = cbFiber[t] => pc[t] # "park"

(* It is kept by every step of the thread.                                 *)
LEMMA AloneStep ==
  ASSUME TypeInv, KeptAlone, NEW t \in Threads, LoopStep(t) \/ TaskStep(t), \A u \in Threads : u = t
  PROVE  KeptAlone'
<1> USE DEF TypeInv, TypeOK
<1> DEFINE f == cbFiber[t]
           Empty == fjob[f] = NoJob /\ fstate[f] \in {"INIT", "EXCEPT"}
<1>1. /\ f # NoJob => f \in Fibers
      /\ ft[t].kind = "fiber" => ft[t].id \in Fibers /\ ft[t].id # NoJob
      /\ NoEntry.kind = "none"
      /\ pc[t] \in {"run", "swapOut", "settle", "park"} => OnFiber(t) \in Fibers
  <2>1. cbFiber[t] \in Callbacks \cup {NoJob} /\ ft[t] \in Entries \cup {NoEntry}
    OBVIOUS
  <2>2. Callbacks \subseteq Fibers /\ NoJob \notin Fibers
    BY JobsAssumption DEF Jobs
  <2>3. ft[t].kind = "fiber" => ft[t] \in Entries
    BY <2>1, EntryTypes
  <2>4. ft[t].kind = "fiber" => ft[t].id \in Fibers /\ ft[t].id # NoJob
    BY <2>2, <2>3, EntryTypes
  <2>5. pc[t] \in {"run", "swapOut", "settle", "park"} => OnFiber(t) \in Fibers
    BY DEF OnSomeFiber
  <2> QED
    BY <2>1, <2>2, <2>4, <2>5, EntryTypes
<1>2. f # NoJob =>
        /\ ~OnCoroutine(t) => Empty
        /\ OnCoroutine(t) /\ ft[t].kind = "fiber" =>
             /\ fjob[f] = NoJob
             /\ ft[t].id # f => Empty
             /\ ft[t].id = f => fstate[f] = (IF pc[t] = "run" THEN "EXEC" ELSE "EXCEPT") /\ pc[t] # "park"
  BY DEF KeptAlone
<1> SUFFICES ASSUME cbFiber'[t] # NoJob
             PROVE  /\ ~OnCoroutine(t)' =>
                         fjob'[cbFiber'[t]] = NoJob /\ fstate'[cbFiber'[t]] \in {"INIT", "EXCEPT"}
                    /\ OnCoroutine(t)' /\ ft'[t].kind = "fiber" =>
                         /\ fjob'[cbFiber'[t]] = NoJob
                         /\ ft'[t].id # cbFiber'[t] => fstate'[cbFiber'[t]] \in {"INIT", "EXCEPT"}
                         /\ ft'[t].id = cbFiber'[t] =>
                              fstate'[cbFiber'[t]] = IF pc'[t] = "run" THEN "EXEC" ELSE "EXCEPT"
                         /\ ft'[t].id = cbFiber'[t] => pc'[t] # "park"
  BY DEF KeptAlone
<1>3. CASE Take(t) \/ FindNothing(t)
  BY <1>1, <1>2, <1>3 DEF Take, FindNothing, OnCoroutine, fiberVars
<1>4. CASE SwapInFiber(t)
  BY <1>1, <1>2, <1>4 DEF SwapInFiber, OnCoroutine
<1>5. CASE DropFinished(t)
  BY <1>1, <1>2, <1>5 DEF DropFinished, OnCoroutine, fiberVars
<1>6. CASE RunCallback(t)
  BY <1>1, <1>2, <1>6 DEF RunCallback, OnCoroutine
<1>7. CASE EnterIdle(t) \/ LeaveLoop(t) \/ Idle(t)
  BY <1>1, <1>2, <1>7 DEF EnterIdle, LeaveLoop, Idle, OnCoroutine, fiberVars
<1>8. CASE SwapOut(t)
  BY <1>1, <1>2, <1>8 DEF SwapOut, OnCoroutine, fiberVars
<1>9. CASE FindsHold(t)
  BY <1>1, <1>2, <1>9 DEF FindsHold, OnCoroutine, OnFiber, Over, fiberVars
<1>10. CASE Requeue(t)
  BY <1>1, <1>2, <1>10 DEF Requeue, LetGo, OnCoroutine, OnFiber, fiberVars
<1>11. CASE Release(t)
  <2>1. ft'[t] = NoEntry /\ pc'[t] = "scan" /\ cbFiber' = cbFiber /\ pc[t] = "settle"
    BY <1>11 DEF Release
  <2>2. OnCoroutine(t) /\ ~OnCoroutine(t)'
    BY <2>1 DEF OnCoroutine
  <2>3. CASE ft[t].kind = "fiber"
    <3>1. UNCHANGED <<fstate, fjob>>
      BY <1>11, <2>3 DEF Release, fiberVars
    <3>2. ft[t].id # f => Empty
      BY <1>2, <2>1, <2>2, <2>3
    <3>3. ft[t].id = f => fstate[f] = "EXCEPT" /\ fjob[f] = NoJob
      BY <1>2, <2>1, <2>2, <2>3
    <3> QED
      BY <2>1, <2>2, <3>1, <3>2, <3>3
  <2>4. CASE ft[t].kind # "fiber"
    <3>1. /\ fstate' = [fstate EXCEPT ![f] = "INIT"]
          /\ fjob' = [fjob EXCEPT ![f] = NoJob]
      BY <1>11, <2>4 DEF Release
    <3>2. fstate'[f] = "INIT" /\ fjob'[f] = NoJob
      BY <1>1, <2>1, <3>1
    <3> QED
      BY <2>1, <2>2, <3>2
  <2> QED
    BY <2>3, <2>4
<1>12. CASE Park(t)
  BY <1>1, <1>2, <1>12 DEF Park, LetGo, OnCoroutine, OnFiber
<1>13. ASSUME NEW j \in Jobs, NEW u \in TaskPins, TaskSchedule(t, j, u)
       PROVE  UNCHANGED <<pc, ft, cbFiber, fstate, fjob>>
  BY <1>13 DEF TaskSchedule, loopVars, fiberVars
<1>14. ASSUME NEW g \in Fibers, Wake(t, g)
       PROVE  UNCHANGED <<pc, ft, cbFiber, fstate, fjob>>
  BY <1>14 DEF Wake, loopVars, fiberVars
<1>15. CASE UNCHANGED <<pc, ft, cbFiber, fstate, fjob>>
  BY <1>2, <1>15 DEF OnCoroutine
<1>16. CASE YieldReady(t) \/ YieldHold(t) \/ Finish(t)
  <2>1. RunsJob(t)
    BY <1>16 DEF YieldReady, YieldHold, Yield, Finish
  <2>2. ft[t].kind = "fiber" /\ f # NoJob => ft[t].id # f
    BY <1>2, <2>1 DEF RunsJob, OnCoroutine, OnFiber
  <2> QED
    BY <1>1, <1>2, <1>16, <2>1, <2>2
    DEF YieldReady, YieldHold, Yield, Finish, RunsJob, OnCoroutine, OnFiber
<1>17. CASE Throw(t)
  BY <1>1, <1>2, <1>17 DEF Throw, OnCoroutine, OnFiber
<1> QED
  BY <1>3, <1>4, <1>5, <1>6, <1>7, <1>8, <1>9, <1>10, <1>11, <1>12, <1>13, <1>14, <1>15, <1>16, <1>17
  DEF LoopStep, TaskStep

(* and by the owner's.                                                     *)
LEMMA AloneNext ==
  ASSUME \A t, u \in Threads : t = u, TypeInv, OwnerAhead, KeptAlone, [Next]_vars
  PROVE  KeptAlone'
<1>1. CASE OwnerStep
  <2>1. UNCHANGED <<ft, cbFiber, fstate, fjob>>
    BY <1>1, OwnerFrame DEF fiberVars
  <2>2. \A t \in Threads : pc'[t] = pc[t] \/ (pc[t] = "off" /\ pc'[t] = "scan")
    BY <1>1, ThreadsAssumption
    DEF OwnerStep, Start, StopAtOnce, StopBegin, StopStep, EnterRoot, SkipRoot, LeaveRoot, Join,
        OwnerSchedule, loopVars, TypeInv, TypeOK, OwnerAhead, Threads
  <2> QED
    BY <2>1, <2>2 DEF KeptAlone, OnCoroutine
<1>2. CASE UNCHANGED vars
  BY <1>2 DEF KeptAlone, OnCoroutine, vars, loopVars, fiberVars
<1> QED
  BY <1>1, <1>2, AloneStep DEF Next, Terminated

(* A thread that is alone never fails an assertion of swapIn() or reset(), *)
(* whatever coroutines the jobs schedule and however often: an entry of a  *)
(* coroutine that is over is dropped, and one of a coroutine that is kept  *)
(* for callbacks finds it empty.                                           *)
THEOREM NoAbortAlone ==
  ASSUME \A t, u \in Threads : t = u
  PROVE  Spec => []AssertsHold
<1> DEFINE Inv == OwnerAhead /\ ExecutedByThread /\ KeptAlone
<1>1. TypeInv /\ Inv /\ [Next]_vars => Inv'
  BY AloneNext, OwnerAheadStep, ExecutedStep
<1>2. Init => Inv
  <2>1. Init => KeptAlone
    BY DEF Init, KeptAlone
  <2> QED
    BY <2>1, OrphanInit DEF OrphanInv
<1>3. TypeInv /\ Inv => AssertsHold
  <2> SUFFICES ASSUME TypeInv, Inv, NEW t \in Threads, pc[t] = "dispatch"
               PROVE  /\ ft[t].kind = "fiber" => fstate[ft[t].id] # "EXEC"
                      /\ ft[t].kind = "cb" /\ cbFiber[t] # NoJob => fstate[cbFiber[t]] \in Resettable
    BY DEF AssertsHold
  <2>1. ft[t].kind = "fiber" => fstate[ft[t].id] # "EXEC"
    <3> SUFFICES ASSUME ft[t].kind = "fiber", fstate[ft[t].id] = "EXEC" PROVE FALSE
      OBVIOUS
    <3>1. ft[t].id \in Fibers
      BY EntryTypes DEF TypeInv, TypeOK
    <3>2. PICK u \in Threads : pc[u] = "run" /\ OnFiber(u) = ft[t].id
      BY <3>1 DEF ExecutedByThread
    <3>3. u = t
      BY <3>2
    <3>4. pc[u] = "run"
      BY <3>2
    <3> QED
      BY <3>3, <3>4
  <2>2. cbFiber[t] # NoJob => fstate[cbFiber[t]] \in {"INIT", "EXCEPT"}
    BY DEF KeptAlone, OnCoroutine
  <2> QED
    BY <2>1, <2>2 DEF Resettable, Over
<1> QED
  BY <1>1, <1>2, <1>3, Typing, PTL DEF Spec

=============================================================================
