------------------------------ MODULE TaskPool ------------------------------
(***************************************************************************)
(* What the scheduler promises the owner of a pool and the authors of      *)
(* jobs, with no queue, no coroutine and no loop: a job is submitted once, *)
(* is run by one thread at a time, may be suspended and taken up again,    *)
(* perhaps by another thread, and is over once; and the pool is closed     *)
(* only when no job waits and none runs.                                   *)
(***************************************************************************)
CONSTANTS Jobs, Threads

VARIABLES
  status,   \* of each job
  runners,  \* the threads that run each job
  closed    \* whether stop() has returned

vars == <<status, runners, closed>>

Statuses == {"new", "waiting", "running", "suspended", "over"}

Init ==
  /\ status = [j \in Jobs |-> "new"]
  /\ runners = [j \in Jobs |-> {}]
  /\ closed = FALSE

Move(j, from, to) ==
  /\ ~closed
  /\ status[j] \in from
  /\ status' = [status EXCEPT ![j] = to]
  /\ UNCHANGED closed

Submit(j) == Move(j, {"new"}, "waiting") /\ UNCHANGED runners

Run(j, t) ==
  /\ Move(j, {"waiting"}, "running")
  /\ \A k \in Jobs : t \notin runners[k]
  /\ runners' = [runners EXCEPT ![j] = {t}]

Leave(j, to) ==
  /\ Move(j, {"running"}, to)
  /\ runners' = [runners EXCEPT ![j] = {}]

Resume(j) == Move(j, {"suspended"}, "waiting") /\ UNCHANGED runners

Close ==
  /\ ~closed
  /\ \A j \in Jobs : status[j] \notin {"waiting", "running"}
  /\ closed' = TRUE
  /\ UNCHANGED <<status, runners>>

Next ==
  \/ \E j \in Jobs : \/ Submit(j) \/ Resume(j)
                     \/ \E t \in Threads : Run(j, t)
                     \/ \E to \in {"waiting", "suspended", "over"} : Leave(j, to)
  \/ Close

Spec == Init /\ [][Next]_vars
=============================================================================
