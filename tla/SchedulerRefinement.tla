------------------------ MODULE SchedulerRefinement ------------------------
(***************************************************************************)
(* The scheduler implements TaskPool.  A job's status is read off the      *)
(* queue, the entries the threads have in hand and the coroutines: a job   *)
(* is running until the context of its coroutine is saved, so a thread     *)
(* that takes the coroutine up too early makes a second runner, which      *)
(* TaskPool does not allow.                                                *)
(***************************************************************************)
EXTENDS Scheduler

RunnersOf(j) ==
  IF j \in ended THEN {}
  ELSE {t \in Threads : pc[t] \in {"run", "swapOut"} /\ fjob[OnFiber(t)] = j}

InHand(j) ==
  \E t \in Threads :
    \/ pc[t] = "dispatch" /\ EntryOf(ft[t], j)
    \/ pc[t] = "settle" /\ fjob[OnFiber(t)] = j /\ fstate[OnFiber(t)] = "READY"

StatusOf(j) ==
  CASE j \notin submitted                  -> "new"
    [] j \in ended                         -> "over"
    [] j \in submitted \ ended
       /\ RunnersOf(j) # {}                -> "running"
    [] j \in submitted \ ended
       /\ RunnersOf(j) = {}
       /\ (QueuedFor(j) # {} \/ InHand(j)) -> "waiting"
    [] OTHER                               -> "suspended"

Pool == INSTANCE TaskPool WITH
  status  <- [j \in Jobs |-> StatusOf(j)],
  runners <- [j \in Jobs |-> RunnersOf(j)],
  closed  <- ownerPc = "stopped"

(* Every behaviour of the scheduler is one of the abstract pool: no job is *)
(* run twice, by two threads at once, or left behind by stop().            *)
ImplementsTaskPool == Pool!Spec
=============================================================================
