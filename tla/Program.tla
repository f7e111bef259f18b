------------------------------ MODULE Program ------------------------------
(***************************************************************************)
(* A program such as tests/test_thread.cpp: one thread makes Thread        *)
(* objects and joins or destroys them.  Their callbacks all do some rounds *)
(* of the same work: they log to a shared file, or they use a shared count *)
(* under the guards of a shared mutex.  The test logs; it declares a count *)
(* and its locks, and the loop that uses them is commented out (lines 5-7  *)
(* and 15-18 there), so the use of the guards is this module's.            *)
(***************************************************************************)
EXTENDS Thread, Locks, LogFile

CONSTANTS
  MaxRounds \* bound: the rounds of a callback

ASSUME ProgramAssumption == MaxRounds \in Nat /\ Holders = Threads /\ Writers = Threads

VARIABLES
  work,   \* what the callbacks do
  rounds, \* the rounds each callback has finished
  step,   \* where each callback is in its round
  seen,   \* what it has read from the count
  count,  \* the count
  adds    \* history: how often a callback has added one to it

callVars == <<work, rounds, step, seen, count, adds>>
vars == <<threadVars, lockVars, fileVars, callVars>>

Init ==
  /\ ThreadInit /\ LockInit /\ FileInit
  /\ work \in {"log", "count"}
  /\ rounds = [t \in Threads |-> 0]
  /\ step = [t \in Threads |-> "idle"]
  /\ seen = [t \in Threads |-> 0]
  /\ count = 0 /\ adds = 0

-----------------------------------------------------------------------------
(* The owner's and run()'s steps; the callback returns between two rounds. *)
Returned(t) == step[t] = "idle" /\ rounds[t] = MaxRounds /\ Return(t)

OwnerStep(t) ==
  /\ Create(t) \/ CreateFails(t) \/ Created(t) \/ Join(t) \/ Joined(t) \/ Destroy(t)
  /\ UNCHANGED <<lockVars, fileVars, callVars>>

RunStep(t) ==
  /\ Prepare(t) \/ Notify(t) \/ Rename(t) \/ Returned(t)
  /\ UNCHANGED <<lockVars, fileVars, callVars>>

-----------------------------------------------------------------------------
(* The callback.                                                           *)
At(t, s) == kernel[t] = "callback" /\ step[t] = s
Goes(t, s) == step' = [step EXCEPT ![t] = s]
Finishes(t) == Goes(t, "idle") /\ rounds' = [rounds EXCEPT ![t] = @ + 1]

(* A round that logs a line.                                               *)
LogBegin(t) ==
  /\ work = "log" /\ At(t, "idle") /\ rounds[t] < MaxRounds
  /\ MakeEvent(t) /\ Goes(t, "logging")
  /\ UNCHANGED <<work, threadVars, lockVars, rounds, seen, count, adds>>

LogStep(t) ==
  /\ At(t, "logging")
  /\ CheckTime(t) \/ Reopen(t) \/ MarkTime(t)
  /\ UNCHANGED <<threadVars, lockVars, callVars>>

LogEnd(t) ==
  /\ At(t, "logging")
  /\ Write(t) /\ Finishes(t)
  /\ UNCHANGED <<work, threadVars, lockVars, seen, count, adds>>

(* A round with a guard, for reading or for writing: it may be unlocked,   *)
(* and locked again, before the count is used; only a writer changes it.   *)
UseBegin(t) ==
  /\ work = "count" /\ At(t, "idle") /\ rounds[t] < MaxRounds
  /\ \E kind \in {"read", "write"} : Goes(t, kind)
  /\ UNCHANGED <<work, threadVars, lockVars, fileVars, rounds, seen, count, adds>>

GuardBegin(t) ==
  /\ At(t, step[t]) /\ step[t] \in {"read", "write"}
  /\ Guard(t, step[t])
  /\ Goes(t, "held")
  /\ UNCHANGED <<work, threadVars, fileVars, rounds, seen, count, adds>>

Drop(t) ==
  /\ At(t, "held")
  /\ Unlock(t) /\ Goes(t, "dropped")
  /\ UNCHANGED <<work, threadVars, fileVars, rounds, seen, count, adds>>

Retake(t) ==
  /\ At(t, "dropped")
  /\ Lock(t) /\ Goes(t, "retaken")
  /\ UNCHANGED <<work, threadVars, fileVars, rounds, seen, count, adds>>

ReadCount(t) ==
  /\ At(t, "held") \/ At(t, "retaken")
  /\ IF guard[t].kind = "write"
     THEN seen' = [seen EXCEPT ![t] = count] /\ Goes(t, "adding")
     ELSE UNCHANGED seen /\ Goes(t, "used")
  /\ UNCHANGED <<work, threadVars, lockVars, fileVars, rounds, count, adds>>

WriteCount(t) ==
  /\ At(t, "adding")
  /\ count' = seen[t] + 1 /\ adds' = adds + 1
  /\ seen' = [seen EXCEPT ![t] = 0]
  /\ Goes(t, "added")
  /\ UNCHANGED <<work, threadVars, lockVars, fileVars, rounds>>

GuardEnd(t) ==
  /\ At(t, "dropped") \/ At(t, "used") \/ At(t, "added")
  /\ Unguard(t) /\ Finishes(t)
  /\ UNCHANGED <<work, threadVars, fileVars, seen, count, adds>>

Callback(t) ==
  \/ LogBegin(t) \/ LogStep(t) \/ LogEnd(t)
  \/ UseBegin(t) \/ GuardBegin(t) \/ Drop(t) \/ Retake(t) \/ ReadCount(t) \/ WriteCount(t) \/ GuardEnd(t)

(* The clock and the file system matter to those that log.                *)
World == work = "log" /\ (Tick \/ Rotate \/ Refuse) /\ UNCHANGED <<threadVars, lockVars, callVars>>

Next == World \/ \E t \in Threads : OwnerStep(t) \/ RunStep(t) \/ Callback(t)

Spec == Init /\ [][Next]_vars

(* Every thread runs on, and has the mutex in the end when nobody else     *)
(* keeps it.  The world owes nothing.                                      *)
FairSpec ==
  /\ Spec
  /\ \A t \in Threads : WF_vars(OwnerStep(t)) /\ WF_vars(RunStep(t)) /\ WF_vars(Callback(t))

-----------------------------------------------------------------------------
(* Types.                                                                  *)
Steps == {"idle", "logging", "read", "write", "held", "dropped", "retaken", "adding", "used", "added"}

TypeOK ==
  /\ work \in {"log", "count"}
  /\ ThreadTypeOK /\ LockTypeOK /\ FileTypeOK
  /\ rounds \in [Threads -> 0..MaxRounds]
  /\ step \in [Threads -> Steps]
  /\ count \in Nat /\ adds \in Nat /\ seen \in [Threads -> Nat]

(* No addition to the count is lost, though it is read and written in      *)
(* separate steps, and though the guards are unlocked and locked again.    *)
CountExact == count = adds

(* The constructor and join() return, whatever the threads wait for: a     *)
(* thread that is joined comes to its end.                                 *)
OwnerReturns == \A t \in Threads : owner.in # "nothing" /\ owner.of = t ~> owner = Free
=============================================================================
