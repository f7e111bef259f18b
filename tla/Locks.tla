-------------------------------- MODULE Locks --------------------------------
(***************************************************************************)
(* The scoped guards ScopedLock, ScopedRdLock and ScopedWriteLock over a   *)
(* mutex.  A Mutex, Spinlock or CASLock knows one holder, a RWMutex one    *)
(* writer or many readers; what is called a write below is lock() for the  *)
(* first three.  The pthread and atomic primitives are modelled from how   *)
(* the code uses them.                                                     *)
(***************************************************************************)
EXTENDS Integers, FiniteSets

CONSTANTS
  Holders,  \* the threads that use guards, one at a time
  Nobody    \* no holder

ASSUME LockAssumption == Nobody \notin Holders

VARIABLES
  writer,   \* the mutex: who has it for writing
  readers,  \* the mutex: who has it for reading, and how many times
  guard,    \* the guard that each thread has: its kind and m_locked
  undefined \* a thread has unlocked what it did not hold

lockVars == <<writer, readers, guard, undefined>>

NoGuard == [kind |-> "none", locked |-> FALSE]

LockInit ==
  /\ writer = Nobody
  /\ readers = {}
  /\ guard = [t \in Holders |-> NoGuard]
  /\ undefined = FALSE

(* pthread_rwlock_rdlock() and pthread_rwlock_wrlock(), when they return.  *)
Acquire(t, kind) ==
  /\ writer = Nobody
  /\ kind = "write" => readers = {}
  /\ writer' = IF kind = "write" THEN t ELSE writer
  /\ readers' = IF kind = "read" THEN readers \cup {t} ELSE readers

(* pthread_rwlock_unlock(); undefined unless the thread has the lock.      *)
Release(t) ==
  /\ writer' = IF writer = t THEN Nobody ELSE writer
  /\ readers' = readers \ {t}
  /\ undefined' = (undefined \/ (writer # t /\ t \notin readers))

-----------------------------------------------------------------------------
(* The guards.                                                             *)

(* The constructor locks.                                                  *)
Guard(t, kind) ==
  /\ guard[t] = NoGuard
  /\ Acquire(t, kind)
  /\ guard' = [guard EXCEPT ![t] = [kind |-> kind, locked |-> TRUE]]
  /\ UNCHANGED undefined

(* Mutant: lock() of every guard locks for reading.                        *)
Lock_ForReading(t) ==
  /\ guard[t] # NoGuard
  /\ IF guard[t].locked THEN UNCHANGED <<writer, readers, guard>>
     ELSE /\ Acquire(t, "read")
          /\ guard' = [guard EXCEPT ![t].locked = TRUE]
  /\ UNCHANGED undefined

(* lock(): only a guard that is not locked.                                *)
Lock(t) ==
  /\ guard[t] # NoGuard
  /\ IF guard[t].locked THEN UNCHANGED <<writer, readers, guard>>
     ELSE /\ Acquire(t, guard[t].kind)
          /\ guard' = [guard EXCEPT ![t].locked = TRUE]
  /\ UNCHANGED undefined

(* unlock(): only a guard that is locked.                                  *)
Unlock(t) ==
  /\ guard[t] # NoGuard
  /\ IF guard[t].locked
     THEN Release(t) /\ guard' = [guard EXCEPT ![t].locked = FALSE]
     ELSE UNCHANGED lockVars

(* Mutant: the destructor leaves the mutex locked.                         *)
Unguard_Keeps(t) ==
  /\ guard[t] # NoGuard
  /\ guard' = [guard EXCEPT ![t] = NoGuard]
  /\ UNCHANGED <<writer, readers, undefined>>

(* The destructor unlocks.                                                 *)
Unguard(t) ==
  /\ guard[t] # NoGuard
  /\ IF guard[t].locked THEN Release(t) ELSE UNCHANGED <<writer, readers, undefined>>
  /\ guard' = [guard EXCEPT ![t] = NoGuard]

-----------------------------------------------------------------------------
LockTypeOK ==
  /\ writer \in Holders \cup {Nobody}
  /\ readers \subseteq Holders
  /\ guard \in [Holders -> [kind : {"none", "read", "write"}, locked : BOOLEAN]]
  /\ undefined \in BOOLEAN

(* A guard says that it is locked exactly when its thread has the mutex,   *)
(* as its kind says: no unlock() and no destructor unlocks for another.    *)
GuardsExact ==
  /\ ~undefined
  /\ \A t \in Holders :
       /\ writer = t <=> guard[t].locked /\ guard[t].kind = "write"
       /\ t \in readers <=> guard[t].locked /\ guard[t].kind = "read"
=============================================================================
