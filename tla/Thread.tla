------------------------------- MODULE Thread -------------------------------
(***************************************************************************)
(* Class Thread: an object, owned by one thread of the program, and the    *)
(* kernel's thread that runs its callback.  The kernel's thread works on   *)
(* the object until it has given the semaphore that the constructor waits  *)
(* for; then the owner may join it, or destroy the object and leave the    *)
(* thread running.  The callback itself is up to the program.              *)
(***************************************************************************)
EXTENDS Integers, FiniteSets

CONSTANTS
  Threads,   \* the Thread objects
  Fallible,  \* those that pthread_create() may fail for
  Renamers   \* those whose callback calls setName()

ASSUME ThreadAssumption == Fallible \subseteq Threads /\ Renamers \subseteq Threads

VARIABLES
  owner,     \* what the owner waits in: the constructor or join() of a thread
  object,    \* where each object is in its life
  handle,    \* m_thread # 0
  semaphore, \* m_semaphore
  held,      \* the callback is in m_cb
  kernel,    \* where the kernel's thread is in run()
  released,  \* how often the kernel's thread was joined or detached
  misused    \* the objects that were used after their end

threadVars == <<owner, object, handle, semaphore, held, kernel, released, misused>>

Free == [in |-> "nothing"]
Constructing(t) == [in |-> "constructor", of |-> t]
Joining(t) == [in |-> "join", of |-> t]

ThreadInit ==
  /\ owner = Free
  /\ object = [t \in Threads |-> "none"]
  /\ handle = [t \in Threads |-> FALSE]
  /\ semaphore = [t \in Threads |-> 0]
  /\ held = [t \in Threads |-> FALSE]
  /\ kernel = [t \in Threads |-> "none"]
  /\ released = [t \in Threads |-> 0]
  /\ misused = {}

(* The kernel's thread reads or writes a member of the object.             *)
Uses(t) == misused' = IF object[t] = "destroyed" THEN misused \cup {t} ELSE misused

-----------------------------------------------------------------------------
(* The owner.                                                              *)

(* The constructor up to the wait.                                         *)
Create(t) ==
  /\ owner = Free
  /\ object[t] = "none"
  /\ owner' = Constructing(t)
  /\ object' = [object EXCEPT ![t] = "constructing"]
  /\ held' = [held EXCEPT ![t] = TRUE]
  /\ handle' = [handle EXCEPT ![t] = TRUE]
  /\ kernel' = [kernel EXCEPT ![t] = "started"]
  /\ UNCHANGED <<semaphore, released, misused>>

(* pthread_create() fails: the constructor throws, there is no object.     *)
CreateFails(t) ==
  /\ owner = Free
  /\ t \in Fallible /\ object[t] = "none"
  /\ object' = [object EXCEPT ![t] = "destroyed"]
  /\ UNCHANGED <<owner, handle, semaphore, held, kernel, released, misused>>

(* Mutant: the constructor does not wait.                                  *)
Created_AtOnce(t) ==
  /\ owner = Constructing(t)
  /\ object' = [object EXCEPT ![t] = "alive"]
  /\ owner' = Free
  /\ UNCHANGED <<handle, semaphore, held, kernel, released, misused>>

(* The constructor gets the semaphore and returns.                         *)
Created(t) ==
  /\ owner = Constructing(t)
  /\ semaphore[t] > 0
  /\ semaphore' = [semaphore EXCEPT ![t] = @ - 1]
  /\ object' = [object EXCEPT ![t] = "alive"]
  /\ owner' = Free
  /\ UNCHANGED <<handle, held, kernel, released, misused>>

(* join() of a thread that was not joined yet; otherwise it does nothing.  *)
Join(t) ==
  /\ owner = Free
  /\ object[t] = "alive" /\ handle[t]
  /\ owner' = Joining(t)
  /\ UNCHANGED <<object, handle, semaphore, held, kernel, released, misused>>

(* pthread_join() returns.                                                 *)
Joined(t) ==
  /\ owner = Joining(t)
  /\ kernel[t] = "ended"
  /\ released' = [released EXCEPT ![t] = @ + 1]
  /\ handle' = [handle EXCEPT ![t] = FALSE]
  /\ owner' = Free
  /\ UNCHANGED <<object, semaphore, held, kernel, misused>>

(* The destructor detaches a thread that was not joined.  The program      *)
(* joins a thread that calls setName(): it writes to the object.           *)
Destroy(t) ==
  /\ owner = Free
  /\ object[t] = "alive"
  /\ handle[t] => t \notin Renamers
  /\ object' = [object EXCEPT ![t] = "destroyed"]
  /\ released' = IF handle[t] THEN [released EXCEPT ![t] = @ + 1] ELSE released
  /\ UNCHANGED <<owner, handle, semaphore, held, kernel, misused>>

-----------------------------------------------------------------------------
(* run(), on the kernel's thread.                                          *)

(* The name, the id and the callback are taken from or put in the object.  *)
Prepare(t) ==
  /\ kernel[t] = "started"
  /\ Uses(t)
  /\ held' = [held EXCEPT ![t] = FALSE]
  /\ kernel' = [kernel EXCEPT ![t] = "prepared"]
  /\ UNCHANGED <<owner, object, handle, semaphore, released>>

Notify(t) ==
  /\ kernel[t] = "prepared"
  /\ Uses(t)
  /\ semaphore' = [semaphore EXCEPT ![t] = @ + 1]
  /\ kernel' = [kernel EXCEPT ![t] = "callback"]
  /\ UNCHANGED <<owner, object, handle, held, released>>

(* setName() in the callback, by t_thread.                                 *)
Rename(t) ==
  /\ kernel[t] = "callback" /\ t \in Renamers
  /\ Uses(t)
  /\ UNCHANGED <<owner, object, handle, semaphore, held, kernel, released>>

(* Mutant: the semaphore is given once more at the end.                    *)
Return_NotifiesAgain(t) ==
  /\ kernel[t] = "callback"
  /\ semaphore' = [semaphore EXCEPT ![t] = @ + 1]
  /\ kernel' = [kernel EXCEPT ![t] = "ended"]
  /\ UNCHANGED <<owner, object, handle, held, released, misused>>

(* The callback returns.                                                   *)
Return(t) ==
  /\ kernel[t] = "callback"
  /\ kernel' = [kernel EXCEPT ![t] = "ended"]
  /\ UNCHANGED <<owner, object, handle, semaphore, held, released, misused>>

-----------------------------------------------------------------------------
ThreadTypeOK ==
  /\ owner \in {Free} \cup {Constructing(t) : t \in Threads} \cup {Joining(t) : t \in Threads}
  /\ object \in [Threads -> {"none", "constructing", "alive", "destroyed"}]
  /\ handle \in [Threads -> BOOLEAN] /\ held \in [Threads -> BOOLEAN]
  /\ semaphore \in [Threads -> 0..1]
  /\ kernel \in [Threads -> {"none", "started", "prepared", "callback", "ended"}]
  /\ released \in [Threads -> Nat]
  /\ misused \subseteq Threads

(* run() never works on an object whose owner has destroyed it, and the    *)
(* callback is no longer in the object when the owner may destroy it.      *)
NoUseAfterDestroy ==
  /\ misused = {}
  /\ \A t \in Threads : object[t] \in {"alive", "destroyed"} => ~held[t]

(* The kernel's thread is joined or detached exactly once, by join() and   *)
(* the destructor between them, and neither releases one that              *)
(* pthread_create() did not make.                                          *)
ReleasedOnce ==
  \A t \in Threads :
    /\ released[t] <= 1
    /\ kernel[t] = "none" => released[t] = 0
    /\ object[t] = "destroyed" /\ kernel[t] # "none" => released[t] = 1
=============================================================================
