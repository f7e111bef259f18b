------------------------------- MODULE Config -------------------------------
(***************************************************************************)
(* The configuration: named arguments with a type, a value and listeners,  *)
(* which the translation units of a program declare at static              *)
(* initialization, and which threads then set one by one or from YAML.     *)
(*                                                                         *)
(* setValue() compares and calls the listeners under the read lock of the  *)
(* argument and assigns under its write lock; every call of a listener is  *)
(* a step, so that others get between them.                                *)
(***************************************************************************)
EXTENDS Integers, FiniteSets, Sequences

CONSTANTS
  Threads,       \* the threads that set values
  Names,         \* the names of arguments
  Declared,      \* the declarations: a name, a type and a default value
  Converts,      \* LexicalCast: pairs of a type and a text to a value of it
  Setters,       \* pairs of a thread and a name it calls setValue() for
  Documents,     \* what loadFromYaml() is given: sequences of nodes
  Loaders,       \* the threads that call loadFromYaml()
  Throwing,      \* the names whose listeners may throw
  MaxCalls,      \* bound: how often a thread calls
  MaxListeners,  \* bound: how many listeners are added to values of a type
  NoArg          \* nullptr; the value of no argument

Types == {c[1] : c \in DOMAIN Converts}
Values == {Converts[c] : c \in DOMAIN Converts}
(* What a text, or a declaration, may be converted to.                     *)
ValuesOf(type) == {Converts[c] : c \in {k \in DOMAIN Converts : k[1] = type}}
Ids == 1..MaxListeners

ASSUME DeclaredAssumption ==
  \A d \in Declared : d.name \in Names /\ d.value \in ValuesOf(d.type)
ASSUME CallsAssumption ==
  /\ Setters \subseteq Threads \X Names /\ Loaders \subseteq Threads
  /\ IsFiniteSet(Threads) /\ MaxCalls \in Nat /\ MaxListeners \in Nat
ASSUME DocumentsAssumption ==
  \A doc \in Documents : doc \in Seq({doc[i] : i \in DOMAIN doc})

VARIABLES
  args,      \* ConfigMgr's m_data: type and m_val of the arguments there are
  handles,   \* the type of the argument each declaration got from lookUp()
  cbs,       \* m_cbs: the ids of the listeners of each argument
  funcId,    \* the last id that was given, one counter for each type
  op,        \* the setValue() that each thread is in
  todo,      \* the nodes that loadFromYaml() has still to handle
  calls,     \* how often each thread has called
  mirror,    \* history: the new value each listener has heard last
  expected,  \* history: what a load must leave in each argument
  disturbed  \* history: those that others have set since, or a throw kept

listenerVars == <<cbs, funcId>>
callVars == <<op, todo, calls>>
loadVars == <<expected, disturbed>>
vars == <<args, handles, listenerVars, callVars, mirror, loadVars>>

Idle == [pc |-> "idle"]

(* What FromStr makes of a text, if it converts.  The casts to strings,    *)
(* which only toString() uses, have no counterpart here.                   *)
Exists(n) == n \in DOMAIN args
Accepts(n, text) == Exists(n) /\ <<args[n].type, text>> \in DOMAIN Converts
Converted(n, text) == Converts[<<args[n].type, text>>]

Init ==
  /\ args = [n \in {} |-> NoArg]
  /\ handles = [d \in Declared |-> NoArg]
  /\ cbs = [n \in Names |-> {}]
  /\ funcId = [y \in Types |-> 0]
  /\ op = [t \in Threads |-> Idle]
  /\ todo = [t \in Threads |-> <<>>]
  /\ calls = [t \in Threads |-> 0]
  /\ mirror = [n \in Names |-> [l \in Ids |-> NoArg]]
  /\ expected = [t \in Threads |-> [n \in Names |-> NoArg]]
  /\ disturbed = [t \in Threads |-> {}]

-----------------------------------------------------------------------------
(* Static initialization: one declaration after the other, in any order.   *)

Conflicts(d) == Exists(d.name) /\ args[d.name].type # d.type
Started == \A d \in Declared : handles[d] # NoArg \/ Conflicts(d)

(* The arguments with a new one.                                           *)
Made(d) ==
  [n \in DOMAIN args \cup {d.name} |->
     IF n = d.name THEN [type |-> d.type, value |-> d.value] ELSE args[n]]

(* Mutant: lookUp() does not ask whether the name is taken.                *)
LookUp_Replaces(d) ==
  /\ handles[d] = NoArg
  /\ args' = Made(d)
  /\ handles' = [handles EXCEPT ![d] = d.type]
  /\ UNCHANGED <<listenerVars, callVars, mirror, loadVars>>

(* lookUp() makes the argument, or returns the one that has the name if    *)
(* its type is the one asked for; it leaves nullptr otherwise.             *)
LookUp(d) ==
  /\ handles[d] = NoArg /\ ~Conflicts(d)
  /\ args' = IF Exists(d.name) THEN args ELSE Made(d)
  /\ handles' = [handles EXCEPT ![d] = d.type]
  /\ UNCHANGED <<listenerVars, callVars, mirror, loadVars>>

(* Whether a thread holds the read lock of an argument in setValue().      *)
(* Mutant: the block that ends the first lock is missing.                  *)
Reads_ToTheEnd(t, n) == op[t].pc \in {"notify", "write"} /\ op[t].name = n
Reads(t, n) == op[t].pc = "notify" /\ op[t].name = n
Unread(n) == \A t \in Threads : ~Reads(t, n)

(* addListener(), delListener() and clearListener() change m_cbs under the *)
(* read lock only, so that their callers must keep them out of the loop    *)
(* over it in setValue().                                                  *)
AddListener(n) ==
  /\ Exists(n) /\ Unread(n)
  /\ LET type == args[n].type
         id == funcId[type] + 1
     IN  /\ id <= MaxListeners
         /\ funcId' = [funcId EXCEPT ![type] = id]
         /\ cbs' = [cbs EXCEPT ![n] = @ \cup {id}]
  /\ UNCHANGED <<args, handles, callVars, mirror, loadVars>>

Remove(n, ids) ==
  /\ Exists(n) /\ Unread(n)
  /\ cbs' = [cbs EXCEPT ![n] = @ \ ids]
  /\ UNCHANGED <<args, handles, funcId, callVars, mirror, loadVars>>

DelListener(n, id) == Remove(n, {id})
ClearListener(n) == Remove(n, cbs[n])

-----------------------------------------------------------------------------
(* setValue() and loadFromYaml().                                          *)

MayCall(t) == Started /\ op[t] = Idle /\ todo[t] = <<>> /\ calls[t] < MaxCalls

Begin(t, n, v) == op' = [op EXCEPT ![t] = [pc |-> "compare", name |-> n, value |-> v]]

SetValue(t, n, v) ==
  /\ MayCall(t) /\ <<t, n>> \in Setters /\ Exists(n) /\ v \in ValuesOf(args[n].type)
  /\ Begin(t, n, v)
  /\ calls' = [calls EXCEPT ![t] = @ + 1]
  /\ UNCHANGED <<args, handles, listenerVars, todo, mirror, loadVars>>

(* listAllMember(): the nodes of a document in pre-order, without those    *)
(* that have a character outside the alphabet in their path.               *)
Listed(doc) ==
  LET output[i \in 0..Len(doc)] ==
        IF i = 0 THEN <<>>
        ELSE IF doc[i].valid THEN Append(output[i - 1], doc[i]) ELSE output[i - 1]
  IN output[Len(doc)]

LoadFromYaml(t, doc) ==
  /\ MayCall(t) /\ t \in Loaders
  /\ todo' = [todo EXCEPT ![t] = Listed(doc)]
  /\ calls' = [calls EXCEPT ![t] = @ + 1]
  /\ expected' = [expected EXCEPT ![t] = [n \in Names |->
       LET for == {i \in DOMAIN doc : doc[i].valid /\ doc[i].name = n /\ Accepts(n, doc[i].text)}
       IN  IF ~Exists(n) THEN NoArg
           ELSE IF for = {} THEN args[n].value
           ELSE Converted(n, doc[CHOOSE i \in for : \A k \in for : k <= i].text)]]
  /\ disturbed' = [disturbed EXCEPT ![t] = {}]
  /\ UNCHANGED <<args, handles, listenerVars, op, mirror>>

(* Mutant: a text that does not convert ends the load.                     *)
LoadNode_Stops(t) ==
  /\ op[t] = Idle /\ todo[t] # <<>>
  /\ LET node == Head(todo[t])
     IN IF Accepts(node.name, node.text)
        THEN Begin(t, node.name, Converted(node.name, node.text)) /\ todo' = [todo EXCEPT ![t] = Tail(@)]
        ELSE UNCHANGED op /\ todo' = [todo EXCEPT ![t] = <<>>]
  /\ UNCHANGED <<args, handles, listenerVars, calls, mirror, loadVars>>

(* A node without an argument is passed over; fromString() gives up a text *)
(* that does not convert, and the load goes on.                            *)
LoadNode(t) ==
  /\ op[t] = Idle /\ todo[t] # <<>>
  /\ LET node == Head(todo[t])
     IN IF Accepts(node.name, node.text)
        THEN Begin(t, node.name, Converted(node.name, node.text))
        ELSE UNCHANGED op
  /\ todo' = [todo EXCEPT ![t] = Tail(@)]
  /\ UNCHANGED <<args, handles, listenerVars, calls, mirror, loadVars>>

(* The read lock is taken; a value that is no change returns at once.      *)
Compare(t) ==
  /\ op[t].pc = "compare"
  /\ LET n == op[t].name
         v == op[t].value
     IN op' = [op EXCEPT ![t] =
          IF args[n].value = v THEN Idle
          ELSE [pc |-> "notify", name |-> n, value |-> v,
                left |-> cbs[n], old |-> args[n].value]]
  /\ UNCHANGED <<args, handles, listenerVars, todo, calls, mirror, loadVars>>

(* Mutant: the callback is given the new value first.                      *)
CallListener_Swapped(t) ==
  /\ op[t].pc = "notify" /\ op[t].left # {}
  /\ LET l == CHOOSE i \in op[t].left : \A k \in op[t].left : i <= k
     IN  /\ mirror' = [mirror EXCEPT ![op[t].name][l] = op[t].old]
         /\ op' = [op EXCEPT ![t].left = @ \ {l}]
  /\ UNCHANGED <<args, handles, listenerVars, todo, calls, loadVars>>

(* The listeners are called in the order of their ids, the lock held.      *)
CallListener(t) ==
  /\ op[t].pc = "notify" /\ op[t].left # {}
  /\ LET l == CHOOSE i \in op[t].left : \A k \in op[t].left : i <= k
     IN  /\ mirror' = [mirror EXCEPT ![op[t].name][l] = op[t].value]
         /\ op' = [op EXCEPT ![t].left = @ \ {l}]
  /\ UNCHANGED <<args, handles, listenerVars, todo, calls, loadVars>>

(* A listener throws: the read lock is released and nothing is assigned.   *)
(* setValue() passes the exception on; fromString(), in a load, stops it.  *)
ListenerThrows(t) ==
  /\ op[t].pc = "notify" /\ op[t].left # {} /\ op[t].name \in Throwing
  /\ op' = [op EXCEPT ![t] = Idle]
  /\ disturbed' = [disturbed EXCEPT ![t] = @ \cup {op[t].name}]
  /\ UNCHANGED <<args, handles, listenerVars, todo, calls, mirror, expected>>

ReleaseRead(t) ==
  /\ op[t].pc = "notify" /\ op[t].left = {}
  /\ op' = [op EXCEPT ![t] = [pc |-> "write", name |-> @.name, value |-> @.value]]
  /\ UNCHANGED <<args, handles, listenerVars, todo, calls, mirror, loadVars>>

(* m_val = val, after which setValue() returns.                            *)
Written(t) ==
  LET n == op[t].name
  IN  /\ args' = [args EXCEPT ![n].value = op[t].value]
      /\ op' = [op EXCEPT ![t] = Idle]
      /\ disturbed' = [u \in Threads |-> IF u = t THEN disturbed[u] ELSE disturbed[u] \cup {n}]
      /\ UNCHANGED <<handles, listenerVars, todo, calls, mirror, expected>>

(* Mutant: the assignment takes no write lock.                             *)
Assign_Unlocked(t) == op[t].pc = "write" /\ Written(t)

(* The write lock waits for the readers.                                   *)
Assign(t) == op[t].pc = "write" /\ Unread(op[t].name) /\ Written(t)

-----------------------------------------------------------------------------
Step(t) ==
  \/ LoadNode(t) \/ Compare(t)
  \/ CallListener(t) \/ ListenerThrows(t)
  \/ ReleaseRead(t) \/ Assign(t)

Next ==
  \/ \E d \in Declared : LookUp(d)
  \/ \E n \in Names : AddListener(n) \/ ClearListener(n)
  \/ \E n \in Names, id \in Ids : DelListener(n, id)
  \/ \E t \in Threads, n \in Names, v \in Values : SetValue(t, n, v)
  \/ \E t \in Threads, doc \in Documents : LoadFromYaml(t, doc)
  \/ \E t \in Threads : Step(t)

Spec == Init /\ [][Next]_vars

(* A thread in a call goes on, a listener ends, and the write lock is      *)
(* given when the readers have left.  Nobody must call.                    *)
FairSpec == Spec /\ \A t \in Threads : WF_vars(Step(t))

-----------------------------------------------------------------------------
(* What must hold.                                                         *)

(* A value is one its type can have, and a handle from lookUp() refers to  *)
(* an argument of the type that was declared, in whatever order the        *)
(* declarations of a name are met.                                         *)
TypeOK ==
  /\ DOMAIN args \subseteq Names
  /\ \A n \in DOMAIN args : args[n].value \in ValuesOf(args[n].type)
  /\ \A d \in Declared : handles[d] # NoArg => Exists(d.name) /\ args[d.name].type = d.type
  /\ \A n \in Names : cbs[n] \subseteq Ids
  /\ \A t \in Threads : op[t].pc \in {"idle", "compare", "notify", "write"}

(* Every listener of a change gets the old value by reference and hears    *)
(* the value that was compared, though others set the argument too.        *)
OldIsCurrent ==
  \A t \in Threads : op[t].pc = "notify" => args[op[t].name].value = op[t].old

(* The threads that set an argument, alone or from a document.             *)
SettersOf(n) ==
  {t \in Threads : \/ <<t, n>> \in Setters
                   \/ /\ t \in Loaders
                      /\ \E doc \in Documents : \E i \in DOMAIN doc : doc[i].name = n}

(* setValue() tells listeners of a value before it is one.  If one thread  *)
(* sets an argument, a listener that heard of any change has the current   *)
(* value when the thread is through.  (Two threads may tell in one order   *)
(* and assign in the other, and a listener that throws stops a change that *)
(* others have heard of.)                                                  *)
ListenersFollow ==
  \A n \in Names : \A l \in cbs[n] :
    /\ n \notin Throwing /\ Cardinality(SettersOf(n)) = 1
    /\ \A t \in Threads : op[t] # Idle => op[t].name # n
    /\ mirror[n][l] # NoArg
    => mirror[n][l] = args[n].value

(* When loadFromYaml() returns, each argument has the value of the last    *)
(* node that names it and converts, or the old one without such a node,    *)
(* unless another thread has set it meanwhile or a listener threw: a node  *)
(* that fails does not keep the others from being applied.                 *)
LoadApplies ==
  \A t \in Loaders, n \in Names :
    /\ expected[t][n] # NoArg /\ op[t] = Idle /\ todo[t] = <<>>
    /\ n \notin disturbed[t]
    => <<t, n>> \in Setters \/ args[n].value = expected[t][n]

(* setValue() and loadFromYaml() return: no thread waits for the write     *)
(* lock while it, or another one that waits, holds the read lock.          *)
CallsReturn == \A t \in Threads : []<>(op[t] = Idle /\ todo[t] = <<>>)
=============================================================================
