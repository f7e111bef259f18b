---------------------------- MODULE ConfigProofs ----------------------------
(* Theorems about Config and their proofs: values have their types, while  *)
(* the listeners of a change are called nobody assigns the argument, they  *)
(* hear of the last change, and a load applies the last node of each name. *)
EXTENDS Config, FiniteSetTheorems, SequenceTheorems, WellFoundedInduction, TLAPS

Calls ==
  {Idle} \cup [pc : {"compare", "write"}, name : Names, value : Values]
         \cup [pc : {"notify"}, name : Names, value : Values, left : SUBSET Ids, old : Values]

ArgsTyped ==
  /\ DOMAIN args \subseteq Names
  /\ args \in [DOMAIN args -> [type : Types, value : Values]]
  /\ \A n \in DOMAIN args : args[n].value \in ValuesOf(args[n].type)
HandlesTyped ==
  /\ handles \in [Declared -> Types \cup {NoArg}]
  /\ \A d \in Declared : handles[d] # NoArg => Exists(d.name) /\ args[d.name].type = d.type
ListenersTyped == cbs \in [Names -> SUBSET Ids] /\ funcId \in [Types -> Nat]
CallsTyped ==
  /\ op \in [Threads -> Calls]
  /\ \A t \in Threads : op[t] # Idle =>
       Exists(op[t].name) /\ op[t].value \in ValuesOf(args[op[t].name].type)

(* What is inductive: the value that a setValue() carries is of the type   *)
(* of its argument, which keeps it.                                        *)
Typing == ArgsTyped /\ HandlesTyped /\ ListenersTyped /\ CallsTyped

(* An action keeps the arguments and their types, and may add some.        *)
KeepsTypes ==
  \A n \in DOMAIN args : n \in DOMAIN args' /\ args'[n].type = args[n].type

(* What a type can have is a value, and so is what a text converts to.      *)
LEMMA ValuesHaveTypes ==
  /\ \A y, v : v \in ValuesOf(y) => y \in Types /\ v \in Values
  /\ \A n, x : Accepts(n, x) => Exists(n) /\ Converted(n, x) \in ValuesOf(args[n].type)
  BY DEF ValuesOf, Types, Values, Accepts, Converted

(* There is nothing at first that could have a wrong type.                  *)
LEMMA TypingInit == Init => Typing
<1> SUFFICES ASSUME Init PROVE Typing
  OBVIOUS
<1>1. ArgsTyped
  BY DEF Init, ArgsTyped
<1>2. HandlesTyped
  BY DEF Init, HandlesTyped
<1>3. ListenersTyped
  BY DEF Init, ListenersTyped
<1>4. CallsTyped
  BY DEF Init, CallsTyped, Calls, Idle
<1> QED BY <1>1, <1>2, <1>3, <1>4 DEF Typing

(* Handles and calls speak of an argument by its name and type only.       *)
LEMMA KeptCalls ==
  ASSUME Typing, KeepsTypes
  PROVE  /\ UNCHANGED op => CallsTyped'
         /\ UNCHANGED handles => HandlesTyped'
         /\ \A t \in Threads : op'  = [op EXCEPT ![t] = Idle] => CallsTyped'
<1>1. UNCHANGED op => CallsTyped'
  BY DEF Typing, CallsTyped, KeepsTypes, Exists, ValuesOf, Calls
<1>2. UNCHANGED handles => HandlesTyped'
  BY DEF Typing, HandlesTyped, KeepsTypes, Exists
<1>3. ASSUME NEW t \in Threads, op' = [op EXCEPT ![t] = Idle] PROVE CallsTyped'
  BY <1>3 DEF Typing, CallsTyped, KeepsTypes, Exists, ValuesOf, Calls
<1> QED BY <1>1, <1>2, <1>3

(* A call that goes on with the same argument and value.                   *)
LEMMA GoesOn ==
  ASSUME Typing, UNCHANGED args,
         NEW t \in Threads, NEW new \in Calls, new # Idle,
         op' = [op EXCEPT ![t] = new],
         Exists(new.name), new.value \in ValuesOf(args[new.name].type)
  PROVE  CallsTyped'
  BY DEF Typing, CallsTyped, Exists, ValuesOf

(* lookUp() gives an argument the type and value of its declaration.        *)
LEMMA LookUpTyping ==
  ASSUME Typing, NEW d \in Declared, LookUp(d)
  PROVE  Typing'
<1> USE DeclaredAssumption
<1>1. d.name \in Names /\ d.type \in Types /\ d.value \in Values /\ d.value \in ValuesOf(d.type)
  BY ValuesHaveTypes
<1>2. ArgsTyped' /\ KeepsTypes /\ d.name \in DOMAIN args' /\ args'[d.name].type = d.type
  <2>1. CASE Exists(d.name)
    <3>1. args' = args /\ args[d.name].type = d.type
      BY <2>1 DEF LookUp, Conflicts
    <3> QED BY <2>1, <3>1 DEF Typing, ArgsTyped, KeepsTypes, Exists, ValuesOf
  <2>2. CASE ~Exists(d.name)
    <3> DEFINE new == [type |-> d.type, value |-> d.value]
    <3>1. args' = [n \in DOMAIN args \cup {d.name} |-> IF n = d.name THEN new ELSE args[n]]
      BY <2>2 DEF LookUp, Made
    <3>2. DOMAIN args' = DOMAIN args \cup {d.name} /\ args'[d.name] = new
      BY <3>1
    <3>3. \A n \in DOMAIN args : args'[n] = args[n]
      BY <2>2, <3>1 DEF Exists
    <3>4. KeepsTypes
      BY <3>2, <3>3 DEF KeepsTypes
    <3>5. args' \in [DOMAIN args' -> [type : Types, value : Values]]
      BY <1>1, <3>1, <3>2, <3>3 DEF Typing, ArgsTyped
    <3>6. \A n \in DOMAIN args' : args'[n].value \in ValuesOf(args'[n].type)
      BY <1>1, <3>2, <3>3 DEF Typing, ArgsTyped
    <3> QED BY <1>1, <3>2, <3>4, <3>5, <3>6 DEF Typing, ArgsTyped, ValuesOf
  <2> QED BY <2>1, <2>2
<1>3. HandlesTyped'
  BY <1>1, <1>2 DEF Typing, HandlesTyped, LookUp, KeepsTypes, Exists
<1>4. ListenersTyped'
  BY DEF Typing, ListenersTyped, LookUp, listenerVars
<1>5. CallsTyped'
  BY <1>2, KeptCalls DEF LookUp, callVars
<1> QED BY <1>2, <1>3, <1>4, <1>5 DEF Typing

(* Listeners come and go with no effect on arguments and calls.             *)
LEMMA ListenerTyping ==
  ASSUME Typing, NEW n \in Names,
         AddListener(n) \/ ClearListener(n) \/ \E id \in Ids : DelListener(n, id)
  PROVE  Typing' /\ UNCHANGED <<args, op>>
<1>1. UNCHANGED <<args, handles, op>>
  BY DEF AddListener, ClearListener, DelListener, Remove, callVars
<1>2. KeepsTypes
  BY <1>1 DEF KeepsTypes
<1>3. ListenersTyped'
  <2>1. CASE AddListener(n)
    BY <2>1, CallsAssumption DEF AddListener, Typing, ListenersTyped, ArgsTyped, Exists, Ids
  <2>2. CASE ClearListener(n) \/ \E id \in Ids : DelListener(n, id)
    BY <2>2 DEF ClearListener, DelListener, Remove, Typing, ListenersTyped
  <2> QED BY <2>1, <2>2
<1>4. ArgsTyped'
  BY <1>1 DEF Typing, ArgsTyped, ValuesOf
<1> QED BY <1>1, <1>2, <1>3, <1>4, KeptCalls DEF Typing

(* What a step of a call changes, beside the call itself.                  *)
LEMMA CallTyping ==
  ASSUME Typing, NEW t \in Threads,
         \/ Step(t)
         \/ \E n \in Names, v \in Values : SetValue(t, n, v)
         \/ \E doc \in Documents : LoadFromYaml(t, doc)
  PROVE  Typing'
<1> USE ValuesHaveTypes
<1>1. UNCHANGED <<handles, cbs, funcId>>
  BY DEF Step, SetValue, LoadFromYaml, LoadNode, Compare, CallListener, ListenerThrows,
         ReleaseRead, Assign, Written, listenerVars
<1>2. ListenersTyped'
  BY <1>1 DEF Typing, ListenersTyped
<1>3. op[t] \in Calls /\ (op[t] # Idle =>
        Exists(op[t].name) /\ op[t].value \in ValuesOf(args[op[t].name].type))
  BY DEF Typing, CallsTyped
<1>4. CASE Assign(t)
  <2> DEFINE n == op[t].name
             v == op[t].value
  <2>1. op[t].pc = "write" /\ args' = [args EXCEPT ![n].value = v] /\ op' = [op EXCEPT ![t] = Idle]
    BY <1>4 DEF Assign, Written
  <2>2. n \in DOMAIN args /\ v \in ValuesOf(args[n].type)
    BY <1>3, <2>1 DEF Idle, Exists
  <2>3. ArgsTyped' /\ KeepsTypes
    BY <2>1, <2>2 DEF Typing, ArgsTyped, KeepsTypes, ValuesOf
  <2> QED BY <1>1, <1>2, <2>1, <2>3, KeptCalls DEF Typing
<1>5. CASE ~Assign(t)
  <2>1. UNCHANGED args
    BY <1>5 DEF Step, SetValue, LoadFromYaml, LoadNode, Compare, CallListener, ListenerThrows,
         ReleaseRead
  <2>2. ArgsTyped' /\ KeepsTypes
    BY <2>1 DEF Typing, ArgsTyped, KeepsTypes, ValuesOf
  <2>3. CallsTyped'
    <3>1. CASE \E n \in Names, v \in Values : SetValue(t, n, v)
      <4>1. PICK n \in Names, v \in Values : SetValue(t, n, v)
        BY <3>1
      <4> DEFINE new == [pc |-> "compare", name |-> n, value |-> v]
      <4>2. new \in Calls /\ new # Idle /\ op' = [op EXCEPT ![t] = new]
        BY <4>1 DEF SetValue, Begin, Calls, Idle
      <4> QED BY <2>1, <4>1, <4>2, GoesOn DEF SetValue
    <3>2. CASE \E doc \in Documents : LoadFromYaml(t, doc)
      BY <2>2, <3>2, KeptCalls DEF LoadFromYaml
    <3>3. CASE LoadNode(t)
      <4> DEFINE node == Head(todo[t])
                 new == [pc |-> "compare", name |-> node.name,
                         value |-> Converted(node.name, node.text)]
      <4>1. CASE Accepts(node.name, node.text)
        <5>1. op' = [op EXCEPT ![t] = new]
          BY <3>3, <4>1 DEF LoadNode, Begin
        <5>2. Exists(node.name) /\ Converted(node.name, node.text) \in ValuesOf(args[node.name].type)
          BY <4>1
        <5>3. new \in Calls /\ new # Idle
          BY <5>2 DEF Calls, Idle, Typing, ArgsTyped, Exists
        <5> HIDE DEF new
        <5>4. new.name = node.name /\ new.value = Converted(node.name, node.text)
          BY DEF new
        <5> QED BY <2>1, <5>1, <5>2, <5>3, <5>4, GoesOn
      <4>2. CASE ~Accepts(node.name, node.text)
        BY <2>2, <3>3, <4>2, KeptCalls DEF LoadNode
      <4> QED BY <4>1, <4>2
    <3>4. CASE Compare(t)
      <4> DEFINE n == op[t].name
                 v == op[t].value
                 new == [pc |-> "notify", name |-> n, value |-> v,
                         left |-> cbs[n], old |-> args[n].value]
      <4>1. op[t].pc = "compare" /\ n \in DOMAIN args /\ n \in Names /\ v \in ValuesOf(args[n].type)
        BY <1>3, <3>4 DEF Compare, Idle, Exists, Typing, ArgsTyped
      <4>2. CASE args[n].value = v
        BY <2>2, <3>4, <4>2, KeptCalls DEF Compare
      <4>3. CASE args[n].value # v
        <5>1. op' = [op EXCEPT ![t] = new]
          BY <3>4, <4>3 DEF Compare
        <5>2. cbs[n] \in SUBSET Ids /\ args[n].value \in Values /\ v \in Values
          BY <4>1 DEF Typing, ListenersTyped, ArgsTyped
        <5>3. new \in Calls /\ new # Idle
          BY <4>1, <5>2 DEF Calls, Idle
        <5> QED BY <2>1, <4>1, <5>1, <5>3, GoesOn DEF Exists
      <4> QED BY <4>2, <4>3
    <3>5. CASE CallListener(t)
      <4> DEFINE new(l) == [op[t] EXCEPT !.left = @ \ {l}]
      <4>1. PICK l : op' = [op EXCEPT ![t] = new(l)]
        BY <3>5 DEF CallListener, Typing, CallsTyped
      <4>2. new(l) \in Calls /\ new(l) # Idle /\ new(l).name = op[t].name /\ new(l).value = op[t].value
        BY <1>3, <3>5 DEF CallListener, Calls, Idle
      <4>3. op[t] # Idle
        BY <3>5 DEF CallListener, Idle
      <4> HIDE DEF new
      <4> QED BY <1>3, <2>1, <4>1, <4>2, <4>3, GoesOn
    <3>6. CASE ListenerThrows(t)
      BY <2>2, <3>6, KeptCalls DEF ListenerThrows
    <3>7. CASE ReleaseRead(t)
      <4> DEFINE new == [pc |-> "write", name |-> op[t].name, value |-> op[t].value]
      <4>1. op[t].pc = "notify" /\ op' = [op EXCEPT ![t] = new]
        BY <3>7 DEF ReleaseRead, Typing, CallsTyped
      <4>2. op[t] # Idle /\ new \in Calls /\ new # Idle
        BY <1>3, <4>1 DEF Calls, Idle
      <4> QED BY <1>3, <2>1, <4>1, <4>2, GoesOn
    <3> QED BY <1>5, <3>1, <3>2, <3>3, <3>4, <3>5, <3>6, <3>7 DEF Step
  <2> QED BY <1>1, <1>2, <2>2, <2>3, KeptCalls DEF Typing
<1> QED BY <1>4, <1>5

(* Every step keeps the types.                                              *)
LEMMA TypingStep == Typing /\ [Next]_vars => Typing'
<1> SUFFICES ASSUME Typing, [Next]_vars PROVE Typing'
  OBVIOUS
<1>1. CASE UNCHANGED vars
  BY <1>1 DEF vars, listenerVars, callVars, Typing, ArgsTyped, HandlesTyped, ListenersTyped,
     CallsTyped, Exists, ValuesOf
<1>2. CASE Next
  BY <1>2, LookUpTyping, ListenerTyping, CallTyping DEF Next
<1> QED BY <1>1, <1>2

(* Type correctness: every argument has a value of its type and every      *)
(* declaration an argument of the type it asked for.                       *)
THEOREM ConfigTypeCorrect == Spec => []TypeOK
<1>1. Typing => TypeOK
  BY DEF Typing, ArgsTyped, HandlesTyped, ListenersTyped, CallsTyped, Calls, Idle, TypeOK
<1> QED BY <1>1, TypingInit, TypingStep, PTL DEF Spec

-----------------------------------------------------------------------------
(* A thread that calls listeners holds the read lock, so that the argument *)
(* keeps the value it had when it was compared.                            *)
LEMMA OldStep == Typing /\ OldIsCurrent /\ [Next]_vars => OldIsCurrent'
<1> SUFFICES ASSUME Typing, OldIsCurrent, [Next]_vars,
                    NEW t \in Threads, op'[t].pc = "notify"
             PROVE  args'[op'[t].name].value = op'[t].old
  BY DEF OldIsCurrent
<1>1. op[t] \in Calls /\ op'[t] \in Calls
  BY TypingStep DEF Typing, CallsTyped
<1>2. ASSUME op[t].pc = "notify", UNCHANGED args, op'[t].name = op[t].name, op'[t].old = op[t].old
      PROVE  args'[op'[t].name].value = op'[t].old
  BY <1>2 DEF OldIsCurrent
<1>3. CASE UNCHANGED vars
  BY <1>2, <1>3 DEF vars, callVars
<1>4. ASSUME NEW d \in Declared, LookUp(d) PROVE args'[op'[t].name].value = op'[t].old
  <2>1. op' = op /\ op[t].pc = "notify"
    BY <1>4 DEF LookUp, callVars
  <2>2. op[t].name \in DOMAIN args
    BY <1>1, <2>1 DEF Typing, CallsTyped, Exists, Idle
  <2>3. args'[op[t].name] = args[op[t].name]
    BY <1>4, <2>2 DEF LookUp, Made, Exists
  <2> QED BY <2>1, <2>3 DEF OldIsCurrent
<1>5. ASSUME NEW n \in Names, AddListener(n) \/ ClearListener(n) \/ \E id \in Ids : DelListener(n, id)
      PROVE  args'[op'[t].name].value = op'[t].old
  <2>1. UNCHANGED <<args, op>>
    BY <1>5, ListenerTyping
  <2> QED BY <1>2, <2>1
<1>6. ASSUME NEW u \in Threads,
             \/ \E n \in Names, v \in Values : SetValue(u, n, v)
             \/ \E doc \in Documents : LoadFromYaml(u, doc)
             \/ LoadNode(u)
      PROVE  args'[op'[t].name].value = op'[t].old
  <2>1. UNCHANGED args /\ op'[t] \in {op[t], op'[u]}
    BY <1>6 DEF SetValue, LoadFromYaml, LoadNode, Begin, Typing, CallsTyped
  <2>2. op'[u].pc # "notify" \/ op' = op
    <3>1. CASE \E n \in Names, v \in Values : SetValue(u, n, v)
      BY <3>1 DEF SetValue, Begin, Typing, CallsTyped
    <3>2. CASE \E doc \in Documents : LoadFromYaml(u, doc)
      BY <3>2 DEF LoadFromYaml
    <3>3. CASE LoadNode(u)
      BY <3>3 DEF LoadNode, Begin, Typing, CallsTyped
    <3> QED BY <1>6, <3>1, <3>2, <3>3
  <2>3. op'[t] = op[t]
    BY <2>1, <2>2
  <2> QED BY <1>2, <2>1, <2>3
<1>7. ASSUME NEW u \in Threads, Compare(u) PROVE args'[op'[t].name].value = op'[t].old
  <2>1. UNCHANGED args
    BY <1>7 DEF Compare
  <2>2. CASE t # u
    BY <1>2, <1>7, <2>1, <2>2 DEF Compare, Typing, CallsTyped
  <2>3. CASE t = u
    <3> DEFINE n == op[t].name
    <3>1. op'[t] = IF args[n].value = op[t].value THEN Idle
                   ELSE [pc |-> "notify", name |-> n, value |-> op[t].value,
                         left |-> cbs[n], old |-> args[n].value]
      BY <1>7, <2>3 DEF Compare, Typing, CallsTyped
    <3> QED BY <2>1, <3>1 DEF Idle
  <2> QED BY <2>2, <2>3
<1>8. ASSUME NEW u \in Threads, CallListener(u) PROVE args'[op'[t].name].value = op'[t].old
  <2>1. UNCHANGED args
    BY <1>8 DEF CallListener
  <2>2. CASE t # u
    BY <1>2, <1>8, <2>1, <2>2 DEF CallListener, Typing, CallsTyped
  <2>3. CASE t = u
    <3> DEFINE new(l) == [op[t] EXCEPT !.left = @ \ {l}]
    <3>1. PICK l : op'[t] = new(l)
      BY <1>8, <2>3 DEF CallListener, Typing, CallsTyped
    <3>2. op[t].pc = "notify" /\ new(l).name = op[t].name /\ new(l).old = op[t].old
      BY <1>1, <1>8, <2>3 DEF CallListener, Calls, Idle
    <3> HIDE DEF new
    <3> QED BY <1>2, <2>1, <3>1, <3>2
  <2> QED BY <2>2, <2>3
<1>9. ASSUME NEW u \in Threads, ListenerThrows(u) \/ ReleaseRead(u)
      PROVE  args'[op'[t].name].value = op'[t].old
  <2>1. UNCHANGED args /\ op'[u].pc # "notify"
    BY <1>9 DEF ListenerThrows, ReleaseRead, Idle, Typing, CallsTyped
  <2>2. t # u /\ op'[t] = op[t]
    BY <1>9, <2>1 DEF ListenerThrows, ReleaseRead, Typing, CallsTyped
  <2> QED BY <1>2, <2>1, <2>2
<1>10. ASSUME NEW u \in Threads, Assign(u) PROVE args'[op'[t].name].value = op'[t].old
  <2>1. op' = [op EXCEPT ![u] = Idle] /\ args' = [args EXCEPT ![op[u].name].value = op[u].value]
    BY <1>10 DEF Assign, Written
  <2>2. t # u /\ op'[t] = op[t]
    BY <2>1 DEF Idle, Typing, CallsTyped
  <2>3. op[t].name # op[u].name
    BY <1>10, <2>2 DEF Assign, Unread, Reads
  <2>4. args'[op[t].name] = args[op[t].name]
    BY <1>1, <2>1, <2>2, <2>3 DEF Typing, ArgsTyped, CallsTyped, Exists, Idle
  <2> QED BY <2>2, <2>4 DEF OldIsCurrent
<1> QED BY <1>3, <1>4, <1>5, <1>6, <1>7, <1>8, <1>9, <1>10 DEF Next, Step

(* The listeners of a change are given the value that it replaces, also by *)
(* the time the last of them reads the reference, whoever sets meanwhile.  *)
THEOREM OldStaysCurrent == Spec => []OldIsCurrent
<1>1. Init => OldIsCurrent
  BY DEF Init, Idle, OldIsCurrent
<1> QED BY <1>1, TypingInit, TypingStep, OldStep, PTL DEF Spec

-----------------------------------------------------------------------------
(* Who sets an argument, and what its listeners have heard.                *)

Nodes == UNION {{doc[i] : i \in DOMAIN doc} : doc \in Documents}

(* Calls begin when all is declared; a thread that is in a call on an      *)
(* argument, or will be by a node, is one of those that set it.            *)
CallInv ==
  /\ \A t \in Threads :
       op[t] # Idle \/ todo[t] # <<>> \/ (\E n \in Names : expected[t][n] # NoArg) => Started
  /\ todo \in [Threads -> Seq(Nodes)] /\ \A t \in Threads : todo[t] # <<>> => t \in Loaders
  /\ expected \in [Threads -> [Names -> Values \cup {NoArg}]] /\ disturbed \in [Threads -> SUBSET Names]
  /\ \A t \in Threads : op[t] # Idle => t \in SettersOf(op[t].name)

(* An id is given once to a type; a listener that is called is there.      *)
Given(n, l) == Exists(n) /\ l <= funcId[args[n].type]
IdInv ==
  /\ mirror \in [Names -> [Ids -> Values \cup {NoArg}]]
  /\ \A n \in Names, l \in Ids : l \in cbs[n] \/ mirror[n][l] # NoArg => Given(n, l)
  /\ \A t \in Threads : op[t].pc = "notify" => op[t].left \subseteq cbs[op[t].name]

(* The value that a listener has been told of, if it has heard of any: the *)
(* one that is to be assigned once its turn has come.                      *)
Tells(t, n, l) ==
  /\ op[t] # Idle /\ op[t].name = n
  /\ op[t].pc = "write" \/ (op[t].pc = "notify" /\ l \notin op[t].left)
Told(t, n, l) == IF Tells(t, n, l) THEN op[t].value ELSE args[n].value
Alone(n) == n \notin Throwing /\ Cardinality(SettersOf(n)) = 1
TellInv ==
  \A n \in Names : Alone(n) =>
    \A l \in cbs[n], t \in SettersOf(n) : mirror[n][l] \in {NoArg, Told(t, n, l)}

(* What is still to come of a document leads to what a load must leave.    *)
Sets(node, n) == node.name = n /\ Accepts(n, node.text)
SetsLast(s, n, i) ==
  /\ i \in DOMAIN s /\ Sets(s[i], n)
  /\ \A k \in DOMAIN s : Sets(s[k], n) => k <= i
Comes(t, n) == IF op[t] # Idle /\ op[t].name = n THEN op[t].value ELSE args[n].value
Undisturbed(t, n) == expected[t][n] # NoArg /\ n \notin disturbed[t] /\ <<t, n>> \notin Setters
Leads(t, n) ==
  /\ Exists(n)
  /\ \A i \in DOMAIN todo[t] : SetsLast(todo[t], n, i) => expected[t][n] = Converted(n, todo[t][i].text)
  /\ (\A i \in DOMAIN todo[t] : ~Sets(todo[t][i], n)) => expected[t][n] = Comes(t, n)
LoadInv == \A t \in Loaders, n \in Names : Undisturbed(t, n) => Leads(t, n)


-----------------------------------------------------------------------------
(* What the steps of a thread change.                                      *)

Acts(t) ==
  \/ Step(t)
  \/ \E n \in Names, v \in Values : SetValue(t, n, v)
  \/ \E doc \in Documents : LoadFromYaml(t, doc)

(* The kinds of steps: declarations, listeners and what threads do.         *)
LEMMA Cases ==
  ASSUME Next
  PROVE  \/ \E d \in Declared : LookUp(d)
         \/ \E n \in Names : AddListener(n) \/ ClearListener(n) \/ \E id \in Ids : DelListener(n, id)
         \/ \E t \in Threads : Acts(t)
  BY DEF Next, Acts

(* What a thread does, one action each.                                     *)
LEMMA ActsCases ==
  ASSUME NEW t, Acts(t)
  PROVE  \/ \E n \in Names, v \in Values : SetValue(t, n, v)
         \/ \E doc \in Documents : LoadFromYaml(t, doc)
         \/ LoadNode(t) \/ Compare(t) \/ CallListener(t) \/ ListenerThrows(t) \/ ReleaseRead(t) \/ Assign(t)
  BY DEF Acts, Step

(* Only an assignment changes an argument, and only its value.             *)
LEMMA ArgsAfter ==
  ASSUME Typing, NEW t \in Threads, Acts(t)
  PROVE  /\ DOMAIN args' = DOMAIN args /\ UNCHANGED <<handles, cbs, funcId>>
         /\ \A n \in DOMAIN args : args'[n].type = args[n].type
         /\ \A n \in DOMAIN args : args'[n].value # args[n].value => Assign(t) /\ n = op[t].name
         /\ Assign(t) => op[t].name \in DOMAIN args /\ args'[op[t].name].value = op[t].value
<1>1. UNCHANGED <<handles, cbs, funcId>>
  BY DEF Acts, Step, SetValue, LoadFromYaml, LoadNode, Compare, CallListener, ListenerThrows,
         ReleaseRead, Assign, Written, listenerVars
<1>2. CASE Assign(t)
  <2> DEFINE n == op[t].name
             v == op[t].value
  <2>1. op[t].pc = "write" /\ args' = [args EXCEPT ![n].value = v]
    BY <1>2 DEF Assign, Written
  <2>2. n \in DOMAIN args
    BY <2>1 DEF Typing, CallsTyped, Idle, Exists
  <2>3. args \in [DOMAIN args -> [type : Types, value : Values]]
    BY DEF Typing, ArgsTyped
  <2> HIDE DEF n, v
  <2> QED
    BY <1>1, <1>2, <2>1, <2>2, <2>3 DEF n, v
<1>3. CASE ~Assign(t)
  <2>1. UNCHANGED args
    BY <1>3, ActsCases DEF SetValue, LoadFromYaml, LoadNode, Compare, CallListener, ListenerThrows, ReleaseRead
  <2> QED
    BY <1>1, <1>3, <2>1
<1> QED
  BY <1>2, <1>3

(* What a text is to an argument stays, once all is declared.              *)
LEMMA TextsStay ==
  ASSUME Typing, NEW t \in Threads, Acts(t), NEW n, NEW x
  PROVE  /\ Exists(n)' = Exists(n) /\ Accepts(n, x)' = Accepts(n, x)
         /\ Exists(n) => Converted(n, x)' = Converted(n, x)
  BY ArgsAfter DEF Exists, Accepts, Converted

(* How far a thread is in setValue() after a step.                         *)
Becomes(t, pc, n, v) ==
  op'[t] # Idle /\ op'[t].pc = pc /\ op'[t].name = n /\ op'[t].value = v

(* Each action of a thread says where its call is before and after.         *)
LEMMA OpAfter ==
  ASSUME Typing, NEW t \in Threads
  PROVE  /\ \A n \in Names, v \in Values : SetValue(t, n, v) => Becomes(t, "compare", n, v)
         /\ \A doc \in Documents : LoadFromYaml(t, doc) => op' = op /\ op[t] = Idle
         /\ LoadNode(t) =>
              /\ op[t] = Idle /\ todo[t] # <<>>
              /\ LET node == Head(todo[t])
                 IN IF Accepts(node.name, node.text)
                    THEN Becomes(t, "compare", node.name, Converted(node.name, node.text)) ELSE op' = op
         /\ Compare(t) =>
              /\ op[t] # Idle /\ op[t].pc = "compare"
              /\ IF args[op[t].name].value = op[t].value THEN op'[t] = Idle
                 ELSE Becomes(t, "notify", op[t].name, op[t].value) /\ op'[t].left = cbs[op[t].name]
         /\ CallListener(t) => op[t] # Idle /\ Becomes(t, "notify", op[t].name, op[t].value)
         /\ ListenerThrows(t) => op[t] # Idle /\ op'[t] = Idle
         /\ ReleaseRead(t) =>
              op[t] # Idle /\ op[t].pc = "notify" /\ op[t].left = {} /\ Becomes(t, "write", op[t].name, op[t].value)
         /\ Assign(t) => op[t] # Idle /\ op[t].pc = "write" /\ op'[t] = Idle
<1>0. op \in [Threads -> Calls] /\ op[t] \in Calls /\ Idle.pc = "idle"
  BY DEF Typing, CallsTyped, Idle
<1>1. ASSUME NEW pc \in {"compare", "write"}, NEW n, NEW v,
             op' = [op EXCEPT ![t] = [pc |-> pc, name |-> n, value |-> v]]
      PROVE  Becomes(t, pc, n, v)
  <2> DEFINE x == [pc |-> pc, name |-> n, value |-> v]
  <2>1. x.pc = pc /\ x.name = n /\ x.value = v /\ x # Idle
    BY <1>0
  <2> HIDE DEF x
  <2> QED
    BY <1>0, <1>1, <2>1 DEF Becomes, x
<1>2. ASSUME NEW n \in Names, NEW v \in Values, SetValue(t, n, v) PROVE Becomes(t, "compare", n, v)
  BY <1>1, <1>2 DEF SetValue, Begin
<1>3. ASSUME NEW doc \in Documents, LoadFromYaml(t, doc) PROVE op' = op /\ op[t] = Idle
  BY <1>3 DEF LoadFromYaml, MayCall
<1>4. ASSUME LoadNode(t)
      PROVE  /\ op[t] = Idle /\ todo[t] # <<>>
             /\ LET node == Head(todo[t])
                IN IF Accepts(node.name, node.text)
                   THEN Becomes(t, "compare", node.name, Converted(node.name, node.text)) ELSE op' = op
  BY <1>1, <1>4 DEF LoadNode, Begin
<1>5. ASSUME Compare(t)
      PROVE  /\ op[t] # Idle /\ op[t].pc = "compare"
             /\ IF args[op[t].name].value = op[t].value THEN op'[t] = Idle
                ELSE Becomes(t, "notify", op[t].name, op[t].value) /\ op'[t].left = cbs[op[t].name]
  <2> DEFINE x == [pc |-> "notify", name |-> op[t].name, value |-> op[t].value,
                   left |-> cbs[op[t].name], old |-> args[op[t].name].value]
  <2>1. op[t] # Idle /\ op[t].pc = "compare"
    BY <1>0, <1>5 DEF Compare
  <2>2. op' = [op EXCEPT ![t] = IF args[op[t].name].value = op[t].value THEN Idle ELSE x]
    BY <1>5 DEF Compare
  <2>3. x.pc = "notify" /\ x.name = op[t].name /\ x.value = op[t].value /\ x.left = cbs[op[t].name]
    OBVIOUS
  <2> HIDE DEF x
  <2> QED
    BY <1>0, <2>1, <2>2, <2>3 DEF Becomes
<1>6. ASSUME CallListener(t) PROVE op[t] # Idle /\ Becomes(t, "notify", op[t].name, op[t].value)
  <2> DEFINE x(l) == [op[t] EXCEPT !.left = @ \ {l}]
  <2>1. PICK l : op'[t] = x(l)
    BY <1>0, <1>6 DEF CallListener
  <2>2. op[t].pc = "notify" /\ op[t] # Idle
    BY <1>0, <1>6 DEF CallListener
  <2>3. x(l).pc = "notify" /\ x(l).name = op[t].name /\ x(l).value = op[t].value
    BY <1>0, <2>2 DEF Calls, Idle
  <2> HIDE DEF x
  <2> QED
    BY <1>0, <2>1, <2>2, <2>3 DEF Becomes
<1>7. ASSUME ListenerThrows(t) PROVE op[t] # Idle /\ op'[t] = Idle
  BY <1>0, <1>7 DEF ListenerThrows
<1>8. ASSUME ReleaseRead(t)
      PROVE  op[t] # Idle /\ op[t].pc = "notify" /\ op[t].left = {} /\ Becomes(t, "write", op[t].name, op[t].value)
  <2>1. op[t] # Idle /\ op[t].pc = "notify" /\ op[t].left = {}
    BY <1>0, <1>8 DEF ReleaseRead
  <2>2. op' = [op EXCEPT ![t] = [pc |-> "write", name |-> op[t].name, value |-> op[t].value]]
    BY <1>0, <1>8 DEF ReleaseRead
  <2> QED
    BY <1>1, <2>1, <2>2
<1>9. ASSUME Assign(t) PROVE op[t] # Idle /\ op[t].pc = "write" /\ op'[t] = Idle
  BY <1>0, <1>9 DEF Assign, Written
<1> QED
  BY <1>2, <1>3, <1>4, <1>5, <1>6, <1>7, <1>8, <1>9

(* A thread's step leaves the calls and loads of the others alone.          *)
LEMMA OthersStay ==
  ASSUME Typing, CallInv, NEW t \in Threads, Acts(t), NEW u \in Threads, u # t
  PROVE  op'[u] = op[u] /\ todo'[u] = todo[u] /\ expected'[u] = expected[u]
<1>1. op \in [Threads -> Calls] /\ todo \in [Threads -> Seq(Nodes)]
      /\ expected \in [Threads -> [Names -> Values \cup {NoArg}]]
  BY DEF Typing, CallsTyped, CallInv
<1>2. CASE (\E n \in Names, v \in Values : SetValue(t, n, v)) \/ \E doc \in Documents : LoadFromYaml(t, doc)
  BY <1>1, <1>2 DEF SetValue, LoadFromYaml, Begin, loadVars
<1>3. CASE LoadNode(t)
  BY <1>1, <1>3 DEF LoadNode, Begin, loadVars
<1>4. CASE Compare(t) \/ CallListener(t)
  BY <1>1, <1>4 DEF Compare, CallListener, loadVars
<1>5. CASE ListenerThrows(t) \/ ReleaseRead(t) \/ Assign(t)
  BY <1>1, <1>5 DEF ListenerThrows, ReleaseRead, Assign, Written, loadVars
<1> QED
  BY <1>2, <1>3, <1>4, <1>5, ActsCases

-----------------------------------------------------------------------------
(* Which nodes a load goes through.                                        *)

(* Every nonempty set of numbers has a least element: induction.           *)
LEMMA LeastNat ==
  ASSUME NEW T \in SUBSET Nat, T # {}
  PROVE  \E m \in T : \A n \in T : m <= n
<1> DEFINE R == OpToRel(<, Nat)
<1>1. IsWellFoundedOn(R, Nat)
  BY NatLessThanWellFounded
<1>2. PICK m \in T : \A n \in T : <<n, m>> \notin R
  <2> HIDE DEF R
  <2> QED
    BY <1>1, WFMin
<1>3. \A n \in T : ~(n < m)
  BY <1>2 DEF OpToRel
<1> QED
  BY <1>3

(* The function by which Listed is defined, up to any node.                *)
Output(doc, f, n) ==
  f = [i \in 0..n |-> IF i = 0 THEN <<>>
                      ELSE IF doc[i].valid THEN Append(f[i - 1], doc[i]) ELSE f[i - 1]]

(* There is such a function: induction by the least that has none.          *)
LEMMA OutputExists ==
  ASSUME NEW doc, NEW n \in Nat
  PROVE  \E f : Output(doc, f, n)
<1> DEFINE T == {k \in Nat : ~ \E f : Output(doc, f, k)}
<1>1. ASSUME T # {} PROVE FALSE
  <2>1. PICK m \in T : \A k \in T : m <= k
    <3> T \in SUBSET Nat
      OBVIOUS
    <3> HIDE DEF T
    <3> QED
      BY <1>1, LeastNat
  <2>2. m # 0
    <3>1. Output(doc, [i \in 0..0 |-> <<>>], 0)
      BY DEF Output
    <3> QED
      BY <2>1, <3>1
  <2>3. m - 1 \in Nat /\ m - 1 \notin T
    BY <2>1, <2>2
  <2>4. PICK f : Output(doc, f, m - 1)
    BY <2>3
  <2> DEFINE g == [i \in 0..m |-> IF i < m THEN f[i]
                                  ELSE IF doc[m].valid THEN Append(f[m - 1], doc[m]) ELSE f[m - 1]]
  <2>5. Output(doc, g, m)
    <3>1. f = [i \in 0..(m - 1) |-> IF i = 0 THEN <<>>
                                    ELSE IF doc[i].valid THEN Append(f[i - 1], doc[i]) ELSE f[i - 1]]
      BY <2>4 DEF Output
    <3>2. ASSUME NEW i \in 0..m
          PROVE  g[i] = IF i = 0 THEN <<>> ELSE IF doc[i].valid THEN Append(g[i - 1], doc[i]) ELSE g[i - 1]
      <4>1. CASE i < m
        <5>1. i \in 0..(m - 1) /\ g[i] = f[i]
          BY <2>1, <4>1
        <5>2. f[i] = IF i = 0 THEN <<>> ELSE IF doc[i].valid THEN Append(f[i - 1], doc[i]) ELSE f[i - 1]
          BY <3>1, <5>1
        <5>3. i # 0 => g[i - 1] = f[i - 1]
          BY <2>1, <4>1
        <5> QED
          BY <5>1, <5>2, <5>3
      <4>2. CASE i = m
        BY <2>1, <2>2, <4>2
      <4> QED
        BY <2>1, <4>1, <4>2
    <3> QED
      BY <3>2 DEF Output
  <2> QED
    BY <2>1, <2>5
<1> QED
  BY <1>1

(* The last node of a set A among the first n of a document, and among     *)
(* those that are listed of them.                                          *)
LastOf(s, A, j) == j \in DOMAIN s /\ s[j] \in A /\ \A k \in DOMAIN s : s[k] \in A => k <= j
Agree(doc, s, n, A) ==
  /\ \A i \in 1..n : doc[i].valid /\ doc[i] \in A => \E j \in DOMAIN s : s[j] \in A
  /\ \A j : LastOf(s, A, j) =>
       \E i \in 1..n : doc[i] = s[j] /\ doc[i].valid /\ \A k \in 1..n : doc[k].valid /\ doc[k] \in A => k <= i

(* One more node of the document keeps the two last ones the same.          *)
LEMMA AgreeMore ==
  ASSUME NEW S, NEW doc \in Seq(S), NEW s \in Seq(S), NEW n \in Nat, n + 1 \in DOMAIN doc, NEW A,
         Agree(doc, s, n, A)
  PROVE  Agree(doc, IF doc[n + 1].valid THEN Append(s, doc[n + 1]) ELSE s, n + 1, A)
<1> DEFINE e == doc[n + 1]
           u == IF e.valid THEN Append(s, e) ELSE s
<1>0. e \in S /\ Len(s) \in Nat /\ DOMAIN s = 1..Len(s)
  BY ElementOfSeq, LenProperties
<1>1. CASE ~e.valid
  BY <1>1 DEF Agree
<1>2. CASE e.valid
  <2> DEFINE l == Len(s)
  <2>1. /\ u \in Seq(S) /\ DOMAIN u = 1..(l + 1) /\ \A i \in 1..l : u[i] = s[i]
        /\ u[l + 1] = e
    BY <1>0, <1>2, AppendProperties, LenProperties
  <2> HIDE DEF u
  <2>2. ASSUME NEW i \in 1..(n + 1), doc[i].valid, doc[i] \in A PROVE \E j \in DOMAIN u : u[j] \in A
    <3>1. CASE i = n + 1
      <4>1. l + 1 \in DOMAIN u /\ u[l + 1] \in A
        BY <1>0, <2>1, <2>2, <3>1
      <4> QED
        BY <4>1
    <3>2. CASE i # n + 1
      <4>1. i \in 1..n
        BY <3>2
      <4>2. PICK j \in DOMAIN s : s[j] \in A
        BY <2>2, <4>1 DEF Agree
      <4>3. j \in DOMAIN u /\ u[j] = s[j]
        BY <1>0, <2>1, <4>2
      <4> QED
        BY <4>2, <4>3
    <3> QED
      BY <3>1, <3>2
  <2>3. ASSUME NEW j, LastOf(u, A, j)
        PROVE  \E i \in 1..(n + 1) : /\ doc[i] = u[j] /\ doc[i].valid
                                     /\ \A k \in 1..(n + 1) : doc[k].valid /\ doc[k] \in A => k <= i
    <3>1. j \in 1..(l + 1) /\ u[j] \in A /\ \A k \in 1..(l + 1) : u[k] \in A => k <= j
      BY <2>1, <2>3 DEF LastOf
    <3>2. CASE j = l + 1
      <4>1. n + 1 \in 1..(n + 1) /\ doc[n + 1] = u[j] /\ \A k \in 1..(n + 1) : k <= n + 1
        BY <2>1, <3>2
      <4> QED
        BY <1>2, <4>1
    <3>3. CASE j # l + 1
      <4>1. j \in 1..l /\ e \notin A
        <5>1. ~(l + 1 <= j) /\ l + 1 \in 1..(l + 1)
          BY <1>0, <3>1, <3>3
        <5> QED
          BY <1>0, <2>1, <3>1, <3>3, <5>1
      <4>2. LastOf(s, A, j)
        BY <1>0, <2>1, <3>1, <4>1 DEF LastOf
      <4>3. PICK i \in 1..n : /\ doc[i] = s[j] /\ doc[i].valid
                              /\ \A k \in 1..n : doc[k].valid /\ doc[k] \in A => k <= i
        BY <4>2 DEF Agree
      <4>4. \A k \in 1..(n + 1) : doc[k].valid /\ doc[k] \in A => k <= i
        BY <4>1, <4>3
      <4>5. i \in 1..(n + 1) /\ doc[i] = u[j]
        BY <2>1, <4>1, <4>3
      <4> QED
        BY <4>3, <4>4, <4>5
    <3> QED
      BY <3>2, <3>3
  <2>4. Agree(doc, u, n + 1, A)
    BY <2>2, <2>3 DEF Agree
  <2> QED
    BY <2>4 DEF u
<1> QED
  BY <1>1, <1>2

(* listAllMember() keeps the last valid node of any kind the last one.     *)
LEMMA ListedAgrees ==
  ASSUME NEW S, NEW doc \in Seq(S), NEW A
  PROVE  Listed(doc) \in Seq(S) /\ Agree(doc, Listed(doc), Len(doc), A)
<1>1. Len(doc) \in Nat /\ DOMAIN doc = 1..Len(doc)
  BY LenProperties
<1> DEFINE output[i \in 0..Len(doc)] ==
             IF i = 0 THEN <<>>
             ELSE IF doc[i].valid THEN Append(output[i - 1], doc[i]) ELSE output[i - 1]
<1>2. Listed(doc) = output[Len(doc)]
  BY DEF Listed
<1>3. output = [i \in 0..Len(doc) |->
                  IF i = 0 THEN <<>>
                  ELSE IF doc[i].valid THEN Append(output[i - 1], doc[i]) ELSE output[i - 1]]
  <2>1. PICK f : Output(doc, f, Len(doc))
    BY <1>1, OutputExists
  <2>2. f = [i \in 0..Len(doc) |->
                  IF i = 0 THEN <<>>
                  ELSE IF doc[i].valid THEN Append(f[i - 1], doc[i]) ELSE f[i - 1]]
    BY <2>1 DEF Output
  <2> QED
    BY <2>2
<1> HIDE DEF output
<1> DEFINE T == {k \in Nat : k \in 0..Len(doc) /\ ~(output[k] \in Seq(S) /\ Agree(doc, output[k], k, A))}
<1>4. ASSUME T # {} PROVE FALSE
  <2>1. PICK m \in T : \A k \in T : m <= k
    <3> T \in SUBSET Nat
      OBVIOUS
    <3> HIDE DEF T
    <3> QED
      BY <1>4, LeastNat
  <2>2. m # 0
    <3>1. output[0] = <<>>
      BY <1>1, <1>3
    <3>2. <<>> \in Seq(S) /\ Agree(doc, <<>>, 0, A)
      BY EmptySeq DEF Agree, LastOf
    <3> QED
      BY <2>1, <3>1, <3>2
  <2> DEFINE n == m - 1
  <2>3. n \in Nat /\ n \in 0..Len(doc) /\ n \notin T /\ m = n + 1 /\ n + 1 \in 1..Len(doc) /\ doc[n + 1] \in S
    BY <1>1, <2>1, <2>2, ElementOfSeq
  <2>4. output[n] \in Seq(S) /\ Agree(doc, output[n], n, A)
    BY <2>3
  <2>5. output[m] = IF doc[n + 1].valid THEN Append(output[n], doc[n + 1]) ELSE output[n]
    BY <1>3, <2>1, <2>2, <2>3
  <2> HIDE DEF n
  <2>6. output[m] \in Seq(S)
    BY <2>3, <2>4, <2>5, AppendProperties
  <2>7. Agree(doc, output[m], m, A)
    BY <1>1, <2>3, <2>4, <2>5, AgreeMore
  <2> QED
    BY <2>1, <2>6, <2>7
<1>5. Len(doc) \in 0..Len(doc) /\ Len(doc) \notin T
  BY <1>1, <1>4
<1> QED
  BY <1>1, <1>2, <1>5
-----------------------------------------------------------------------------
(* Calls.                                                                  *)

(* A nonempty set of numbers with a bound has a greatest element.           *)
LEMMA GreatestNat ==
  ASSUME NEW T \in SUBSET Nat, T # {}, NEW b \in Nat, \A k \in T : k <= b
  PROVE  \E m \in T : \A k \in T : k <= m
<1> DEFINE U == {u \in Nat : \A k \in T : k <= u}
<1>1. PICK m \in U : \A u \in U : m <= u
  <2> U \in SUBSET Nat /\ U # {}
    OBVIOUS
  <2> HIDE DEF U
  <2> QED
    BY LeastNat
<1>2. m \in Nat /\ \A k \in T : k <= m
  OBVIOUS
<1>3. ASSUME m \notin T PROVE FALSE
  <2>1. \A k \in T : k \in Nat /\ k < m
    BY <1>2, <1>3
  <2>2. m - 1 \in Nat
    <3>1. PICK k \in T : TRUE
      OBVIOUS
    <3> QED
      BY <1>2, <2>1, <3>1
  <2>3. m - 1 \in U
    BY <2>1, <2>2
  <2> QED
    BY <1>1, <1>2, <2>3
<1> QED
  BY <1>2, <1>3

(* A document is a sequence of nodes.                                      *)
LEMMA DocumentNodes ==
  ASSUME NEW doc \in Documents
  PROVE  doc \in Seq(Nodes) /\ Listed(doc) \in Seq(Nodes) /\ DOMAIN doc = 1..Len(doc) /\ Len(doc) \in Nat
<1> DEFINE S == {doc[i] : i \in DOMAIN doc}
<1>1. doc \in Seq(S)
  BY DocumentsAssumption
<1>2. S \subseteq Nodes
  BY DEF Nodes
<1>3. DOMAIN doc = 1..Len(doc) /\ Len(doc) \in Nat
  BY <1>1, LenProperties
<1>4. doc \in [1..Len(doc) -> S]
  BY <1>1, LenProperties, ElementOfSeq
<1> HIDE DEF S
<1>5. doc \in [1..Len(doc) -> Nodes]
  BY <1>2, <1>4
<1>6. doc \in Seq(Nodes)
  BY <1>3, <1>5, SeqDef
<1> QED
  BY <1>3, <1>6, ListedAgrees

(* Once all is declared nothing else is.                                   *)
LEMMA StartedStays ==
  ASSUME Typing, [Next]_vars, Started
  PROVE  Started' /\ \A d \in Declared : ~LookUp(d)
<1>1. \A d \in Declared : ~LookUp(d)
  BY DEF Started, LookUp
<1>2. UNCHANGED handles /\ DOMAIN args' = DOMAIN args /\ \A n \in DOMAIN args : args'[n].type = args[n].type
  <2>1. CASE UNCHANGED vars
    BY <2>1 DEF vars
  <2>2. CASE \E n \in Names : AddListener(n) \/ ClearListener(n) \/ \E id \in Ids : DelListener(n, id)
    BY <2>2 DEF AddListener, ClearListener, DelListener, Remove
  <2>3. CASE \E t \in Threads : Acts(t)
    BY <2>3, ArgsAfter
  <2> QED
    BY <1>1, <2>1, <2>2, <2>3, Cases
<1> QED
  BY <1>1, <1>2 DEF Started, Conflicts, Exists

(* No thread is in a call or a load at first.                               *)
LEMMA CallInit == Init => CallInv
<1> SUFFICES ASSUME Init PROVE CallInv
  OBVIOUS
<1>1. \A t \in Threads : op[t] = Idle /\ todo[t] = <<>> /\ \A n \in Names : expected[t][n] = NoArg
  BY DEF Init
<1>2. todo \in [Threads -> Seq(Nodes)]
  BY EmptySeq DEF Init
<1>3. expected \in [Threads -> [Names -> Values \cup {NoArg}]] /\ disturbed \in [Threads -> SUBSET Names]
  BY DEF Init
<1> QED
  BY <1>1, <1>2, <1>3 DEF CallInv

(* The nodes that are left are nodes of a document.                        *)
LEMMA TodoAfter ==
  ASSUME Typing, CallInv, NEW t \in Threads, Acts(t)
  PROVE  /\ todo' \in [Threads -> Seq(Nodes)]
         /\ todo'[t] # <<>> => t \in Loaders
         /\ LoadNode(t) => Head(todo[t]) \in Nodes /\ todo'[t] = Tail(todo[t])
<1>1. todo \in [Threads -> Seq(Nodes)] /\ (todo[t] # <<>> => t \in Loaders)
  BY DEF CallInv
<1>2. CASE LoadNode(t)
  <2>1. todo[t] # <<>> /\ todo' = [todo EXCEPT ![t] = Tail(@)]
    BY <1>2 DEF LoadNode
  <2>2. Head(todo[t]) \in Nodes /\ Tail(todo[t]) \in Seq(Nodes)
    BY <1>1, <2>1, HeadTailProperties
  <2> QED
    BY <1>1, <2>1, <2>2
<1>3. CASE \E doc \in Documents : LoadFromYaml(t, doc)
  <2>1. ~LoadNode(t)
    BY <1>3 DEF LoadFromYaml, MayCall, LoadNode
  <2>2. PICK doc \in Documents : LoadFromYaml(t, doc)
    BY <1>3
  <2>3. Listed(doc) \in Seq(Nodes)
    BY DocumentNodes
  <2> QED
    BY <1>1, <2>1, <2>2, <2>3 DEF LoadFromYaml
<1>4. CASE ~LoadNode(t) /\ ~(\E doc \in Documents : LoadFromYaml(t, doc))
  <2>1. UNCHANGED todo
    BY <1>4, ActsCases DEF SetValue, Compare, CallListener, ListenerThrows, ReleaseRead, Assign, Written
  <2> QED
    BY <1>1, <1>4, <2>1
<1> QED
  BY <1>2, <1>3, <1>4

(* What a load expects is a value or nothing.                              *)
LEMMA ExpectedAfter ==
  ASSUME Typing, CallInv, NEW t \in Threads, Acts(t)
  PROVE  /\ expected' \in [Threads -> [Names -> Values \cup {NoArg}]]
         /\ disturbed' \in [Threads -> SUBSET Names]
         /\ (\E doc \in Documents : LoadFromYaml(t, doc)) \/ UNCHANGED expected
<1>1. expected \in [Threads -> [Names -> Values \cup {NoArg}]] /\ disturbed \in [Threads -> SUBSET Names]
  BY DEF CallInv
<1>2. op[t] # Idle => op[t].name \in Names
  BY DEF Typing, CallsTyped, ArgsTyped, Exists
<1>3. CASE \E doc \in Documents : LoadFromYaml(t, doc)
  <2>1. PICK doc \in Documents : LoadFromYaml(t, doc)
    BY <1>3
  <2> DEFINE for(n) == {i \in DOMAIN doc : doc[i].valid /\ doc[i].name = n /\ Accepts(n, doc[i].text)}
             new(n) == IF ~Exists(n) THEN NoArg
                       ELSE IF for(n) = {} THEN args[n].value
                       ELSE Converted(n, doc[CHOOSE i \in for(n) : \A k \in for(n) : k <= i].text)
  <2>2. expected' = [expected EXCEPT ![t] = [n \in Names |-> new(n)]] /\ disturbed' = [disturbed EXCEPT ![t] = {}]
    BY <2>1 DEF LoadFromYaml
  <2>3. ASSUME NEW n \in Names PROVE new(n) \in Values \cup {NoArg}
    <3>1. CASE ~Exists(n)
      BY <3>1
    <3>2. CASE Exists(n) /\ for(n) = {}
      BY <3>2 DEF Typing, ArgsTyped, Exists
    <3>3. CASE Exists(n) /\ for(n) # {}
      <4>1. DOMAIN doc = 1..Len(doc) /\ Len(doc) \in Nat
        BY DocumentNodes
      <4>2. for(n) \in SUBSET Nat /\ \A k \in for(n) : k <= Len(doc)
        BY <4>1
      <4> DEFINE c == CHOOSE i \in for(n) : \A k \in for(n) : k <= i
                 F == for(n)
      <4>3. c \in F
        <5> HIDE DEF for
        <5>1. \E i \in for(n) : \A k \in for(n) : k <= i
          BY <3>3, <4>1, <4>2, GreatestNat
        <5> QED
          BY <5>1
      <4>4. Accepts(n, doc[c].text)
        BY <4>3
      <4> HIDE DEF c
      <4>5. Converted(n, doc[c].text) \in Values
        BY <4>4, ValuesHaveTypes
      <4>6. new(n) = Converted(n, doc[c].text)
        BY <3>3 DEF c
      <4> QED
        BY <4>5, <4>6
    <3> QED
      BY <3>1, <3>2, <3>3
  <2> HIDE DEF new
  <2> QED
    BY <1>1, <1>3, <2>2, <2>3
<1>4. CASE ListenerThrows(t)
  <2>1. op[t] # Idle
    BY <1>4, OpAfter
  <2> QED
    BY <1>1, <1>2, <1>4, <2>1 DEF ListenerThrows
<1>5. CASE Assign(t)
  <2>1. op[t] # Idle
    BY <1>5, OpAfter
  <2> QED
    BY <1>1, <1>2, <1>5, <2>1 DEF Assign, Written
<1>6. CASE ~ListenerThrows(t) /\ ~Assign(t) /\ ~(\E doc \in Documents : LoadFromYaml(t, doc))
  <2>1. UNCHANGED loadVars
    BY <1>6, ActsCases DEF SetValue, LoadNode, Compare, CallListener, ReleaseRead
  <2> QED
    BY <1>1, <2>1 DEF loadVars
<1> QED
  BY <1>3, <1>4, <1>5, <1>6

(* Who is in a call on an argument is one of its setters.                  *)
LEMMA SetterAfter ==
  ASSUME Typing, CallInv, NEW t \in Threads, Acts(t), op'[t] # Idle
  PROVE  t \in SettersOf(op'[t].name)
<1>1. op[t] # Idle => t \in SettersOf(op[t].name)
  BY DEF CallInv
<1>2. CASE \E n \in Names, v \in Values : SetValue(t, n, v)
  BY <1>2, OpAfter DEF SetValue, Becomes, SettersOf
<1>3. CASE LoadNode(t)
  <2> DEFINE node == Head(todo[t])
  <2>1. op[t] = Idle /\ todo[t] # <<>> /\ op'[t].name = node.name
    BY <1>3, OpAfter DEF Becomes
  <2>2. node \in Nodes /\ t \in Loaders
    BY <1>3, <2>1, TodoAfter DEF CallInv
  <2>3. PICK doc \in Documents : \E i \in DOMAIN doc : doc[i] = node
    BY <2>2 DEF Nodes
  <2> QED
    BY <2>1, <2>2, <2>3 DEF SettersOf
<1>4. CASE ~LoadNode(t) /\ ~(\E n \in Names, v \in Values : SetValue(t, n, v))
  <2>1. op[t] # Idle /\ op'[t].name = op[t].name
    BY <1>4, OpAfter, ActsCases DEF Becomes
  <2> QED
    BY <1>1, <2>1
<1> QED
  BY <1>2, <1>3, <1>4

(* Every step keeps what is said of calls.                                  *)
LEMMA CallNext == Typing /\ CallInv /\ [Next]_vars => CallInv'
<1> SUFFICES ASSUME Typing, CallInv, [Next]_vars PROVE CallInv'
  OBVIOUS
<1>1. CASE UNCHANGED <<op, todo, expected, disturbed>>
  <2>1. \A t \in Threads : op[t] # Idle \/ todo[t] # <<>> \/ (\E n \in Names : expected[t][n] # NoArg) => Started'
    BY StartedStays DEF CallInv
  <2> QED
    BY <1>1, <2>1 DEF CallInv, SettersOf
<1>2. CASE \E t \in Threads : Acts(t)
  <2>1. PICK t \in Threads : Acts(t)
    BY <1>2
  <2>2. Started
    <3>1. CASE (\E n \in Names, v \in Values : SetValue(t, n, v)) \/ \E doc \in Documents : LoadFromYaml(t, doc)
      BY <3>1 DEF SetValue, LoadFromYaml, MayCall
    <3>2. CASE ~((\E n \in Names, v \in Values : SetValue(t, n, v)) \/ \E doc \in Documents : LoadFromYaml(t, doc))
      <4>1. op[t] # Idle \/ todo[t] # <<>>
        BY <2>1, <3>2, ActsCases, OpAfter
      <4> QED
        BY <4>1 DEF CallInv
    <3> QED
      BY <3>1, <3>2
  <2>3. Started'
    BY <2>2, StartedStays
  <2>4. \A u \in Threads : todo'[u] # <<>> => u \in Loaders
    BY <2>1, TodoAfter, OthersStay DEF CallInv
  <2>5. \A u \in Threads : op'[u] # Idle => u \in SettersOf(op'[u].name)
    BY <2>1, SetterAfter, OthersStay DEF CallInv
  <2>6. /\ todo' \in [Threads -> Seq(Nodes)]
        /\ expected' \in [Threads -> [Names -> Values \cup {NoArg}]] /\ disturbed' \in [Threads -> SUBSET Names]
    BY <2>1, TodoAfter, ExpectedAfter
  <2> QED
    BY <2>3, <2>4, <2>5, <2>6 DEF CallInv, SettersOf
<1>3. CASE ~(\E t \in Threads : Acts(t))
  <2>1. UNCHANGED <<op, todo, expected, disturbed>>
    BY <1>3, Cases DEF vars, callVars, loadVars, LookUp, AddListener, ClearListener, DelListener, Remove
  <2> QED
    BY <1>1, <2>1
<1> QED
  BY <1>2, <1>3
-----------------------------------------------------------------------------
(* Listeners.                                                              *)

(* No step takes an argument away or gives it another type.                *)
LEMMA TypesStay ==
  ASSUME Typing, [Next]_vars
  PROVE  KeepsTypes
<1>1. CASE UNCHANGED args
  BY <1>1 DEF KeepsTypes
<1>2. CASE \E d \in Declared : LookUp(d)
  BY <1>2 DEF LookUp, Made, Exists, KeepsTypes
<1>3. CASE \E t \in Threads : Acts(t)
  BY <1>3, ArgsAfter DEF KeepsTypes
<1>4. CASE ~(\E d \in Declared : LookUp(d)) /\ ~(\E t \in Threads : Acts(t))
  <2>1. UNCHANGED args
    BY <1>4, Cases DEF vars, AddListener, ClearListener, DelListener, Remove
  <2> QED
    BY <1>1, <2>1
<1> QED
  BY <1>1, <1>2, <1>3, <1>4

(* A listener that is called has not been yet, in the change.              *)
LEMMA Called ==
  ASSUME Typing, NEW t \in Threads, CallListener(t)
  PROVE  \E l \in op[t].left :
           /\ mirror' = [mirror EXCEPT ![op[t].name][l] = op[t].value]
           /\ op'[t].left = op[t].left \ {l}
<1>1. op \in [Threads -> Calls] /\ op[t].pc = "notify" /\ op[t].left # {}
  BY DEF Typing, CallsTyped, CallListener
<1>2. op[t].left \in SUBSET Ids
  BY <1>1 DEF Calls, Idle
<1>3. op[t].left \in SUBSET Nat
  BY <1>2, CallsAssumption DEF Ids
<1> DEFINE least == CHOOSE i \in op[t].left : \A k \in op[t].left : i <= k
           new == [op[t] EXCEPT !.left = @ \ {least}]
<1>4. least \in op[t].left
  <2>1. \E i \in op[t].left : \A k \in op[t].left : i <= k
    BY <1>1, <1>3, LeastNat
  <2> QED
    BY <2>1
<1>5. mirror' = [mirror EXCEPT ![op[t].name][least] = op[t].value]
  BY DEF CallListener
<1>6. op' = [op EXCEPT ![t] = new]
  BY <1>1 DEF CallListener
<1> HIDE DEF least
<1>7. new.left = op[t].left \ {least}
  BY <1>1 DEF Calls, Idle
<1> HIDE DEF new
<1> QED
  BY <1>1, <1>4, <1>5, <1>6, <1>7

(* There are no listeners at first.                                         *)
LEMMA IdInit == Init => IdInv
  BY DEF Init, IdInv, Idle

(* What was given stays so.                                                *)
LEMMA GivenStays ==
  ASSUME Typing, [Next]_vars, NEW n \in Names, NEW l \in Ids, Given(n, l)
  PROVE  Given(n, l)'
<1>1. Exists(n)' /\ args'[n].type = args[n].type /\ args[n].type \in Types
  BY TypesStay DEF Given, KeepsTypes, Exists, Typing, ArgsTyped
<1>2. l \in Nat /\ funcId \in [Types -> Nat]
  BY CallsAssumption DEF Ids, Typing, ListenersTyped
<1>3. CASE UNCHANGED funcId
  BY <1>1, <1>3 DEF Given
<1>4. CASE \E m \in Names : AddListener(m)
  <2>1. PICK m \in Names : AddListener(m)
    BY <1>4
  <2>2. funcId' = [funcId EXCEPT ![args[m].type] = funcId[args[m].type] + 1]
    BY <2>1 DEF AddListener
  <2>3. funcId'[args[n].type] \in {funcId[args[n].type], funcId[args[n].type] + 1}
    BY <1>1, <1>2, <2>2
  <2> QED
    BY <1>1, <1>2, <2>3 DEF Given
<1>5. CASE ~(\E m \in Names : AddListener(m))
  <2>1. UNCHANGED funcId
    BY <1>5, Cases, ArgsAfter DEF vars, listenerVars, LookUp, ClearListener, DelListener, Remove
  <2> QED
    BY <1>3, <2>1
<1> QED
  BY <1>4, <1>5

(* What happens to the listeners of an argument.                           *)
LEMMA AddAfter ==
  ASSUME Typing, NEW n \in Names, AddListener(n)
  PROVE  /\ Unread(n) /\ UNCHANGED <<args, op, mirror>>
         /\ \E id \in Ids : /\ ~Given(n, id) /\ Given(n, id)'
                            /\ cbs' = [cbs EXCEPT ![n] = @ \cup {id}]
<1> DEFINE type == args[n].type
           id == funcId[type] + 1
<1>1. /\ Exists(n) /\ Unread(n) /\ UNCHANGED <<args, op, mirror>> /\ id <= MaxListeners
      /\ funcId' = [funcId EXCEPT ![type] = id] /\ cbs' = [cbs EXCEPT ![n] = @ \cup {id}]
  BY DEF AddListener, callVars
<1>2. type \in Types /\ funcId \in [Types -> Nat]
  BY <1>1 DEF Exists, Typing, ArgsTyped, ListenersTyped
<1>3. id \in Ids /\ ~(id <= funcId[type]) /\ funcId'[type] = id /\ id \in Nat
  BY <1>1, <1>2, CallsAssumption DEF Ids
<1> HIDE DEF id
<1>4. PICK l \in Ids : l = id
  BY <1>3
<1>5. ~(l <= funcId[args[n].type]) /\ l <= funcId'[args'[n].type] /\ Exists(n)'
  BY <1>1, <1>3, <1>4 DEF Exists
<1>6. ~Given(n, l) /\ Given(n, l)'
  BY <1>5 DEF Given
<1> QED
  BY <1>1, <1>4, <1>6

(* Listeners are removed while nobody is in the loop over them.             *)
LEMMA RemoveAfter ==
  ASSUME Typing, NEW n \in Names, ClearListener(n) \/ \E id \in Ids : DelListener(n, id)
  PROVE  /\ Unread(n) /\ UNCHANGED <<args, op, mirror>>
         /\ \A m \in Names : cbs'[m] \subseteq cbs[m] /\ (m # n => cbs'[m] = cbs[m])
<1>1. PICK ids : Remove(n, ids)
  BY DEF ClearListener, DelListener
<1>2. cbs \in [Names -> SUBSET Ids]
  BY DEF Typing, ListenersTyped
<1> QED
  BY <1>1, <1>2 DEF Remove, callVars

(* Who is in the loop over the listeners after a step.                     *)
LEMMA LeftAfter ==
  ASSUME Typing, NEW t \in Threads, Acts(t), op'[t].pc = "notify"
  PROVE  \/ Compare(t) /\ op'[t].left = cbs[op'[t].name]
         \/ CallListener(t) /\ op[t].pc = "notify" /\ op'[t].name = op[t].name /\ op'[t].left \subseteq op[t].left
         \/ op' = op
<1>1. Idle.pc # "notify"
  BY DEF Idle
<1>2. CASE Compare(t)
  BY <1>1, <1>2, OpAfter DEF Becomes
<1>3. CASE CallListener(t)
  <2>1. op[t].pc = "notify" /\ op'[t].name = op[t].name
    BY <1>3, OpAfter DEF Becomes, CallListener
  <2> QED
    BY <1>3, <2>1, Called
<1>4. CASE ~Compare(t) /\ ~CallListener(t)
  BY <1>1, <1>4, OpAfter, ActsCases DEF Becomes
<1> QED
  BY <1>2, <1>3, <1>4

(* Every step keeps what is said of the ids of listeners.                   *)
LEMMA IdNext == Typing /\ CallInv /\ IdInv /\ [Next]_vars => IdInv'
<1> SUFFICES ASSUME Typing, CallInv, IdInv, [Next]_vars PROVE IdInv'
  OBVIOUS
<1>0. cbs \in [Names -> SUBSET Ids] /\ op \in [Threads -> Calls]
  BY DEF Typing, ListenersTyped, CallsTyped
<1>1. ASSUME UNCHANGED <<cbs, op, mirror>> PROVE IdInv'
  BY <1>1, GivenStays DEF IdInv
<1>2. ASSUME NEW n \in Names, AddListener(n) PROVE IdInv'
  <2>1. PICK id \in Ids : Given(n, id)' /\ cbs' = [cbs EXCEPT ![n] = @ \cup {id}]
    BY <1>2, AddAfter
  <2>2. Unread(n) /\ UNCHANGED <<op, mirror>>
    BY <1>2, AddAfter
  <2>3. \A m \in Names, l \in Ids : l \in cbs'[m] \/ mirror'[m][l] # NoArg => Given(m, l)'
    BY <1>0, <2>1, <2>2, GivenStays DEF IdInv
  <2>4. \A m \in Names : cbs[m] \subseteq cbs'[m]
    BY <1>0, <2>1
  <2>5. \A t \in Threads : op'[t].pc = "notify" => op'[t].left \subseteq cbs'[op'[t].name]
    <3>1. \A t \in Threads : op[t].pc = "notify" => op[t].name \in Names
      BY <1>0 DEF Calls, Idle
    <3> QED
      BY <2>2, <2>4, <3>1 DEF IdInv
  <2> QED
    BY <2>2, <2>3, <2>5 DEF IdInv
<1>3. ASSUME NEW n \in Names, ClearListener(n) \/ \E id \in Ids : DelListener(n, id) PROVE IdInv'
  <2>1. /\ Unread(n) /\ UNCHANGED <<op, mirror>>
        /\ \A m \in Names : cbs'[m] \subseteq cbs[m] /\ (m # n => cbs'[m] = cbs[m])
    BY <1>3, RemoveAfter
  <2>2. \A m \in Names, l \in Ids : l \in cbs'[m] \/ mirror'[m][l] # NoArg => Given(m, l)'
    BY <2>1, GivenStays DEF IdInv
  <2>3. \A t \in Threads : op[t].pc = "notify" => op[t].name \in Names /\ op[t].name # n
    BY <1>0, <2>1 DEF Calls, Idle, Unread, Reads
  <2> QED
    BY <2>1, <2>2, <2>3 DEF IdInv
<1>4. ASSUME NEW t \in Threads, Acts(t) PROVE IdInv'
  <2>1. cbs' = cbs
    BY <1>4, ArgsAfter
  <2>2. /\ mirror' \in [Names -> [Ids -> Values \cup {NoArg}]]
        /\ \A m \in Names, l \in Ids : l \in cbs'[m] \/ mirror'[m][l] # NoArg => Given(m, l)'
    <3>1. CASE CallListener(t)
      <4>1. PICK l \in op[t].left : mirror' = [mirror EXCEPT ![op[t].name][l] = op[t].value]
        BY <3>1, Called
      <4>2. op[t].pc = "notify"
        BY <3>1 DEF CallListener
      <4>3. op[t].name \in Names /\ op[t].value \in Values /\ op[t].left \subseteq Ids /\ l \in cbs[op[t].name]
        BY <1>0, <4>1, <4>2 DEF Calls, Idle, IdInv
      <4>4. mirror' \in [Names -> [Ids -> Values \cup {NoArg}]]
        BY <4>1, <4>3 DEF IdInv
      <4>5. \A m \in Names, k \in Ids : mirror'[m][k] # NoArg => mirror[m][k] # NoArg \/ (m = op[t].name /\ k = l)
        BY <4>1, <4>3 DEF IdInv
      <4>6. \A m \in Names, k \in Ids : k \in cbs'[m] \/ mirror'[m][k] # NoArg => Given(m, k)
        BY <2>1, <4>3, <4>5 DEF IdInv
      <4> QED
        BY <4>4, <4>6, GivenStays
    <3>2. CASE ~CallListener(t)
      <4>1. mirror' = mirror
        BY <1>4, <3>2, ActsCases DEF SetValue, LoadFromYaml, LoadNode, Compare, ListenerThrows, ReleaseRead, Assign, Written
      <4> QED
        BY <2>1, <4>1, GivenStays DEF IdInv
    <3> QED
      BY <3>1, <3>2
  <2>3. \A u \in Threads : op'[u].pc = "notify" => op'[u].left \subseteq cbs[op'[u].name]
    <3>1. ASSUME NEW u \in Threads, op'[u].pc = "notify", u # t PROVE op'[u].left \subseteq cbs[op'[u].name]
      <4>1. op'[u] = op[u]
        BY <1>4, <3>1, OthersStay
      <4> QED
        BY <3>1, <4>1 DEF IdInv
    <3>2. ASSUME op'[t].pc = "notify" PROVE op'[t].left \subseteq cbs[op'[t].name]
      BY <1>4, <3>2, LeftAfter DEF IdInv
    <3> QED
      BY <3>1, <3>2
  <2> QED
    BY <2>1, <2>2, <2>3 DEF IdInv
<1>5. CASE UNCHANGED vars
  BY <1>1, <1>5 DEF vars, listenerVars, callVars
<1>6. ASSUME NEW d \in Declared, LookUp(d) PROVE IdInv'
  BY <1>1, <1>6 DEF LookUp, listenerVars, callVars
<1> QED
  BY <1>2, <1>3, <1>4, <1>5, <1>6, Cases
-----------------------------------------------------------------------------
(* What a listener has been told of.                                       *)

(* The one thread that sets an argument, if nobody else does.              *)
LEMMA OneSetter ==
  ASSUME NEW n, Cardinality(SettersOf(n)) = 1
  PROVE  \E t \in Threads : SettersOf(n) = {t}
<1>1. IsFiniteSet(SettersOf(n))
  BY CallsAssumption, FS_Subset DEF SettersOf
<1>2. \E t : SettersOf(n) = {t}
  BY <1>1, FS_Singleton
<1> QED
  BY <1>2 DEF SettersOf

(* No listener has heard of anything at first.                              *)
LEMMA TellInit == Init => TellInv
  BY DEF Init, TellInv

(* The steps of others do not concern the one that sets an argument.       *)
LEMMA TellOthers ==
  ASSUME Typing, CallInv, IdInv, NEW t \in Threads, Acts(t), NEW s \in Threads, s # t,
         NEW n \in Names, Exists(n), SettersOf(n) = {s}, NEW l \in Ids
  PROVE  mirror'[n][l] = mirror[n][l] /\ Told(s, n, l)' = Told(s, n, l)
<1>1. op'[s] = op[s]
  BY OthersStay
<1>2. op[t] # Idle => op[t].name # n
  BY DEF CallInv
<1>3. args'[n].value = args[n].value
  BY <1>2, ArgsAfter, OpAfter DEF Exists
<1>4. Told(s, n, l)' = Told(s, n, l)
  BY <1>1, <1>3 DEF Told, Tells
<1>5. mirror'[n][l] = mirror[n][l]
  <2>1. CASE CallListener(t)
    <3>1. PICK k : mirror' = [mirror EXCEPT ![op[t].name][k] = op[t].value]
      BY <2>1, Called
    <3>2. op[t].name # n
      BY <1>2, <2>1, OpAfter
    <3> QED
      BY <3>1, <3>2 DEF IdInv
  <2>2. CASE ~CallListener(t)
    BY <2>2, ActsCases DEF SetValue, LoadFromYaml, LoadNode, Compare, ListenerThrows, ReleaseRead, Assign, Written
  <2> QED
    BY <2>1, <2>2
<1> QED
  BY <1>4, <1>5

(* The thread itself tells of a value before it assigns it.                *)
LEMMA TellItself ==
  ASSUME Typing, CallInv, IdInv, NEW t \in Threads, Acts(t),
         NEW n \in Names, Exists(n), n \notin Throwing, NEW l \in cbs[n],
         mirror[n][l] \in {NoArg, Told(t, n, l)}
  PROVE  mirror'[n][l] \in {NoArg, Told(t, n, l)'}
<1>0. Idle.pc = "idle" /\ l \in Ids
  BY DEF Idle, Typing, ListenersTyped
<1>1. n \in DOMAIN args
  BY DEF Exists
<1>2. CASE CallListener(t)
  <2>1. PICK k \in op[t].left : /\ mirror' = [mirror EXCEPT ![op[t].name][k] = op[t].value]
                                /\ op'[t].left = op[t].left \ {k}
    BY <1>2, Called
  <2>2. op[t].pc = "notify" /\ op[t] # Idle /\ Becomes(t, "notify", op[t].name, op[t].value)
    BY <1>2, OpAfter DEF CallListener
  <2>3. args'[n].value = args[n].value
    BY <1>1, <1>2, <2>2, ArgsAfter, OpAfter
  <2>4. CASE op[t].name = n /\ l = k
    <3>1. mirror'[n][l] = op[t].value
      BY <1>0, <2>1, <2>4 DEF IdInv
    <3>2. Told(t, n, l)' = op[t].value
      BY <2>1, <2>2, <2>4 DEF Told, Tells, Becomes
    <3> QED
      BY <3>1, <3>2
  <2>5. CASE ~(op[t].name = n /\ l = k)
    <3>1. mirror'[n][l] = mirror[n][l]
      BY <1>0, <2>1, <2>5 DEF IdInv
    <3>2. Told(t, n, l)' = Told(t, n, l)
      BY <2>1, <2>2, <2>3, <2>5 DEF Told, Tells, Becomes
    <3> QED
      BY <3>1, <3>2
  <2> QED
    BY <2>4, <2>5
<1>3. CASE ~CallListener(t)
  <2>1. mirror' = mirror
    BY <1>3, ActsCases DEF SetValue, LoadFromYaml, LoadNode, Compare, ListenerThrows, ReleaseRead, Assign, Written
  <2>2. ASSUME ~Assign(t), ~Compare(t), ~ReleaseRead(t)
        PROVE  Told(t, n, l)' = Told(t, n, l)
    <3>1. args'[n].value = args[n].value
      BY <1>1, <2>2, ArgsAfter
    <3>2. CASE (\E m \in Names, v \in Values : SetValue(t, m, v)) \/ LoadNode(t)
      <4>1. op[t] = Idle /\ (op' = op \/ op'[t].pc = "compare")
        BY <3>2, OpAfter DEF Becomes, SetValue, MayCall
      <4> QED
        BY <3>1, <4>1 DEF Told, Tells
    <3>3. CASE \E doc \in Documents : LoadFromYaml(t, doc)
      BY <3>1, <3>3, OpAfter DEF Told, Tells
    <3>4. CASE ListenerThrows(t)
      <4>1. op'[t] = Idle /\ op[t].name # n
        BY <3>4, OpAfter DEF ListenerThrows
      <4> QED
        BY <3>1, <4>1 DEF Told, Tells
    <3> QED
      BY <1>3, <2>2, <3>2, <3>3, <3>4, ActsCases
  <2>3. CASE Compare(t)
    <3>1. ~Assign(t) /\ op[t].pc = "compare"
      BY <2>3, OpAfter
    <3>2. args'[n].value = args[n].value
      BY <1>1, <3>1, ArgsAfter
    <3>3. op'[t] = Idle \/ (Becomes(t, "notify", op[t].name, op[t].value) /\ op'[t].left = cbs[op[t].name])
      BY <2>3, OpAfter
    <3>4. ~Tells(t, n, l) /\ ~Tells(t, n, l)'
      BY <3>1, <3>3 DEF Tells, Becomes
    <3> QED
      BY <2>1, <3>2, <3>4 DEF Told
  <2>4. CASE ReleaseRead(t)
    <3>1. op[t] # Idle /\ op[t].pc = "notify" /\ op[t].left = {} /\ Becomes(t, "write", op[t].name, op[t].value)
      BY <2>4, OpAfter
    <3>2. args'[n].value = args[n].value
      BY <1>1, <3>1, ArgsAfter, OpAfter
    <3> QED
      BY <2>1, <3>1, <3>2 DEF Told, Tells, Becomes
  <2>5. CASE Assign(t)
    <3>1. op[t] # Idle /\ op[t].pc = "write" /\ op'[t] = Idle
      BY <2>5, OpAfter
    <3>2. CASE op[t].name = n
      BY <2>1, <2>5, <3>1, <3>2, ArgsAfter DEF Told, Tells
    <3>3. CASE op[t].name # n
      BY <1>1, <2>1, <3>1, <3>3, ArgsAfter DEF Told, Tells
    <3> QED
      BY <3>2, <3>3
  <2> QED
    BY <2>1, <2>2, <2>3, <2>4, <2>5
<1> QED
  BY <1>2, <1>3

(* Every step keeps what listeners have heard.                              *)
LEMMA TellNext == Typing /\ CallInv /\ IdInv /\ TellInv /\ [Next]_vars => TellInv'
<1> SUFFICES ASSUME Typing, CallInv, IdInv, TellInv, [Next]_vars PROVE TellInv'
  OBVIOUS
<1>0. cbs \in [Names -> SUBSET Ids]
  BY DEF Typing, ListenersTyped
<1>1. \A n \in Names : \A l \in cbs[n] : Exists(n) /\ l \in Ids
  BY <1>0 DEF IdInv, Given
<1>2. ASSUME UNCHANGED <<op, mirror>>,
             \A n \in Names : \A l \in cbs'[n] :
               (l \in cbs[n] /\ args'[n] = args[n]) \/ mirror[n][l] = NoArg
      PROVE  TellInv'
  BY <1>2 DEF TellInv, Alone, Told, Tells, SettersOf
<1>3. ASSUME NEW n \in Names, AddListener(n) PROVE TellInv'
  <2>1. PICK id \in Ids : ~Given(n, id) /\ cbs' = [cbs EXCEPT ![n] = @ \cup {id}]
    BY <1>3, AddAfter
  <2>2. UNCHANGED <<args, op, mirror>>
    BY <1>3, AddAfter
  <2>3. mirror[n][id] = NoArg
    BY <2>1 DEF IdInv
  <2>4. \A m \in Names : \A l \in cbs'[m] : l \in cbs[m] \/ (m = n /\ l = id)
    BY <1>0, <2>1
  <2> QED
    BY <1>2, <2>2, <2>3, <2>4
<1>4. ASSUME NEW n \in Names, ClearListener(n) \/ \E id \in Ids : DelListener(n, id) PROVE TellInv'
  BY <1>2, <1>4, RemoveAfter
<1>5. ASSUME NEW t \in Threads, Acts(t) PROVE TellInv'
  <2>1. cbs' = cbs
    BY <1>5, ArgsAfter
  <2> SUFFICES ASSUME NEW n \in Names, Alone(n), NEW l \in cbs[n], NEW s \in SettersOf(n)
               PROVE  mirror'[n][l] \in {NoArg, Told(s, n, l)'}
    BY <2>1 DEF TellInv, Alone, SettersOf
  <2>2. SettersOf(n) = {s} /\ s \in Threads /\ n \notin Throwing
    BY OneSetter DEF Alone
  <2>3. mirror[n][l] \in {NoArg, Told(s, n, l)} /\ Exists(n) /\ l \in Ids
    BY <1>1 DEF TellInv
  <2>4. CASE s = t
    BY <1>5, <2>2, <2>3, <2>4, TellItself
  <2>5. CASE s # t
    BY <1>5, <2>2, <2>3, <2>5, TellOthers
  <2> QED
    BY <2>4, <2>5
<1>6. CASE UNCHANGED vars
  BY <1>2, <1>6 DEF vars, listenerVars, callVars
<1>7. ASSUME NEW d \in Declared, LookUp(d) PROVE TellInv'
  <2>1. UNCHANGED <<op, mirror, cbs>>
    BY <1>7 DEF LookUp, listenerVars, callVars
  <2>2. \A n \in Names : Exists(n) => args'[n] = args[n]
    BY <1>7 DEF LookUp, Made, Exists
  <2> QED
    BY <1>1, <1>2, <2>1, <2>2
<1> QED
  BY <1>3, <1>4, <1>5, <1>6, <1>7, Cases

(* If one thread sets an argument, whose listeners do not throw, then each *)
(* of them that has heard of any change has heard of the last one by the   *)
(* time setValue() is through, though others are added and removed.        *)
THEOREM ListenersHearAll == Spec => []ListenersFollow
<1>1. Typing /\ IdInv /\ TellInv => ListenersFollow
  <2> SUFFICES ASSUME Typing, IdInv, TellInv, NEW n \in Names, NEW l \in cbs[n],
                      n \notin Throwing, Cardinality(SettersOf(n)) = 1,
                      \A t \in Threads : op[t] # Idle => op[t].name # n, mirror[n][l] # NoArg
               PROVE  mirror[n][l] = args[n].value
    BY DEF ListenersFollow
  <2>1. PICK s \in Threads : SettersOf(n) = {s}
    BY OneSetter
  <2>2. mirror[n][l] = Told(s, n, l)
    BY <2>1 DEF TellInv, Alone
  <2> QED
    BY <2>2 DEF Told, Tells
<1> QED BY <1>1, TypingInit, TypingStep, CallInit, CallNext, IdInit, IdNext, TellInit, TellNext, PTL DEF Spec
-----------------------------------------------------------------------------
(* What a load leads to.                                                   *)

(* No load is expected to leave anything at first.                          *)
LEMMA LoadInit == Init => LoadInv
<1> SUFFICES ASSUME Init PROVE LoadInv
  OBVIOUS
<1>1. \A t \in Loaders, n \in Names : expected[t][n] = NoArg
  BY CallsAssumption DEF Init
<1> QED
  BY <1>1 DEF LoadInv, Undisturbed

(* A step that leaves the nodes of a thread leaves where they lead, if the *)
(* argument gets what it was to get.                                       *)
LEMMA LeadsStays ==
  ASSUME Typing, NEW u \in Threads, Acts(u), NEW t \in Threads, NEW n \in Names, Leads(t, n),
         todo'[t] = todo[t], expected'[t] = expected[t], Comes(t, n)' = Comes(t, n)
  PROVE  Leads(t, n)'
<1>1. Exists(n) /\ Exists(n)'
  BY TextsStay DEF Leads
<1>2. \A x : Accepts(n, x)' = Accepts(n, x) /\ Converted(n, x)' = Converted(n, x)
  BY <1>1, ArgsAfter DEF Exists, Accepts, Converted
<1>3. ASSUME NEW i \in DOMAIN todo'[t], SetsLast(todo[t], n, i)'
      PROVE  expected'[t][n] = Converted(n, todo[t][i].text)'
  <2>1. SetsLast(todo[t], n, i)
    BY <1>2, <1>3 DEF SetsLast, Sets
  <2>2. expected[t][n] = Converted(n, todo[t][i].text)
    BY <1>3, <2>1 DEF Leads
  <2>3. Converted(n, todo[t][i].text)' = Converted(n, todo[t][i].text)
    BY <1>1, ArgsAfter DEF Exists, Converted
  <2> QED
    BY <2>2, <2>3
<1>4. ASSUME \A i \in DOMAIN todo'[t] : ~Sets(todo[t][i], n)'
      PROVE  expected'[t][n] = Comes(t, n)'
  <2>1. \A i \in DOMAIN todo[t] : ~Sets(todo[t][i], n)
    BY <1>2, <1>4 DEF Sets
  <2> QED
    BY <2>1 DEF Leads
<1> QED
  BY <1>1, <1>3, <1>4 DEF Leads

(* Steps of others.                                                        *)
LEMMA LeadsOthers ==
  ASSUME Typing, CallInv, NEW u \in Threads, Acts(u), NEW t \in Threads, t # u, NEW n \in Names,
         Undisturbed(t, n) => Leads(t, n), Undisturbed(t, n)'
  PROVE  Leads(t, n)'
<1>1. op'[t] = op[t] /\ todo'[t] = todo[t] /\ expected'[t] = expected[t]
  BY OthersStay
<1>2. disturbed[t] \subseteq disturbed'[t] /\ (Assign(u) => op[u].name \in disturbed'[t])
  <2>1. disturbed \in [Threads -> SUBSET Names]
    BY DEF CallInv
  <2>2. CASE Assign(u)
    <3>1. disturbed' = [w \in Threads |-> IF w = u THEN disturbed[w] ELSE disturbed[w] \cup {op[u].name}]
      BY <2>2 DEF Assign, Written
    <3>2. disturbed'[t] = disturbed[t] \cup {op[u].name}
      BY <3>1
    <3> QED
      BY <3>2
  <2>3. CASE ListenerThrows(u) \/ \E doc \in Documents : LoadFromYaml(u, doc)
    <3>1. op[u].pc # "write"
      BY <2>3 DEF ListenerThrows, LoadFromYaml, MayCall, Idle
    <3> QED
      BY <2>1, <2>3, <3>1 DEF ListenerThrows, LoadFromYaml, Assign
  <2>4. CASE ~Assign(u) /\ ~ListenerThrows(u) /\ ~ \E doc \in Documents : LoadFromYaml(u, doc)
    BY <2>4, ActsCases DEF SetValue, LoadNode, Compare, CallListener, ReleaseRead, loadVars
  <2> QED
    BY <2>2, <2>3, <2>4
<1>3. Undisturbed(t, n)
  BY <1>1, <1>2 DEF Undisturbed
<1>4. n \notin disturbed'[t] /\ n \in DOMAIN args
  BY <1>3 DEF Undisturbed, Leads, Exists
<1>5. args'[n].value = args[n].value
  BY <1>2, <1>4, ArgsAfter
<1>6. Comes(t, n)' = Comes(t, n)
  BY <1>1, <1>5 DEF Comes
<1> QED
  BY <1>1, <1>3, <1>6, LeadsStays

(* The load begins: the last node that is listed for an argument is the    *)
(* last valid one of the document.                                         *)
LEMMA LeadsFirst ==
  ASSUME Typing, CallInv, NEW t \in Threads, NEW doc \in Documents, LoadFromYaml(t, doc), NEW n \in Names,
         expected'[t][n] # NoArg
  PROVE  Leads(t, n)'
<1> DEFINE for == {i \in DOMAIN doc : doc[i].valid /\ doc[i].name = n /\ Accepts(n, doc[i].text)}
           A == {node \in Nodes : Sets(node, n)}
           s == Listed(doc)
<1>1. /\ UNCHANGED <<args, op>> /\ todo'[t] = s /\ op[t] = Idle
      /\ expected'[t][n] = IF ~Exists(n) THEN NoArg
                           ELSE IF for = {} THEN args[n].value
                           ELSE Converted(n, doc[CHOOSE i \in for : \A k \in for : k <= i].text)
  BY DEF LoadFromYaml, MayCall, CallInv
<1>2. Exists(n)
  BY <1>1
<1>3. doc \in Seq(Nodes) /\ s \in Seq(Nodes) /\ DOMAIN doc = 1..Len(doc) /\ Len(doc) \in Nat
  BY DocumentNodes
<1>4. Agree(doc, s, Len(doc), A)
  <2> HIDE DEF A, s
  <2> QED
    BY <1>3, ListedAgrees DEF s
<1> HIDE DEF s
<1>5. (\A i \in 1..Len(doc) : doc[i] \in Nodes) /\ \A j \in DOMAIN s : s[j] \in Nodes
  BY <1>3, LenProperties
<1>6. \A i \in DOMAIN doc : i \in for <=> doc[i].valid /\ doc[i] \in A
  BY <1>3, <1>5 DEF Sets
<1>7. ASSUME NEW j \in DOMAIN s, SetsLast(s, n, j)
      PROVE  expected'[t][n] = Converted(n, s[j].text)
  <2>1. LastOf(s, A, j)
    BY <1>5, <1>7 DEF LastOf, SetsLast
  <2> HIDE DEF for, A
  <2>2. PICK i \in 1..Len(doc) : /\ doc[i] = s[j] /\ doc[i].valid
                                 /\ \A k \in 1..Len(doc) : doc[k].valid /\ doc[k] \in A => k <= i
    BY <1>4, <2>1 DEF Agree
  <2>3. doc[i] \in A
    BY <2>1, <2>2 DEF LastOf
  <2>4. i \in for /\ \A k \in for : k \in 1..Len(doc) /\ k <= i
    <3>1. \A k \in for : k \in DOMAIN doc
      BY DEF for
    <3> QED
      BY <1>3, <1>6, <2>2, <2>3, <3>1
  <2> DEFINE c == CHOOSE k \in for : \A m \in for : m <= k
  <2>5. c \in for /\ \A m \in for : m <= c
    BY <2>4
  <2>6. c = i
    <3> HIDE DEF c
    <3>1. c \in 1..Len(doc) /\ c <= i /\ i <= c
      BY <2>4, <2>5
    <3> QED
      BY <1>3, <3>1
  <2>7. for # {}
    BY <2>4
  <2> QED
    BY <1>1, <1>2, <2>2, <2>6, <2>7
<1>8. ASSUME \A j \in DOMAIN s : ~Sets(s[j], n)
      PROVE  expected'[t][n] = args[n].value
  <2>1. \A i \in DOMAIN doc : ~(doc[i].valid /\ doc[i] \in A)
    BY <1>3, <1>4, <1>8 DEF Agree
  <2>2. for = {}
    <3> HIDE DEF A
    <3>1. for \subseteq DOMAIN doc
      OBVIOUS
    <3> HIDE DEF for
    <3> QED
      BY <1>6, <2>1, <3>1
  <2> HIDE DEF for
  <2> QED
    BY <1>1, <1>2, <2>2
<1>9. Comes(t, n)' = args[n].value
  BY <1>1 DEF Comes
<1>10. ASSUME NEW j \in DOMAIN todo'[t], SetsLast(todo[t], n, j)'
       PROVE  expected'[t][n] = Converted(n, todo[t][j].text)'
  <2>1. SetsLast(s, n, j)
    BY <1>1, <1>10 DEF SetsLast, Sets, Accepts, Exists
  <2>2. Converted(n, todo[t][j].text)' = Converted(n, s[j].text)
    BY <1>1 DEF Converted
  <2> QED
    BY <1>1, <1>7, <2>1, <2>2
<1>11. ASSUME \A j \in DOMAIN todo'[t] : ~Sets(todo[t][j], n)'
       PROVE  expected'[t][n] = Comes(t, n)'
  <2>1. \A j \in DOMAIN s : ~Sets(s[j], n)
    BY <1>1, <1>11 DEF Sets, Accepts, Exists
  <2> QED
    BY <1>8, <1>9, <2>1
<1>12. Exists(n)'
  BY <1>1, <1>2 DEF Exists
<1> QED
  BY <1>10, <1>11, <1>12 DEF Leads

(* The next node: it is the last one for its argument or passed over.      *)
LEMMA LeadsOn ==
  ASSUME Typing, CallInv, NEW t \in Threads, LoadNode(t), NEW n \in Names, Leads(t, n)
  PROVE  Leads(t, n)'
<1> DEFINE s == todo[t]
           r == Tail(s)
           node == Head(s)
<1>1. /\ Acts(t) /\ op[t] = Idle /\ s # <<>> /\ todo'[t] = r /\ expected' = expected /\ args' = args
      /\ IF Accepts(node.name, node.text)
         THEN Becomes(t, "compare", node.name, Converted(node.name, node.text)) ELSE op' = op
  <2>1. Acts(t)
    BY DEF Acts, Step
  <2> QED
    BY <2>1, OpAfter, TodoAfter DEF LoadNode, loadVars
<1>2. s \in Seq(Nodes)
  BY DEF CallInv
<1> HIDE DEF s
<1>3. /\ Len(s) \in Nat /\ DOMAIN s = 1..Len(s) /\ DOMAIN r = 1..(Len(s) - 1) /\ 1 \in DOMAIN s
      /\ \A i \in DOMAIN r : i + 1 \in DOMAIN s /\ r[i] = s[i + 1]
      /\ \A i \in DOMAIN s : i = 1 \/ (i - 1 \in DOMAIN r /\ r[i - 1] = s[i])
  <2>1. Len(s) \in Nat \ {0} /\ DOMAIN s = 1..Len(s)
    BY <1>1, <1>2, EmptySeq, LenProperties
  <2>2. r \in Seq(Nodes) /\ Len(r) = Len(s) - 1 /\ \A i \in 1..Len(r) : r[i] = s[i + 1]
    BY <1>1, <1>2, HeadTailProperties
  <2>3. DOMAIN r = 1..Len(r)
    BY <2>2, LenProperties
  <2> HIDE DEF r
  <2>4. \A i \in DOMAIN r : i + 1 \in DOMAIN s
    BY <2>1, <2>2, <2>3
  <2>5. \A i \in DOMAIN s : i # 1 => i - 1 \in DOMAIN r /\ r[i - 1] = s[(i - 1) + 1] /\ (i - 1) + 1 = i
    BY <2>1, <2>2, <2>3
  <2> QED
    BY <2>1, <2>2, <2>3, <2>4, <2>5
<1>4. node = s[1]
  BY <1>2 DEF s
<1> HIDE DEF r, node
<1>5. Exists(n) /\ Exists(n)'
  BY <1>1 DEF Leads, Exists
<1>6. ASSUME NEW i \in DOMAIN todo'[t], SetsLast(todo[t], n, i)'
      PROVE  expected'[t][n] = Converted(n, todo[t][i].text)'
  <2>1. SetsLast(r, n, i)
    BY <1>1, <1>6 DEF SetsLast, Sets, Accepts, Exists
  <2>2. i \in DOMAIN r /\ Sets(s[i + 1], n) /\ i + 1 \in DOMAIN s
    BY <1>3, <2>1 DEF SetsLast
  <2>3. ASSUME NEW k \in DOMAIN s, Sets(s[k], n) PROVE k <= i + 1
    <3>1. CASE k = 1
      BY <1>3, <2>2, <3>1
    <3>2. CASE k # 1
      <4>1. k - 1 \in DOMAIN r /\ Sets(r[k - 1], n)
        BY <1>3, <2>3, <3>2
      <4>2. k - 1 <= i
        BY <2>1, <4>1 DEF SetsLast
      <4> QED
        BY <1>3, <2>2, <4>1, <4>2
    <3> QED
      BY <3>1, <3>2
  <2>4. SetsLast(s, n, i + 1)
    BY <2>2, <2>3 DEF SetsLast
  <2>5. expected[t][n] = Converted(n, s[i + 1].text)
    BY <2>2, <2>4 DEF Leads, s
  <2>6. Converted(n, todo[t][i].text)' = Converted(n, s[i + 1].text)
    BY <1>1, <1>3, <2>2 DEF Converted
  <2> QED
    BY <1>1, <2>5, <2>6
<1>7. ASSUME \A i \in DOMAIN todo'[t] : ~Sets(todo[t][i], n)'
      PROVE  expected'[t][n] = Comes(t, n)'
  <2>1. \A i \in DOMAIN r : ~Sets(r[i], n)
    BY <1>1, <1>7 DEF Sets, Accepts, Exists
  <2>2. \A i \in DOMAIN s : i # 1 => ~Sets(s[i], n)
    BY <1>3, <2>1
  <2>3. CASE Sets(node, n)
    <3>1. \A k \in DOMAIN s : Sets(s[k], n) => k = 1
      BY <2>2
    <3>2. SetsLast(s, n, 1)
      BY <1>3, <1>4, <2>3, <3>1 DEF SetsLast
    <3>3. expected[t][n] = Converted(n, node.text)
      BY <1>3, <1>4, <3>2 DEF Leads, s
    <3>4. Becomes(t, "compare", n, Converted(n, node.text))
      BY <1>1, <2>3 DEF Sets
    <3> QED
      BY <1>1, <3>3, <3>4 DEF Comes, Becomes
  <2>4. CASE ~Sets(node, n)
    <3>1. \A i \in DOMAIN s : ~Sets(s[i], n)
      BY <1>4, <2>2, <2>4
    <3>2. expected[t][n] = args[n].value
      BY <1>1, <3>1 DEF Leads, Comes, s
    <3>3. op' = op \/ op'[t].name # n
      BY <1>1, <2>4 DEF Becomes, Sets
    <3> QED
      BY <1>1, <3>2, <3>3 DEF Comes
  <2> QED
    BY <2>3, <2>4
<1> QED
  BY <1>5, <1>6, <1>7 DEF Leads

(* Steps of the thread itself.                                             *)
LEMMA LeadsItself ==
  ASSUME Typing, CallInv, NEW t \in Threads, Acts(t), NEW n \in Names,
         Undisturbed(t, n) => Leads(t, n), Undisturbed(t, n)'
  PROVE  Leads(t, n)'
<1>0. disturbed \in [Threads -> SUBSET Names]
  BY DEF CallInv
<1>1. CASE \E doc \in Documents : LoadFromYaml(t, doc)
  BY <1>1, LeadsFirst DEF Undisturbed
<1>2. CASE LoadNode(t)
  <2>1. Undisturbed(t, n)
    BY <1>2 DEF LoadNode, loadVars, Undisturbed
  <2> QED
    BY <1>2, <2>1, LeadsOn
<1>3. CASE ~LoadNode(t) /\ ~(\E doc \in Documents : LoadFromYaml(t, doc))
  <2>1. UNCHANGED <<todo, expected>>
    BY <1>3, ActsCases DEF SetValue, Compare, CallListener, ListenerThrows, ReleaseRead, Assign, Written, loadVars
  <2>2. disturbed[t] \subseteq disturbed'[t] /\ (ListenerThrows(t) => op[t].name \in disturbed'[t])
    <3>1. CASE ListenerThrows(t)
      BY <1>0, <3>1 DEF ListenerThrows
    <3>2. CASE Assign(t)
      <4>1. ~ListenerThrows(t)
        BY <3>2 DEF Assign, ListenerThrows
      <4>2. disturbed' = [w \in Threads |-> IF w = t THEN disturbed[w] ELSE disturbed[w] \cup {op[t].name}]
        BY <3>2 DEF Assign, Written
      <4> QED
        BY <4>1, <4>2
    <3>3. CASE ~ListenerThrows(t) /\ ~Assign(t)
      BY <1>3, <3>3, ActsCases DEF SetValue, Compare, CallListener, ReleaseRead, loadVars
    <3> QED
      BY <3>1, <3>2, <3>3
  <2>3. Undisturbed(t, n) /\ n \notin disturbed'[t]
    BY <2>1, <2>2 DEF Undisturbed
  <2>4. Leads(t, n) /\ n \in DOMAIN args
    BY <2>3 DEF Leads, Exists
  <2>5. Comes(t, n)' = Comes(t, n)
    <3>1. CASE \E m \in Names, v \in Values : SetValue(t, m, v)
      <4>1. PICK m \in Names, v \in Values : SetValue(t, m, v)
        BY <3>1
      <4>2. m # n /\ op[t] = Idle /\ op'[t].name = m /\ args' = args
        BY <2>3, <4>1, OpAfter DEF SetValue, MayCall, Undisturbed, Becomes
      <4> QED
        BY <4>2 DEF Comes
    <3>2. CASE Compare(t)
      <4>1. args' = args /\ op[t] # Idle
        BY <3>2, OpAfter DEF Compare
      <4>2. (op'[t] = Idle /\ args[op[t].name].value = op[t].value) \/ Becomes(t, "notify", op[t].name, op[t].value)
        BY <3>2, OpAfter
      <4> QED
        BY <4>1, <4>2 DEF Comes, Becomes
    <3>3. CASE CallListener(t) \/ ReleaseRead(t)
      <4>1. args' = args /\ op[t] # Idle /\ op'[t] # Idle /\ op'[t].name = op[t].name /\ op'[t].value = op[t].value
        BY <3>3, OpAfter DEF CallListener, ReleaseRead, Becomes
      <4> QED
        BY <4>1 DEF Comes
    <3>4. CASE ListenerThrows(t)
      <4>1. args' = args /\ op'[t] = Idle /\ op[t].name # n
        BY <2>2, <2>3, <3>4, OpAfter DEF ListenerThrows
      <4> QED
        BY <4>1 DEF Comes
    <3>5. CASE Assign(t)
      <4>1. op[t] # Idle /\ op'[t] = Idle
        BY <3>5, OpAfter
      <4>2. args'[n].value = IF op[t].name = n THEN op[t].value ELSE args[n].value
        BY <2>4, <3>5, ArgsAfter
      <4> QED
        BY <4>1, <4>2 DEF Comes
    <3> QED
      BY <1>3, <3>1, <3>2, <3>3, <3>4, <3>5, ActsCases
  <2> QED
    BY <2>1, <2>4, <2>5, LeadsStays
<1> QED
  BY <1>1, <1>2, <1>3

(* Every step keeps where loads lead.                                       *)
LEMMA LoadNext == Typing /\ CallInv /\ LoadInv /\ [Next]_vars => LoadInv'
<1> SUFFICES ASSUME Typing, CallInv, LoadInv, [Next]_vars,
                    NEW t \in Loaders, NEW n \in Names, Undisturbed(t, n)'
             PROVE  Leads(t, n)'
  BY DEF LoadInv
<1>1. t \in Threads /\ (Undisturbed(t, n) => Leads(t, n))
  BY CallsAssumption DEF LoadInv
<1>2. CASE \E u \in Threads : Acts(u)
  <2>1. PICK u \in Threads : Acts(u)
    BY <1>2
  <2>2. CASE u = t
    BY <1>1, <2>1, <2>2, LeadsItself
  <2>3. CASE u # t
    BY <1>1, <2>1, <2>3, LeadsOthers
  <2> QED
    BY <2>2, <2>3
<1>3. CASE ~(\E u \in Threads : Acts(u))
  <2>1. UNCHANGED <<op, todo, loadVars>>
    BY <1>3, Cases DEF vars, callVars, LookUp, AddListener, ClearListener, DelListener, Remove
  <2>2. Undisturbed(t, n)
    BY <2>1 DEF Undisturbed, loadVars
  <2>3. Started
    BY <1>1, <2>2 DEF CallInv, Undisturbed
  <2>4. UNCHANGED args
    BY <1>3, <2>3, StartedStays, Cases DEF vars, AddListener, ClearListener, DelListener, Remove
  <2>5. Leads(t, n)
    BY <1>1, <2>2
  <2> QED
    BY <2>1, <2>4, <2>5 DEF Leads, Exists, SetsLast, Sets, Accepts, Converted, Comes, loadVars
<1> QED
  BY <1>2, <1>3

(* A load leaves each argument with the value of the last valid node that  *)
(* names it and converts, whatever nodes fail, and whoever sets others.    *)
THEOREM LoadsApplied == Spec => []LoadApplies
<1>1. Typing /\ LoadInv => LoadApplies
  <2> SUFFICES ASSUME Typing, LoadInv, NEW t \in Loaders, NEW n \in Names,
                      expected[t][n] # NoArg, op[t] = Idle, todo[t] = <<>>, n \notin disturbed[t],
                      <<t, n>> \notin Setters
               PROVE  args[n].value = expected[t][n]
    BY DEF LoadApplies
  <2>1. Leads(t, n)
    BY DEF LoadInv, Undisturbed
  <2>2. DOMAIN todo[t] = {}
    OBVIOUS
  <2> QED
    BY <2>1, <2>2 DEF Leads, Comes
<1> QED BY <1>1, TypingInit, TypingStep, CallInit, CallNext, LoadInit, LoadNext, PTL DEF Spec
=============================================================================
