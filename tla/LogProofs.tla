------------------------------ MODULE LogProofs ------------------------------
(***************************************************************************)
(* The loggers, for any number of threads, loggers and appenders, and for  *)
(* all documents.                                                          *)
(***************************************************************************)
EXTENDS Log, SequenceTheorems, WellFoundedInduction, FiniteSetTheorems, TLAPS

-----------------------------------------------------------------------------
(* The parts of the inductive invariants.                                  *)

Named == {Root} \cup Managed
AppenderDefs == UNION {ToSet(d.appenders) : d \in Definitions}
NamedOps == {"log", "setLevel", "setFormatter", "clearAppenders", "addAppender", "delAppender"}

(* What the listener calls, and what a user calls.                         *)
ListenerCalls ==
  {GetLogger(n) : n \in Named}
  \cup {LogTo(Root, v) : v \in {INFO, ERROR}}
  \cup {SetLevel(n, v) : n \in Named, v \in Levels}
  \cup {SetFormatter(n, f) : n \in Named, f \in Formats}
  \cup {ClearAppenders(n) : n \in Named}
  \cup {AddNew(n, ad) : n \in Named, ad \in AppenderDefs}
LastCalls ==
  {LogTo(n, v) : n \in Loggers, v \in {DEBUG, INFO}}
  \cup {SetFormatter(n, f) : n \in Manual, f \in Formats}
  \cup {ClearAppenders(n) : n \in Manual}
  \cup {AddAppender(n, a) : n \in Manual, a \in 2..1 + Spare}
  \cup {DelAppender(n, a) : n \in Manual, a \in 2..1 + Spare}
OwnCalls == {SetOwnFormatter(a, f) : a \in 2..1 + Spare, f \in Sound} \cup {ToYaml}
AnyCall == ListenerCalls \cup {GetLogger(n) : n \in Loggers} \cup LastCalls \cup OwnCalls

(* A user is in one call, for which it may have to ask for the logger.     *)
UserLists ==
  {<<>>} \cup {<<c>> : c \in LastCalls \cup OwnCalls} \cup {<<GetLogger(c.name), c>> : c \in LastCalls}

(* How far a thread can be.                                                *)
YamlAt == [step : {"loggers"}, rest : SUBSET Loggers]
WalkAt ==
  [step : {"walk", "walked"}, via : Loggers, list : Seq(AppenderIds), next : Nat, to : SUBSET AppenderIds]
RootAt == [step : {"root", "rootLock", "unlock"}, via : Loggers, refused : BOOLEAN, to : SUBSET AppenderIds]
PushAt == [step : {"push"}, a : AppenderIds, bare : BOOLEAN]
Where ==
  {AtStart} \cup [step : {"log", "lock", "left"}] \cup YamlAt \cup WalkAt \cup RootAt \cup PushAt

AppenderTypes == {"StdoutLogAppender"} \cup {ad.type : ad \in AppenderDefs}
LoggerType == [level : Levels, formatter : Sound, appenders : Seq(AppenderIds), root : BOOLEAN]
AppenderType == [level : Levels, formatter : Sound \cup {NoFormat}, own : BOOLEAN, type : AppenderTypes]

DataTyped == TypeOK /\ appender \in [AppenderIds -> AppenderType] /\ defines \subseteq Definitions
CallsTyped ==
  /\ calls \in [Actors -> Seq(AnyCall)]
  /\ calls[Loader] \in Seq(ListenerCalls)
  /\ \A t \in Users : calls[t] \in UserLists
AtTyped ==
  /\ at \in [Actors -> Where]
  /\ \A t \in Actors : at[t].step = "walk" => at[t].next \in 1..Len(at[t].list)
TypeInv == DataTyped /\ CallsTyped /\ AtTyped

(* Which call a thread is in, by its step.                                 *)
Op(t) == Head(calls[t]).op
Name(t) == Head(calls[t]).name
LogSteps == {"log", "lock", "walk", "walked", "root", "rootLock", "unlock", "left"}
Locked == {"walk", "walked", "root", "rootLock", "unlock", "left", "push"}
Coherent(t) ==
  /\ at[t].step \in LogSteps => calls[t] # <<>> /\ Op(t) = "log"
  /\ at[t].step = "push" => calls[t] # <<>> /\ Op(t) = "addAppender"
  /\ at[t].step = "loggers" => calls[t] # <<>> /\ Op(t) = "toYamlString"
  /\ at[t].step \in {"walk", "walked", "unlock"} => at[t].via \in {Name(t), Root}
  /\ at[t].step \in {"root", "rootLock", "left"} => Name(t) # Root
  /\ at[t].step \in {"root", "rootLock"} => at[t].via = Name(t)

(* A logger is used when the manager knows it: a call on it comes after    *)
(* one that asks for it.                                                   *)
Asked(cs, ns) ==
  \A k \in DOMAIN cs : cs[k].op \in NamedOps =>
    \/ cs[k].name \in ns
    \/ \E j \in DOMAIN cs : j < k /\ cs[j] = GetLogger(cs[k].name)
KnownInv ==
  /\ Root \in known /\ ~logger[Root].root
  /\ \A n \in known : n # Root => logger[n].root
  /\ \A t \in Actors : Asked(calls[t], known)
CoreInv == TypeInv /\ KnownInv /\ \A t \in Actors : Coherent(t)

(* A thread has the lock of the logger that it calls, and of the one whose *)
(* appenders it goes through.                                              *)
Holds(t, n) ==
  \/ at[t].step \in Locked /\ n = Name(t)
  \/ at[t].step \in {"walk", "walked", "unlock"} /\ n = at[t].via
LockInv ==
  /\ \A t \in Actors, n \in Loggers : lock[n] = t <=> Holds(t, n)
  /\ \A t \in Actors : manager = t <=> at[t].step = "loggers"

(* What a thread in Logger::log() has seen stays as it is.                 *)
Silent(n) == logger[n].appenders = <<>>
WalkInv ==
  \A t \in Actors :
    /\ at[t].step \in {"walk", "walked"} =>
         logger[at[t].via].appenders = at[t].list /\ at[t].list # <<>>
    /\ at[t].step \in {"root", "rootLock"} => Silent(Name(t))
    /\ at[t].step = "unlock" =>
         at[t].refused \/ (at[t].via = Root /\ Silent(Name(t)) /\ Silent(Root))

(* An appender that addAppender() has got once is in one logger at most,   *)
(* or one thread is about to add it; before, it is in none.  Only the      *)
(* appenders that the users have made can be given to it twice.            *)
In(n, a) == a \in ToSet(logger[n].appenders)
Adds(t, a) == at[t].step = "push" /\ at[t].a = a
OwnerInv ==
  /\ 1 + Spare <= made
  /\ adds \in [AppenderIds -> Nat]
  /\ \A a \in AppenderIds : a \notin 2..1 + Spare => adds[a] <= 1
  /\ \A a \in AppenderIds : a > made => adds[a] = 0
  /\ at[Loader].step = "push" => at[Loader].a > 1 + Spare
  /\ \A t \in Actors : at[t].step = "push" => at[t].bare \/ appender[at[t].a].own \/ adds[at[t].a] > 1
InOne(a) ==
  /\ \A n, m \in Loggers : In(n, a) /\ In(m, a) => n = m
  /\ \A n \in Loggers : In(n, a) => a <= made
NotIn(a) ==
  /\ appender[a].own \/ appender[a].formatter = NoFormat
  /\ \A n \in Loggers : ~In(n, a)
AddedBy(t, a) == a <= made /\ NotIn(a) /\ \A u \in Actors : Adds(u, a) => t = u
PlaceInv ==
  \A a \in AppenderIds :
    /\ adds[a] = 0 => NotIn(a) /\ \A t \in Actors : ~Adds(t, a)
    /\ adds[a] <= 1 => InOne(a) /\ \A t \in Actors : Adds(t, a) => AddedBy(t, a)

-----------------------------------------------------------------------------
(* Sequences.                                                              *)

(* Every nonempty set of numbers has a least element: induction.           *)
LEMMA LeastNat ==
  ASSUME NEW T \in SUBSET Nat, T # {}
  PROVE  \E m \in T : \A n \in T : m <= n
<1> DEFINE R == OpToRel(<, Nat)
<1>1. IsWellFoundedOn(R, Nat)
  BY NatLessThanWellFounded
<1>2. PICK m \in T : \A n \in T : <<n, m>> \notin R
  <2> HIDE DEF R
  <2> QED
    BY <1>1, WFMin
<1>3. \A n \in T : ~(n < m)
  BY <1>2 DEF OpToRel
<1> QED
  BY <1>3

(* The function by which FlattenSeq is defined.                            *)
Flat(s, f, n) == f = [i \in 1..n |-> IF i = 1 THEN s[i] ELSE f[i - 1] \o s[i]]

(* The function by which FlattenSeq is defined exists, for every length.   *)
LEMMA FlatExists ==
  ASSUME NEW s, NEW n \in Nat
  PROVE  \E f : Flat(s, f, n)
<1> DEFINE T == {k \in Nat : ~ \E f : Flat(s, f, k)}
<1>1. ASSUME T # {} PROVE FALSE
  <2>1. PICK m \in T : \A k \in T : m <= k
    <3> T \in SUBSET Nat
      OBVIOUS
    <3> HIDE DEF T
    <3> QED
      BY <1>1, LeastNat
  <2>2. m # 0
    <3>1. Flat(s, [i \in 1..0 |-> 0], 0)
      BY DEF Flat
    <3> QED
      BY <2>1, <3>1
  <2>3. m - 1 \in Nat /\ m - 1 \notin T
    BY <2>1, <2>2
  <2>4. PICK f : Flat(s, f, m - 1)
    BY <2>3
  <2> DEFINE g == [i \in 1..m |-> IF i < m THEN f[i] ELSE IF m = 1 THEN s[1] ELSE f[m - 1] \o s[m]]
  <2>5. Flat(s, g, m)
    <3>1. f = [i \in 1..(m - 1) |-> IF i = 1 THEN s[i] ELSE f[i - 1] \o s[i]]
      BY <2>4 DEF Flat
    <3>2. ASSUME NEW i \in 1..m PROVE g[i] = IF i = 1 THEN s[i] ELSE g[i - 1] \o s[i]
      <4>1. CASE i < m
        <5>1. i \in 1..(m - 1) /\ g[i] = f[i]
          BY <2>1, <4>1
        <5>2. f[i] = IF i = 1 THEN s[i] ELSE f[i - 1] \o s[i]
          BY <3>1, <5>1
        <5>3. i # 1 => g[i - 1] = f[i - 1]
          BY <2>1, <4>1
        <5> QED
          BY <5>1, <5>2, <5>3
      <4>2. CASE i = m
        BY <2>1, <2>2, <4>2
      <4> QED
        BY <2>1, <4>1, <4>2
    <3> QED
      BY <3>2 DEF Flat
  <2> QED
    BY <2>1, <2>5
<1> QED
  BY <1>1

(* What concatenation keeps, FlattenSeq keeps.                             *)
LEMMA FlattenClosed ==
  ASSUME NEW C, NEW s \in Seq(C), \A a, b \in C : a \o b \in C, <<>> \in C
  PROVE  FlattenSeq(s) \in C
<1>1. Len(s) \in Nat /\ \A i \in 1..Len(s) : s[i] \in C
  BY ElementOfSeq, LenProperties
<1>2. CASE Len(s) = 0
  <2>1. s = <<>>
    BY <1>2, EmptySeq
  <2> QED
    BY <1>2, <2>1 DEF FlattenSeq
<1>3. CASE Len(s) # 0
  <2> DEFINE flatten[i \in 1..Len(s)] == IF i = 1 THEN s[i] ELSE flatten[i - 1] \o s[i]
  <2>1. FlattenSeq(s) = flatten[Len(s)]
    BY <1>3 DEF FlattenSeq
  <2>2. flatten = [i \in 1..Len(s) |-> IF i = 1 THEN s[i] ELSE flatten[i - 1] \o s[i]]
    <3>1. PICK f : Flat(s, f, Len(s))
      BY <1>1, FlatExists
    <3>2. f = [i \in 1..Len(s) |-> IF i = 1 THEN s[i] ELSE f[i - 1] \o s[i]]
      BY <3>1 DEF Flat
    <3> QED
      BY <3>2
  <2> HIDE DEF flatten
  <2> DEFINE T == {k \in Nat : k \in 1..Len(s) /\ flatten[k] \notin C}
  <2>3. ASSUME T # {} PROVE FALSE
    <3>1. PICK m \in T : \A k \in T : m <= k
      <4> T \in SUBSET Nat
        OBVIOUS
      <4> HIDE DEF T
      <4> QED
        BY <2>3, LeastNat
    <3>2. m \in 1..Len(s) /\ s[m] \in C
      BY <1>1, <3>1
    <3>3. m # 1
      BY <2>2, <3>1, <3>2
    <3>4. m - 1 \in 1..Len(s) /\ m - 1 \notin T
      BY <1>1, <3>1, <3>2, <3>3
    <3>5. flatten[m - 1] \in C
      BY <1>1, <3>4
    <3>6. flatten[m] = flatten[m - 1] \o s[m]
      BY <2>2, <3>2, <3>3
    <3> QED
      BY <3>1, <3>2, <3>5, <3>6
  <2>4. Len(s) \in 1..Len(s)
    BY <1>1, <1>3
  <2> QED
    BY <1>1, <2>1, <2>3, <2>4
<1> QED
  BY <1>2, <1>3

(* FlattenSeq joins the elements of a list from the first to the last.     *)
LEMMA FlattenSteps ==
  ASSUME NEW C, NEW s \in Seq(C), s # <<>>
  PROVE  \E f : /\ FlattenSeq(s) = f[Len(s)] /\ f[1] = s[1]
                /\ \A k \in 2..Len(s) : f[k] = f[k - 1] \o s[k]
<1> DEFINE flatten[i \in 1..Len(s)] == IF i = 1 THEN s[i] ELSE flatten[i - 1] \o s[i]
<1>1. Len(s) \in Nat \ {0}
  BY EmptySeq, LenProperties
<1>2. FlattenSeq(s) = flatten[Len(s)]
  BY <1>1 DEF FlattenSeq
<1>3. flatten = [i \in 1..Len(s) |-> IF i = 1 THEN s[i] ELSE flatten[i - 1] \o s[i]]
  <2>1. PICK f : Flat(s, f, Len(s))
    BY <1>1, FlatExists
  <2>2. f = [i \in 1..Len(s) |-> IF i = 1 THEN s[i] ELSE f[i - 1] \o s[i]]
    BY <2>1 DEF Flat
  <2> QED
    BY <2>2
<1> HIDE DEF flatten
<1>4. flatten[1] = s[1]
  BY <1>1, <1>3
<1>5. ASSUME NEW k \in 2..Len(s) PROVE flatten[k] = flatten[k - 1] \o s[k]
  <2>1. k \in 1..Len(s) /\ k # 1
    BY <1>1
  <2> QED
    BY <1>3, <2>1
<1> QED
  BY <1>2, <1>4, <1>5

(* Lists of one element are joined to the list of these elements.          *)
LEMMA FlattenSingles ==
  ASSUME NEW B, NEW a \in Seq(B)
  PROVE  FlattenSeq([k \in DOMAIN a |-> <<a[k]>>]) = a
<1> DEFINE s == [k \in DOMAIN a |-> <<a[k]>>]
<1>1. Len(a) \in Nat /\ DOMAIN a = 1..Len(a) /\ \A k \in 1..Len(a) : a[k] \in B
  BY ElementOfSeq, LenProperties
<1>2. s \in Seq(Seq(B)) /\ Len(s) = Len(a)
  BY <1>1
<1>3. CASE a = <<>>
  <2>1. s = <<>>
    BY <1>2, <1>3, EmptySeq
  <2>2. FlattenSeq(<<>>) = <<>>
    BY DEF FlattenSeq
  <2> QED
    BY <1>3, <2>1, <2>2
<1>4. CASE a # <<>>
  <2>1. Len(a) # 0 /\ s # <<>>
    BY <1>1, <1>2, <1>4, EmptySeq
  <2> HIDE DEF s
  <2>2. PICK f : FlattenSeq(s) = f[Len(s)] /\ f[1] = s[1] /\ \A k \in 2..Len(s) : f[k] = f[k - 1] \o s[k]
    BY <1>2, <2>1, FlattenSteps
  <2> DEFINE Good(k) == f[k] \in Seq(B) /\ Len(f[k]) = k /\ \A i \in 1..k : f[k][i] = a[i]
             T == {k \in Nat : k \in 1..Len(a) /\ ~Good(k)}
  <2>3. \A k \in 1..Len(a) : s[k] = <<a[k]>> /\ s[k] \in Seq(B)
    BY <1>1 DEF s
  <2>4. Good(1)
    <3>1. 1 \in 1..Len(a) /\ f[1] = <<a[1]>> /\ a[1] \in B
      BY <1>1, <2>1, <2>2, <2>3
    <3>2. <<a[1]>> \in Seq(B) /\ Len(<<a[1]>>) = 1 /\ <<a[1]>>[1] = a[1]
      BY <3>1
    <3> QED
      BY <3>1, <3>2
  <2>5. ASSUME NEW k \in 2..Len(a), Good(k - 1) PROVE Good(k)
    <3>1. f[k] = f[k - 1] \o <<a[k]>> /\ a[k] \in B /\ k \in Nat
      <4>1. k \in 1..Len(a) /\ k \in 2..Len(s) /\ k \in Nat
        BY <1>1, <1>2
      <4>2. f[k] = f[k - 1] \o s[k] /\ s[k] = <<a[k]>> /\ a[k] \in B
        BY <1>1, <2>2, <2>3, <4>1
      <4> QED
        BY <4>1, <4>2
    <3> QED
      BY <2>5, <3>1
  <2>6. T = {}
    <3> SUFFICES ASSUME T # {} PROVE FALSE
      OBVIOUS
    <3>1. PICK m \in T : \A k \in T : m <= k
      <4> T \in SUBSET Nat
        OBVIOUS
      <4> HIDE DEF T
      <4> QED
        BY LeastNat
    <3>2. m \in 1..Len(a) /\ ~Good(m)
      BY <3>1
    <3> HIDE DEF Good
    <3>3. m # 1 /\ m - 1 \in 1..Len(a) /\ m \in 2..Len(a)
      BY <1>1, <2>4, <3>2
    <3>4. Good(m - 1)
      BY <1>1, <3>1, <3>3
    <3> QED
      BY <2>5, <3>2, <3>3, <3>4
  <2>7. Good(Len(a))
    BY <1>1, <2>1, <2>6
  <2> QED
    BY <1>1, <1>2, <2>2, <2>7, SeqEqual DEF s
<1> QED
  BY <1>3, <1>4

(* The cast keeps the appenders that are of use, and reads no other.       *)
LEMMA ReadAppendersType ==
  ASSUME NEW A, NEW list \in Seq(A)
  PROVE  ReadAppenders(list) \in Seq({ToAppender(an) : an \in {x \in A : Usable(x)}})
<1> DEFINE B == {ToAppender(an) : an \in {x \in A : Usable(x)}}
           s == [k \in DOMAIN list |-> ReadAppender(list[k])]
<1>1. Len(list) \in Nat /\ DOMAIN list = 1..Len(list) /\ \A k \in 1..Len(list) : list[k] \in A
  BY ElementOfSeq, LenProperties
<1>2. ASSUME NEW an \in A PROVE ReadAppender(an) \in Seq(B)
  <2>1. CASE Usable(an)
    <3>1. ToAppender(an) \in B
      BY <2>1
    <3> HIDE DEF B
    <3> QED
      BY <2>1, <3>1 DEF ReadAppender
  <2>2. CASE ~Usable(an)
    BY <2>2 DEF ReadAppender
  <2> QED
    BY <2>1, <2>2
<1> HIDE DEF B
<1>3. s \in Seq(Seq(B))
  BY <1>1, <1>2
<1> HIDE DEF s
<1> DEFINE C == Seq(B)
<1>4. <<>> \in C /\ \A x, y \in C : x \o y \in C
  BY ConcatProperties
<1>5. s \in Seq(C)
  BY <1>3
<1> HIDE DEF C
<1>6. FlattenSeq(s) \in C
  BY <1>4, <1>5, FlattenClosed
<1> QED
  BY <1>6 DEF ReadAppenders, s, B, C

(* A shorter list has no more elements.                                    *)
LEMMA TailElements ==
  ASSUME NEW S, NEW s \in Seq(S), s # <<>>
  PROVE  /\ Head(s) = s[1] /\ Head(s) \in S /\ Tail(s) \in Seq(S)
         /\ DOMAIN s = 1..Len(s) /\ Len(s) \in Nat /\ 1 \in DOMAIN s
         /\ DOMAIN Tail(s) = 1..(Len(s) - 1)
         /\ \A k \in DOMAIN Tail(s) : k + 1 \in DOMAIN s /\ Tail(s)[k] = s[k + 1]
<1>1. Len(s) \in Nat \ {0} /\ DOMAIN s = 1..Len(s)
  BY EmptySeq, LenProperties
<1>2. Head(s) = s[1]
  OBVIOUS
<1>3. Head(s) \in S /\ Tail(s) \in Seq(S) /\ Len(Tail(s)) = Len(s) - 1
      /\ \A i \in 1..Len(Tail(s)) : Tail(s)[i] = s[i + 1]
  BY HeadTailProperties
<1>4. DOMAIN Tail(s) = 1..(Len(s) - 1)
  BY <1>3, LenProperties
<1> QED
  BY <1>1, <1>2, <1>3, <1>4

(* delAppender() leaves a list of appenders, and none that was not there.  *)
LEMMA RemoveFirstType ==
  ASSUME NEW S, NEW s \in Seq(S), NEW e
  PROVE  /\ RemoveFirst(s, e) \in Seq(S)
         /\ ToSet(RemoveFirst(s, e)) \subseteq ToSet(s)
<1> DEFINE I == {i \in 1..Len(s) : s[i] = e}
<1>0. Len(s) \in Nat /\ DOMAIN s = 1..Len(s) /\ \A i \in 1..Len(s) : s[i] \in S
  BY ElementOfSeq, LenProperties
<1>1. CASE \E i \in 1..Len(s) : s[i] = e
  <2>1. I # {} /\ I \in SUBSET Nat
    BY <1>1, <1>0
  <2>2. PICK m \in I : \A n \in I : m <= n
    <3> HIDE DEF I
    <3> QED
      BY <2>1, LeastNat
  <2>3. SelectInSeq(s, LAMBDA v : v = e) = Min(I)
    BY <2>1 DEF SelectInSeq
  <2>4. Min(I) = m
    <3>1. Min(I) = CHOOSE x \in I : \A y \in I : x <= y
      BY DEF Min
    <3>2. \A x \in I : (\A y \in I : x <= y) => x = m
      BY <1>0, <2>1, <2>2
    <3> HIDE DEF I
    <3> QED
      BY <2>2, <3>1, <3>2
  <2>5. m \in 1..Len(s)
    BY <2>2
  <2>6. RemoveFirst(s, e) = RemoveAt(s, m)
    BY <1>1, <2>3, <2>4 DEF RemoveFirst
  <2>7. RemoveAt(s, m) = SubSeq(s, 1, m - 1) \o SubSeq(s, m + 1, Len(s))
    BY DEF RemoveAt
  <2>8. /\ SubSeq(s, 1, m - 1) \in Seq(ToSet(s))
        /\ SubSeq(s, m + 1, Len(s)) \in Seq(ToSet(s))
    <3>1. \A i \in 1..(m - 1) : s[i] \in ToSet(s)
      BY <1>0, <2>5 DEF ToSet
    <3>2. \A i \in (m + 1)..Len(s) : s[i] \in ToSet(s)
      BY <1>0, <2>5 DEF ToSet
    <3> QED
      BY <1>0, <2>5, <3>1, <3>2, SubSeqProperties
  <2>9. RemoveFirst(s, e) \in Seq(ToSet(s))
    BY <2>6, <2>7, <2>8, ConcatProperties
  <2>10. ToSet(s) \subseteq S
    BY <1>0 DEF ToSet
  <2>11. RemoveFirst(s, e) \in Seq(S)
    BY <2>9, <2>10, SeqMonotonic
  <2>12. ToSet(RemoveFirst(s, e)) \subseteq ToSet(s)
    <3> DEFINE r == RemoveFirst(s, e)
    <3>1. r \in Seq(ToSet(s))
      BY <2>9
    <3> HIDE DEF r
    <3>2. \A i \in DOMAIN r : r[i] \in ToSet(s)
      BY <3>1, ElementOfSeq, LenProperties
    <3>3. ToSet(r) \subseteq ToSet(s)
      BY <3>2 DEF ToSet
    <3> QED
      BY <3>3 DEF r
  <2> QED
    BY <2>11, <2>12
<1>2. CASE ~ \E i \in 1..Len(s) : s[i] = e
  BY <1>2 DEF RemoveFirst
<1> QED
  BY <1>1, <1>2

-----------------------------------------------------------------------------
(* The calls.                                                              *)

(* What the assumptions say of the constants.                              *)
LEMMA Constants ==
  /\ Sound \subseteq Formats /\ NoFormat \notin Formats /\ DefaultFormat \in Sound
  /\ Nobody \notin Actors /\ Loader \in Actors /\ Loader \notin Users /\ Users \subseteq Actors
  /\ Root \in Loggers /\ Named \subseteq Loggers /\ Manual \subseteq Loggers
  /\ 1 \in AppenderIds /\ 2..1 + Spare \subseteq AppenderIds /\ AppenderIds \subseteq Nat
  /\ 1 + Spare \in AppenderIds /\ Spare \in Nat /\ MaxAppenders \in Nat
  /\ \A v \in {0, DEBUG, INFO, ERROR} : v \in Levels
  BY LogAssumption DEF Sound, Actors, Loggers, Named, AppenderIds, Levels, DEBUG, INFO, ERROR

(* What the cast makes of a list of appenders.                             *)
LEMMA DefineAppenders ==
  ASSUME NEW node, HasList(node)
  PROVE  /\ ToDefine(node).appenders
              \in Seq({ToAppender(an) : an \in {x \in ToSet(Given(node.appenders, <<>>)) : Usable(x)}})
         /\ ToDefine(node).appenders \in Seq(ToSet(ToDefine(node).appenders))
<1> DEFINE list == Given(node.appenders, <<>>)
           B == {ToAppender(an) : an \in {x \in ToSet(list) : Usable(x)}}
           read == ToDefine(node).appenders
<1>1. list \in Seq(ToSet(list))
  BY DEF HasList
<1>2. read = ReadAppenders(list)
  BY DEF ToDefine
<1> HIDE DEF list, read
<1>3. read \in Seq(B)
  BY <1>1, <1>2, ReadAppendersType
<1> HIDE DEF B
<1>4. read \in Seq(ToSet(read))
  BY <1>3, LenProperties DEF ToSet
<1> QED
  BY <1>3, <1>4 DEF list, B, read

(* What the listener reads in a definition.                                *)
LEMMA DefinitionFields ==
  ASSUME NEW d \in Definitions
  PROVE  /\ d.name \in Named /\ d.level \in Levels /\ d.formatter \in Formats \cup {NoFormat}
         /\ d.appenders \in Seq(AppenderDefs)
<1>1. PICK node : d = ToDefine(node)
  BY DEF Definitions
<1>2. d.level = FromString(Given(node.level, ""))
  BY <1>1 DEF ToDefine
<1>3. d.level \in Levels
  <2> DEFINE w == Given(node.level, "")
             F(v) == w \in {LevelNames[v], LowerNames[v]}
  <2>1. FromString(w) = IF \E v \in 1..5 : F(v) THEN CHOOSE v \in 1..5 : F(v) ELSE 0
    BY DEF FromString
  <2> HIDE DEF F, w
  <2>2. FromString(w) \in 0..5
    BY <2>1
  <2> QED
    BY <1>2, <2>2 DEF w, Levels
<1>4. ToSet(d.appenders) \subseteq AppenderDefs
  BY DEF AppenderDefs
<1>5. d.appenders \in Seq(AppenderDefs)
  <2>1. PICK x \in UNION Documents : d = ToDefine(x)
    BY DEF Definitions
  <2>2. d.appenders \in Seq(ToSet(d.appenders))
    BY <2>1, DocumentAssumption, DefineAppenders
  <2> QED
    BY <1>4, <2>2, SeqMonotonic
<1> QED
  BY <1>3, <1>5, DocumentAssumption DEF Named

(* What the listener makes of the definition of an appender.               *)
LEMMA AppenderDefFields ==
  ASSUME NEW ad \in AppenderDefs
  PROVE  /\ ad.level \in Levels /\ ad.formatter \in Formats \cup {NoFormat} /\ ad.type \in AppenderTypes
         /\ Made(ad) \in AppenderType
         /\ Made(ad).own \/ Made(ad).formatter = NoFormat
         /\ Made(ad).own => Made(ad).formatter # NoFormat
<1>1. PICK d \in Definitions : ad \in ToSet(d.appenders)
  BY DEF AppenderDefs
<1>2. PICK node \in UNION Documents : d = ToDefine(node)
  BY DEF Definitions
<1>3. PICK an : ad = ToAppender(an)
  <2> DEFINE B == {ToAppender(an) : an \in {x \in ToSet(Given(node.appenders, <<>>)) : Usable(x)}}
  <2>1. d.appenders \in Seq(B)
    BY <1>2, DocumentAssumption, DefineAppenders
  <2>2. ad \in B
    <3> HIDE DEF B
    <3> QED
      BY <1>1, <2>1, LenProperties DEF ToSet
  <2> QED
    BY <2>2
<1>4. ad.level = 0
  BY <1>3 DEF ToAppender
<1>5. ad.formatter \in Formats \cup {NoFormat}
  BY <1>1, DocumentAssumption
<1>6. ad.type \in AppenderTypes
  BY DEF AppenderTypes
<1>7. ad.level \in Levels
  BY <1>4, Constants
<1>8. ad.formatter # NoFormat /\ ~IsError(ad.formatter) => ad.formatter \in Sound
  BY <1>5 DEF Sound
<1> QED
  BY <1>5, <1>6, <1>7, <1>8 DEF Made, AppenderType

(* A call, by what it does.                                                *)
Shape(c) ==
  /\ c.op \in NamedOps \cup {"getLogger", "appender", "toYamlString"}
  /\ c.op \in NamedOps \cup {"getLogger"} => c.name \in Loggers
  /\ c.op \in {"log", "setLevel"} => c.level \in Levels
  /\ c.op = "setFormatter" => c.formatter \in Formats
  /\ c.op = "addAppender" =>
       /\ c.new = <<>> => c.a \in 2..1 + Spare
       /\ c.new # <<>> => \E ad \in AppenderDefs : c.new = <<ad>>
  /\ c.op = "appender" => c.a \in 2..1 + Spare /\ c.formatter \in Sound
  /\ c.op = "getLogger" => c = GetLogger(c.name)

(* Every call has the fields that its operation reads.                     *)
LEMMA CallShape ==
  ASSUME NEW c \in AnyCall
  PROVE  Shape(c)
<1>1. ASSUME NEW n \in Loggers PROVE Shape(GetLogger(n))
  BY <1>1 DEF Shape, GetLogger, NamedOps
<1>2. ASSUME NEW n \in Loggers, NEW v \in Levels PROVE Shape(LogTo(n, v))
  BY <1>2 DEF Shape, LogTo, NamedOps
<1>3. ASSUME NEW n \in Loggers, NEW v \in Levels PROVE Shape(SetLevel(n, v))
  BY <1>3 DEF Shape, SetLevel, NamedOps
<1>4. ASSUME NEW n \in Loggers, NEW f \in Formats PROVE Shape(SetFormatter(n, f))
  BY <1>4 DEF Shape, SetFormatter, NamedOps
<1>5. ASSUME NEW n \in Loggers PROVE Shape(ClearAppenders(n))
  BY <1>5 DEF Shape, ClearAppenders, NamedOps
<1>6. ASSUME NEW n \in Loggers, NEW ad \in AppenderDefs PROVE Shape(AddNew(n, ad))
  BY <1>6 DEF Shape, AddNew, NamedOps
<1>7. ASSUME NEW n \in Loggers, NEW a \in 2..1 + Spare PROVE Shape(AddAppender(n, a))
  BY <1>7 DEF Shape, AddAppender, NamedOps
<1>8. ASSUME NEW n \in Loggers, NEW a \in 2..1 + Spare PROVE Shape(DelAppender(n, a))
  BY <1>8 DEF Shape, DelAppender, NamedOps
<1>9. ASSUME NEW a \in 2..1 + Spare, NEW f \in Sound PROVE Shape(SetOwnFormatter(a, f))
  BY <1>9 DEF Shape, SetOwnFormatter, NamedOps
<1>10. Shape(ToYaml)
  BY DEF Shape, ToYaml, NamedOps
<1>11. CASE c \in ListenerCalls
  BY <1>1, <1>2, <1>3, <1>4, <1>5, <1>6, <1>11, Constants DEF ListenerCalls
<1>12. CASE c \in LastCalls \cup OwnCalls
  BY <1>2, <1>4, <1>5, <1>7, <1>8, <1>9, <1>10, <1>12, Constants DEF LastCalls, OwnCalls
<1> QED
  BY <1>1, <1>11, <1>12 DEF AnyCall

(* What a user's list holds.                                               *)
LEMMA UserListCalls ==
  ASSUME NEW cs \in UserLists
  PROVE  /\ cs \in Seq(AnyCall)
         /\ cs # <<>> => Tail(cs) \in UserLists
         /\ \A j, k \in DOMAIN cs : cs[j].op # "getLogger" /\ cs[k].op # "getLogger" => j = k
         /\ \A k \in DOMAIN cs : cs[k].op = "addAppender" => cs[k].new = <<>>
<1>1. CASE cs = <<>>
  BY <1>1
<1>2. ASSUME NEW c \in LastCalls \cup OwnCalls PROVE c \in AnyCall /\ (c.op = "addAppender" => c.new = <<>>)
  BY <1>2 DEF AnyCall, LastCalls, OwnCalls, LogTo, SetFormatter, ClearAppenders, AddAppender, DelAppender,
     SetOwnFormatter, ToYaml
<1>3. ASSUME NEW c \in LastCalls PROVE GetLogger(c.name) \in AnyCall /\ GetLogger(c.name).op = "getLogger"
  <2>1. c \in AnyCall /\ c.op \in NamedOps
    BY <1>3 DEF AnyCall, NamedOps, LastCalls, LogTo, SetFormatter, ClearAppenders, AddAppender, DelAppender
  <2>2. c.name \in Loggers
    BY <2>1, CallShape DEF Shape
  <2> QED
    BY <2>2 DEF AnyCall, GetLogger
<1>4. ASSUME NEW c \in LastCalls \cup OwnCalls, cs = <<c>>
      PROVE  /\ cs \in Seq(AnyCall) /\ Tail(cs) \in UserLists
             /\ \A j, k \in DOMAIN cs : cs[j].op # "getLogger" /\ cs[k].op # "getLogger" => j = k
             /\ \A k \in DOMAIN cs : cs[k].op = "addAppender" => cs[k].new = <<>>
  <2>1. DOMAIN cs = {1} /\ cs[1] = c /\ Tail(cs) = <<>>
    BY <1>4
  <2>2. cs \in Seq(AnyCall)
    BY <1>2, <1>4
  <2> QED
    BY <1>2, <2>1, <2>2 DEF UserLists
<1>5. ASSUME NEW c \in LastCalls, cs = <<GetLogger(c.name), c>>
      PROVE  /\ cs \in Seq(AnyCall) /\ Tail(cs) \in UserLists
             /\ \A j, k \in DOMAIN cs : cs[j].op # "getLogger" /\ cs[k].op # "getLogger" => j = k
             /\ \A k \in DOMAIN cs : cs[k].op = "addAppender" => cs[k].new = <<>>
  <2> DEFINE g == GetLogger(c.name)
  <2>1. g \in AnyCall /\ g.op = "getLogger" /\ c \in AnyCall /\ (c.op = "addAppender" => c.new = <<>>)
    BY <1>2, <1>3
  <2> HIDE DEF g
  <2>2. cs = <<g, c>>
    BY <1>5 DEF g
  <2>3. DOMAIN cs = {1, 2} /\ cs[1] = g /\ cs[2] = c /\ Tail(cs) = <<c>>
    BY <2>2
  <2>4. cs \in Seq(AnyCall)
    BY <2>1, <2>2
  <2> QED
    BY <2>1, <2>3, <2>4 DEF UserLists
<1> QED
  BY <1>1, <1>4, <1>5 DEF UserLists

(* Lists in which every logger is asked for, one after the other.          *)
AskingLists == {cs \in Seq(ListenerCalls) : Asked(cs, {Root})}

(* Lists that ask for their loggers, one after the other.                  *)
LEMMA AskedConcat ==
  ASSUME NEW s \in AskingLists, NEW u \in AskingLists
  PROVE  s \o u \in AskingLists
<1>1. /\ s \o u \in Seq(ListenerCalls)
      /\ Len(s) \in Nat /\ DOMAIN s = 1..Len(s) /\ Len(u) \in Nat /\ DOMAIN u = 1..Len(u)
      /\ DOMAIN (s \o u) = 1..Len(s) + Len(u)
      /\ \A i \in 1..Len(s) + Len(u) : (s \o u)[i] = IF i <= Len(s) THEN s[i] ELSE u[i - Len(s)]
  BY ConcatProperties, LenProperties DEF AskingLists
<1>2. ASSUME NEW k \in DOMAIN (s \o u), (s \o u)[k].op \in NamedOps, (s \o u)[k].name # Root
      PROVE  \E j \in DOMAIN (s \o u) : j < k /\ (s \o u)[j] = GetLogger((s \o u)[k].name)
  <2>1. CASE k <= Len(s)
    <3>1. k \in DOMAIN s /\ (s \o u)[k] = s[k]
      BY <1>1, <2>1
    <3>2. PICK j \in DOMAIN s : j < k /\ s[j] = GetLogger(s[k].name)
      BY <1>2, <3>1 DEF AskingLists, Asked
    <3>3. j \in DOMAIN (s \o u) /\ (s \o u)[j] = s[j]
      BY <1>1, <3>2
    <3> QED
      BY <3>1, <3>2, <3>3
  <2>2. CASE ~(k <= Len(s))
    <3>1. k - Len(s) \in DOMAIN u /\ (s \o u)[k] = u[k - Len(s)]
      BY <1>1, <2>2
    <3>2. PICK j \in DOMAIN u : j < k - Len(s) /\ u[j] = GetLogger(u[k - Len(s)].name)
      BY <1>2, <3>1 DEF AskingLists, Asked
    <3>3. j + Len(s) \in DOMAIN (s \o u) /\ (s \o u)[j + Len(s)] = u[j] /\ j + Len(s) < k
      BY <1>1, <3>2
    <3> QED
      BY <3>1, <3>2, <3>3
  <2> QED
    BY <2>1, <2>2
<1> QED
  BY <1>1, <1>2 DEF AskingLists, Asked

(* A list of calls on one logger that begins by asking for it.             *)
CallsOn(n) == {c \in ListenerCalls : c.op \in NamedOps => c.name = n}

(* A list on one logger that begins by asking for it.                      *)
LEMMA AskedFirst ==
  ASSUME NEW n \in Named, NEW cs \in Seq(CallsOn(n)), cs # <<>>, cs[1] = GetLogger(n)
  PROVE  cs \in AskingLists
<1>1. cs \in Seq(ListenerCalls)
  BY SeqMonotonic DEF CallsOn
<1>2. Len(cs) \in Nat /\ DOMAIN cs = 1..Len(cs) /\ 1 \in DOMAIN cs
  BY EmptySeq, LenProperties
<1>3. ASSUME NEW k \in DOMAIN cs, cs[k].op \in NamedOps
      PROVE  1 < k /\ cs[1] = GetLogger(cs[k].name)
  <2>1. cs[k] \in CallsOn(n)
    BY <1>2, ElementOfSeq
  <2>2. k # 1
    BY <1>3 DEF GetLogger, NamedOps
  <2> QED
    BY <1>2, <1>3, <2>1, <2>2 DEF CallsOn
<1> QED
  BY <1>1, <1>2, <1>3 DEF AskingLists, Asked

(* The first element of a list with more behind it.                        *)
LEMMA JoinedFirst ==
  ASSUME NEW S, NEW s \in Seq(S), NEW u \in Seq(S), s # <<>>
  PROVE  s \o u \in Seq(S) /\ s \o u # <<>> /\ (s \o u)[1] = s[1]
<1>1. Len(s) \in Nat \ {0} /\ Len(u) \in Nat
  BY EmptySeq, LenProperties
<1>2. s \o u \in Seq(S) /\ Len(s \o u) = Len(s) + Len(u)
      /\ \A i \in 1..Len(s) + Len(u) : (s \o u)[i] = IF i <= Len(s) THEN s[i] ELSE u[i - Len(s)]
  BY ConcatProperties
<1> QED
  BY <1>1, <1>2, EmptySeq

(* A definition is applied to a logger that has been asked for.            *)
LEMMA ApplyAsks ==
  ASSUME NEW d \in Definitions
  PROVE  Apply(d) \in AskingLists
<1> DEFINE n == d.name
           C == CallsOn(n)
           s1 == <<GetLogger(n), SetLevel(n, d.level)>>
           s2 == IF d.formatter = NoFormat THEN <<>> ELSE <<SetFormatter(n, d.formatter)>>
           s3 == <<ClearAppenders(n)>>
           s4 == [k \in DOMAIN d.appenders |-> AddNew(n, d.appenders[k])]
<1>1. /\ n \in Named /\ d.level \in Levels /\ d.formatter \in Formats \cup {NoFormat}
      /\ d.appenders \in Seq(AppenderDefs)
  BY DefinitionFields
<1>2. GetLogger(n) \in C /\ SetLevel(n, d.level) \in C /\ ClearAppenders(n) \in C
  BY <1>1 DEF CallsOn, ListenerCalls, NamedOps, GetLogger, SetLevel, ClearAppenders
<1>3. d.formatter # NoFormat => SetFormatter(n, d.formatter) \in C
  BY <1>1 DEF CallsOn, ListenerCalls, SetFormatter
<1>4. \A ad \in AppenderDefs : AddNew(n, ad) \in C
  BY <1>1 DEF CallsOn, ListenerCalls, AddNew
<1>5. s4 \in Seq(C)
  <2>1. Len(d.appenders) \in Nat /\ DOMAIN d.appenders = 1..Len(d.appenders)
        /\ \A k \in DOMAIN d.appenders : d.appenders[k] \in AppenderDefs
    BY <1>1, ElementOfSeq, LenProperties
  <2>2. s4 \in [1..Len(d.appenders) -> C]
    BY <1>4, <2>1
  <2> HIDE DEF s4, C
  <2> QED
    BY <2>1, <2>2, SeqDef
<1>6. s1 \in Seq(C) /\ s2 \in Seq(C) /\ s3 \in Seq(C) /\ s1[1] = GetLogger(n) /\ s1 # <<>>
  <2> DEFINE g == GetLogger(n)
             v == SetLevel(n, d.level)
             f == SetFormatter(n, d.formatter)
             c == ClearAppenders(n)
  <2>1. g \in C /\ v \in C /\ c \in C /\ (d.formatter # NoFormat => f \in C)
    BY <1>2, <1>3
  <2> HIDE DEF g, v, f, c, C
  <2>2. <<g, v>> \in Seq(C) /\ <<g, v>>[1] = g /\ <<g, v>> # <<>> /\ <<c>> \in Seq(C)
    BY <2>1
  <2>3. (IF d.formatter = NoFormat THEN <<>> ELSE <<f>>) \in Seq(C)
    BY <2>1
  <2> QED
    BY <2>2, <2>3 DEF g, v, f, c
<1>7. Apply(d) = s1 \o s2 \o s3 \o s4
  BY DEF Apply
<1> HIDE DEF s1, s2, s3, s4, C
<1>8. /\ s1 \o s2 \in Seq(C) /\ s1 \o s2 # <<>> /\ (s1 \o s2)[1] = s1[1]
      /\ s1 \o s2 \o s3 \in Seq(C) /\ s1 \o s2 \o s3 # <<>> /\ (s1 \o s2 \o s3)[1] = (s1 \o s2)[1]
  BY <1>6, JoinedFirst
<1>9. Apply(d) \in Seq(C) /\ Apply(d) # <<>> /\ Apply(d)[1] = GetLogger(n)
  BY <1>5, <1>6, <1>7, <1>8, JoinedFirst
<1> QED
  BY <1>1, <1>9, AskedFirst DEF C

(* So is its removal.                                                      *)
LEMMA RetireAsks ==
  ASSUME NEW n \in Named
  PROVE  Retire(n) \in AskingLists
<1> DEFINE C == CallsOn(n)
<1>1. GetLogger(n) \in C /\ SetLevel(n, 0) \in C /\ ClearAppenders(n) \in C
  BY Constants DEF CallsOn, ListenerCalls, NamedOps, GetLogger, SetLevel, ClearAppenders
<1>2. Retire(n) \in Seq(C) /\ Retire(n) # <<>> /\ Retire(n)[1] = GetLogger(n)
  <2> HIDE DEF C
  <2> QED
    BY <1>1 DEF Retire
<1> QED
  BY <1>2, AskedFirst

(* So is all that the listener calls.                                      *)
LEMMA ListenerAsks ==
  ASSUME NEW old \in SUBSET Definitions, NEW new \in SUBSET Definitions
  PROVE  Listener(old, new) \in AskingLists
<1> DEFINE A == AskingLists
           ToApply(n) == LET ds == {x \in new \ old : x.name = n}
                         IN IF ds = {} THEN <<>> ELSE Apply(CHOOSE x \in ds : TRUE)
           ToRetire(n) == IF n \in NamesOf(old) \ NamesOf(new) THEN Retire(n) ELSE <<>>
           s1 == <<LogTo(Root, INFO)>>
           s2 == [k \in DOMAIN NameOrder |-> ToApply(NameOrder[k])]
           s3 == [k \in DOMAIN NameOrder |-> ToRetire(NameOrder[k])]
<1>1. <<>> \in A
  BY EmptySeq DEF AskingLists, Asked
<1>2. s1 \in A
  <2>1. LogTo(Root, INFO) \in ListenerCalls
    BY DEF ListenerCalls
  <2>2. LogTo(Root, INFO).name = Root
    BY DEF LogTo
  <2>3. \A k \in DOMAIN s1 : s1[k].name = Root
    BY <2>2
  <2> QED
    BY <2>1, <2>3 DEF AskingLists, Asked
<1>3. ASSUME NEW n \in Named PROVE ToApply(n) \in A /\ ToRetire(n) \in A
  BY <1>1, <1>3, ApplyAsks, RetireAsks
<1>4. /\ Len(NameOrder) \in Nat /\ DOMAIN NameOrder = 1..Len(NameOrder)
      /\ \A k \in DOMAIN NameOrder : NameOrder[k] \in Named
  BY LogAssumption, ElementOfSeq, LenProperties DEF Named
<1>5. Listener(old, new) = s1 \o FlattenSeq(s2) \o FlattenSeq(s3)
  BY Zenon DEF Listener
<1> HIDE DEF ToApply, ToRetire
<1>6. s2 \in [1..Len(NameOrder) -> A] /\ s3 \in [1..Len(NameOrder) -> A]
  BY <1>3, <1>4
<1> HIDE DEF A, s1, s2, s3
<1>7. s2 \in Seq(A) /\ s3 \in Seq(A)
  BY <1>4, <1>6, SeqDef
<1>8. \A a, b \in A : a \o b \in A
  BY AskedConcat DEF A
<1>9. FlattenSeq(s2) \in A /\ FlattenSeq(s3) \in A
  BY <1>1, <1>7, <1>8, FlattenClosed
<1> QED
  BY <1>2, <1>5, <1>8, <1>9 DEF A

(* What a load leaves to do.                                               *)
LEMMA LoadCalls ==
  ASSUME NEW doc \in Documents, Load(doc), defines \subseteq Definitions, Loader \in DOMAIN calls
  PROVE  defines' \subseteq Definitions /\ calls'[Loader] \in AskingLists
<1> DEFINE new == {ToDefine(node) : node \in doc}
           fails == \E node \in doc : Throws(node)
<1>1. ~fails => new \subseteq Definitions
  BY DEF Definitions
<1>2. /\ defines' = IF fails THEN defines ELSE new
      /\ calls' = [calls EXCEPT ![Loader] = IF fails THEN <<LogTo(Root, ERROR)>>
                                            ELSE IF new = defines THEN <<>> ELSE Listener(defines, new)]
  BY DEF Load
<1>3. <<>> \in AskingLists
  BY EmptySeq DEF AskingLists, Asked
<1>4. <<LogTo(Root, ERROR)>> \in AskingLists
  <2>1. LogTo(Root, ERROR) \in ListenerCalls
    BY DEF ListenerCalls
  <2>2. LogTo(Root, ERROR).name = Root
    BY DEF LogTo
  <2> DEFINE c == LogTo(Root, ERROR)
  <2> HIDE DEF c
  <2> QED
    BY <2>1, <2>2 DEF AskingLists, Asked, c
<1> HIDE DEF new, fails
<1>5. Loader \in DOMAIN calls => calls'[Loader] \in AskingLists
  BY <1>1, <1>2, <1>3, <1>4, ListenerAsks
<1> QED
  BY <1>1, <1>2, <1>5

-----------------------------------------------------------------------------
(* Types.                                                                  *)

(* What a thread remembers, by its step.                                   *)
LEMMA WhereFields ==
  ASSUME NEW w \in Where
  PROVE  /\ w.step \in {"start", "loggers", "push"} \cup LogSteps
         /\ w.step = "start" => w = AtStart
         /\ w.step = "loggers" => w \in YamlAt
         /\ w.step \in {"walk", "walked"} => w \in WalkAt
         /\ w.step \in {"root", "rootLock", "unlock"} => w \in RootAt
         /\ w.step = "push" => w \in PushAt
  BY DEF Where, AtStart, LogSteps, YamlAt, WalkAt, RootAt, PushAt

(* The places that the steps go to are places.                             *)
LEMMA WhereMade ==
  /\ AtStart \in Where
  /\ \A s \in {"log", "lock", "left"} : [step |-> s] \in Where
  /\ \A r \in SUBSET Loggers : [step |-> "loggers", rest |-> r] \in Where
  /\ \A s \in {"walk", "walked"}, n \in Loggers, l \in Seq(AppenderIds), k \in Nat, o \in SUBSET AppenderIds :
       [step |-> s, via |-> n, list |-> l, next |-> k, to |-> o] \in Where
  /\ \A s \in {"root", "rootLock", "unlock"}, n \in Loggers, r \in BOOLEAN, o \in SUBSET AppenderIds :
       [step |-> s, via |-> n, refused |-> r, to |-> o] \in Where
  /\ \A a \in AppenderIds, b \in BOOLEAN : [step |-> "push", a |-> a, bare |-> b] \in Where
  BY DEF Where, YamlAt, WalkAt, RootAt, PushAt

(* The fields, and how a thread goes on.                                   *)
LEMMA AtYaml ==
  ASSUME NEW w \in YamlAt, NEW r
  PROVE  /\ w.step = "loggers" /\ w.rest \subseteq Loggers
         /\ [w EXCEPT !.rest = r] = [step |-> "loggers", rest |-> r]
  BY DEF YamlAt

(* Within the appenders of a logger.                                       *)
LEMMA AtWalk ==
  ASSUME NEW w \in WalkAt
  PROVE  /\ w.step \in {"walk", "walked"} /\ w.via \in Loggers /\ w.list \in Seq(AppenderIds)
         /\ w.next \in Nat /\ w.to \subseteq AppenderIds
  BY DEF WalkAt

(* On the way into the root, or out.                                       *)
LEMMA AtRoot ==
  ASSUME NEW w \in RootAt
  PROVE  /\ w.step \in {"root", "rootLock", "unlock"} /\ w.via \in Loggers
         /\ w.refused \in BOOLEAN /\ w.to \subseteq AppenderIds
  BY DEF RootAt

(* The root's level is high enough: its lock is next.                      *)
LEMMA AsksRoot ==
  ASSUME NEW w \in RootAt, NEW x, x = [w EXCEPT !.step = "rootLock"]
  PROVE  x \in RootAt /\ x.step = "rootLock" /\ x.via = w.via /\ x.refused = w.refused /\ x.to = w.to
  BY DEF RootAt

(* It is not: nothing is written.                                          *)
LEMMA Refuses ==
  ASSUME NEW w \in RootAt, NEW x, x = [w EXCEPT !.step = "unlock", !.refused = TRUE]
  PROVE  x \in RootAt /\ x.step = "unlock" /\ x.via = w.via /\ x.refused = TRUE /\ x.to = w.to
  BY DEF RootAt

(* Between the two accesses of addAppender().                              *)
LEMMA AtPush ==
  ASSUME NEW w \in PushAt
  PROVE  w.step = "push" /\ w.a \in AppenderIds /\ w.bare \in BOOLEAN
  BY DEF PushAt

(* Where log() goes with a lock.                                           *)
LEMMA InsideType ==
  ASSUME TypeInv, NEW n \in Loggers
  PROVE  /\ Inside(n) \in Where
         /\ Inside(n).step = "walk" => Inside(n).next \in 1..Len(Inside(n).list)
<1> DEFINE l == logger[n].appenders
           s == IF logger[n].root THEN "root" ELSE "unlock"
<1>1. l \in Seq(AppenderIds)
  BY DEF TypeInv, DataTyped, TypeOK
<1>2. s \in {"root", "unlock"}
  OBVIOUS
<1>3. Inside(n) = IF l # <<>> THEN [step |-> "walk", via |-> n, list |-> l, next |-> 1, to |-> {}]
                  ELSE [step |-> s, via |-> n, refused |-> FALSE, to |-> {}]
  BY DEF Inside
<1> HIDE DEF l, s
<1>4. Inside(n) \in Where
  BY <1>1, <1>2, <1>3, WhereMade
<1>5. l # <<>> => 1 \in 1..Len(l)
  BY <1>1, EmptySeq
<1> QED
  BY <1>2, <1>3, <1>4, <1>5

(* A call that is done is dropped, a call that goes on is kept.            *)
LEMMA ReturnsType ==
  ASSUME TypeInv, NEW t \in Actors, calls[t] # <<>>, Returns(t)
  PROVE  CallsTyped' /\ AtTyped'
<1>1. calls' = [calls EXCEPT ![t] = Tail(calls[t])] /\ at' = [at EXCEPT ![t] = AtStart]
  BY DEF Returns
<1>2. Tail(calls[t]) \in Seq(AnyCall)
  BY TailElements DEF TypeInv, CallsTyped
<1>3. t = Loader => Tail(calls[t]) \in Seq(ListenerCalls)
  BY TailElements DEF TypeInv, CallsTyped
<1>4. t \in Users => Tail(calls[t]) \in UserLists
  BY UserListCalls DEF TypeInv, CallsTyped
<1>5. CallsTyped'
  BY <1>1, <1>2, <1>3, <1>4, Constants DEF TypeInv, CallsTyped
<1>6. AtStart \in Where /\ AtStart.step = "start"
  BY WhereMade DEF AtStart
<1>7. AtTyped'
  BY <1>1, <1>6 DEF TypeInv, AtTyped
<1> QED
  BY <1>5, <1>7

(* Going on keeps the types.                                               *)
LEMMA GoesType ==
  ASSUME TypeInv, NEW t \in Actors, NEW w \in Where, Goes(t, w),
         w.step = "walk" => w.next \in 1..Len(w.list)
  PROVE  CallsTyped' /\ AtTyped'
<1>1. CallsTyped'
  BY DEF Goes, TypeInv, CallsTyped
<1>2. AtTyped'
  BY DEF Goes, TypeInv, AtTyped
<1> QED
  BY <1>1, <1>2

(* The data of one logger, and of one appender.                            *)
LEMMA LoggerFields ==
  ASSUME TypeInv, NEW n \in Loggers
  PROVE  /\ logger[n] \in LoggerType
         /\ logger[n].level \in Levels /\ logger[n].formatter \in Sound
         /\ logger[n].appenders \in Seq(AppenderIds) /\ logger[n].root \in BOOLEAN
         /\ \A v \in Levels : [logger[n] EXCEPT !.level = v] \in LoggerType
         /\ \A f \in Sound : [logger[n] EXCEPT !.formatter = f] \in LoggerType
         /\ \A l \in Seq(AppenderIds) : [logger[n] EXCEPT !.appenders = l] \in LoggerType
<1>1. logger[n] \in LoggerType
  BY DEF TypeInv, DataTyped, TypeOK, LoggerType
<1> QED
  BY <1>1 DEF LoggerType

(* What an appender has, and keeps when it gets a formatter.               *)
LEMMA AppenderFields ==
  ASSUME TypeInv, NEW a \in AppenderIds
  PROVE  /\ appender[a] \in AppenderType
         /\ appender[a].level \in Levels /\ appender[a].formatter \in Sound \cup {NoFormat}
         /\ appender[a].own \in BOOLEAN /\ (appender[a].own => appender[a].formatter # NoFormat)
         /\ \A f \in Sound : [appender[a] EXCEPT !.formatter = f] \in AppenderType
         /\ \A f \in Sound : [appender[a] EXCEPT !.formatter = f, !.own = TRUE] \in AppenderType
<1>1. appender[a] \in AppenderType
  BY DEF TypeInv, DataTyped
<1>2. appender[a].own => appender[a].formatter # NoFormat
  BY DEF TypeInv, DataTyped, TypeOK
<1> QED
  BY <1>1, <1>2 DEF AppenderType

(* The data stays typed when every logger and every appender does.         *)
AppenderSound(x) == x \in AppenderType /\ (x.own => x.formatter # NoFormat)
(* The data of a step, put together.                                       *)
LEMMA DataType ==
  ASSUME logger' \in [Loggers -> LoggerType], appender' \in [AppenderIds -> AppenderType],
         \A a \in AppenderIds : AppenderSound(appender'[a]),
         known' \subseteq Loggers, made' \in AppenderIds, defines' \subseteq Definitions,
         lock' \in [Loggers -> Actors \cup {Nobody}], manager' \in Actors \cup {Nobody}
  PROVE  DataTyped'
  BY DEF DataTyped, TypeOK, LoggerType, AppenderType, AppenderSound

(* The data that an action leaves alone.                                   *)
LEMMA TypedData ==
  ASSUME TypeInv
  PROVE  /\ logger \in [Loggers -> LoggerType] /\ appender \in [AppenderIds -> AppenderType]
         /\ \A a \in AppenderIds : AppenderSound(appender[a])
         /\ known \subseteq Loggers /\ made \in AppenderIds /\ defines \subseteq Definitions
         /\ lock \in [Loggers -> Actors \cup {Nobody}] /\ manager \in Actors \cup {Nobody}
  BY DEF TypeInv, DataTyped, TypeOK, LoggerType, AppenderSound

(* A new logger, with or without the root.                                 *)
LEMMA NewLoggerType ==
  /\ NewLogger \in LoggerType /\ [NewLogger EXCEPT !.root = TRUE] \in LoggerType
  /\ \A l \in Seq(AppenderIds) : [NewLogger EXCEPT !.appenders = l] \in LoggerType
  /\ NewLogger.appenders = <<>> /\ [NewLogger EXCEPT !.root = TRUE].appenders = <<>>
<1>1. DEBUG \in Levels /\ DefaultFormat \in Sound /\ <<>> \in Seq(AppenderIds)
  BY Constants, EmptySeq
<1>2. NewLogger \in LoggerType /\ NewLogger.appenders = <<>>
  BY <1>1 DEF NewLogger, LoggerType
<1>3. ASSUME NEW x \in LoggerType
      PROVE  /\ [x EXCEPT !.root = TRUE] \in LoggerType /\ [x EXCEPT !.root = TRUE].appenders = x.appenders
             /\ \A l \in Seq(AppenderIds) : [x EXCEPT !.appenders = l] \in LoggerType
  BY DEF LoggerType
<1> QED
  BY <1>2, <1>3

(* The loggers begin with their types.                                     *)
LEMMA InitType == Init => TypeInv
<1> SUFFICES ASSUME Init PROVE TypeInv
  OBVIOUS
<1>1. NewLogger \in LoggerType /\ [NewLogger EXCEPT !.appenders = <<1>>] \in LoggerType
  <2>1. <<1>> \in Seq(AppenderIds)
    BY Constants
  <2> QED
    BY <2>1, NewLoggerType
<1>2. AppenderSound(NewAppender) /\ AppenderSound([NewAppender EXCEPT !.formatter = DefaultFormat])
  BY Constants DEF NewAppender, AppenderSound, AppenderType, AppenderTypes
<1>3. /\ logger \in [Loggers -> LoggerType] /\ appender \in [AppenderIds -> AppenderType]
      /\ \A a \in AppenderIds : AppenderSound(appender[a])
  <2> DEFINE l == [NewLogger EXCEPT !.appenders = <<1>>]
             x == [NewAppender EXCEPT !.formatter = DefaultFormat]
  <2>1. /\ logger = [n \in Loggers |-> IF n = Root THEN l ELSE NewLogger]
        /\ appender = [a \in AppenderIds |-> IF a = 1 THEN x ELSE NewAppender]
    BY DEF Init
  <2> HIDE DEF l, x
  <2>2. \A a \in AppenderIds : AppenderSound(appender[a])
    BY <1>2, <2>1 DEF x
  <2> QED
    BY <1>1, <2>1, <2>2 DEF l, AppenderSound
<1>4. DataTyped
  BY <1>3, Constants DEF Init, DataTyped, TypeOK, LoggerType, AppenderType, AppenderSound
<1>5. CallsTyped
  BY Constants, EmptySeq DEF Init, CallsTyped, UserLists
<1>6. AtTyped
  BY WhereMade DEF Init, AtTyped, AtStart
<1> QED
  BY <1>4, <1>5, <1>6 DEF TypeInv

(* A call that a thread is in.                                             *)
LEMMA CallingShape ==
  ASSUME TypeInv, NEW t \in Actors, calls[t] # <<>>
  PROVE  /\ Head(calls[t]) \in AnyCall /\ Shape(Head(calls[t]))
         /\ at[t] \in Where
<1>1. Head(calls[t]) \in AnyCall
  BY TailElements DEF TypeInv, CallsTyped
<1> QED
  BY <1>1, CallShape DEF TypeInv, AtTyped

(* Coherence keeps a thread that gives locks back in a call.               *)
LEMMA StepType ==
  ASSUME TypeInv, NEW t \in Actors, Coherent(t), Step(t)
  PROVE  TypeInv'
<1> DEFINE c == Head(calls[t])
<1> USE TypedData
<1>0. DataTyped /\ CallsTyped /\ AtTyped
  BY DEF TypeInv
<1>1. CASE Lookup(t)
  <2>1. calls[t] # <<>> /\ c.op = "getLogger" /\ Returns(t)
    BY <1>1 DEF Lookup, Calling
  <2>2. c.name \in Loggers
    BY <2>1, CallingShape DEF Shape
  <2>3. [NewLogger EXCEPT !.root = TRUE] \in LoggerType
    BY NewLoggerType
  <2>4. known' \subseteq Loggers /\ logger' \in [Loggers -> LoggerType]
    BY <1>1, <2>2, <2>3 DEF Lookup
  <2>5. DataTyped'
    BY <1>1, <2>4, DataType DEF Lookup
  <2> QED
    BY <2>1, <2>5, ReturnsType DEF TypeInv
<1>2. CASE YamlBegin(t)
  <2>1. Goes(t, [step |-> "loggers", rest |-> known]) /\ [step |-> "loggers", rest |-> known] \in Where
    BY <1>2, WhereMade DEF YamlBegin
  <2>2. DataTyped'
    BY <1>2, DataType DEF YamlBegin
  <2> QED
    BY <2>1, <2>2, GoesType DEF TypeInv
<1>3. CASE YamlLogger(t)
  <2>1. calls[t] # <<>> /\ at[t].step = "loggers"
    BY <1>3 DEF YamlLogger, Calling
  <2>2. DataTyped'
    BY <1>3, DataType DEF YamlLogger
  <2>3. CASE Returns(t)
    BY <2>1, <2>2, <2>3, ReturnsType DEF TypeInv
  <2>4. CASE \E n \in at[t].rest : Goes(t, [at[t] EXCEPT !.rest = @ \ {n}])
    <3>1. PICK n \in at[t].rest : Goes(t, [at[t] EXCEPT !.rest = @ \ {n}])
      BY <2>4
    <3>2. [at[t] EXCEPT !.rest = @ \ {n}] = [step |-> "loggers", rest |-> at[t].rest \ {n}]
      BY <2>1, CallingShape, WhereFields, AtYaml
    <3>3. [step |-> "loggers", rest |-> at[t].rest \ {n}] \in Where
      BY <2>1, CallingShape, WhereFields, WhereMade, AtYaml
    <3> QED
      BY <2>2, <3>1, <3>2, <3>3, GoesType DEF TypeInv
  <2> QED
    BY <1>3, <2>3, <2>4 DEF YamlLogger
<1>4. CASE Macro(t) \/ Recheck(t)
  <2>1. calls[t] # <<>>
    BY <1>4 DEF Macro, Recheck, Calling
  <2>2. DataTyped'
    BY <1>4, DataType DEF Macro, Recheck
  <2>3. Returns(t) \/ Goes(t, [step |-> "log"]) \/ Goes(t, [step |-> "lock"])
    BY <1>4 DEF Macro, Recheck
  <2>4. [step |-> "log"] \in Where /\ [step |-> "lock"] \in Where
    BY WhereMade
  <2> QED
    BY <2>1, <2>2, <2>3, <2>4, ReturnsType, GoesType DEF TypeInv
<1>5. CASE Enter(t) \/ RootEnter(t)
  <2>1. calls[t] # <<>> /\ c.op = "log"
    BY <1>5 DEF Enter, RootEnter, Calling
  <2>2. PICK n \in Loggers : Goes(t, Inside(n)) /\ lock' = [lock EXCEPT ![n] = t]
    BY <1>5, <2>1, CallingShape, Constants DEF Enter, RootEnter, Shape, NamedOps
  <2>3. DataTyped'
    BY <1>5, <2>2, DataType DEF Enter, RootEnter
  <2> QED
    BY <2>2, <2>3, InsideType, GoesType DEF TypeInv
<1>6. CASE RootCheck(t)
  <2>1. at[t].step = "root" /\ at[t] \in Where
    BY <1>6, CallingShape DEF RootCheck, Calling
  <2>2. /\ [at[t] EXCEPT !.step = "rootLock"] \in Where
        /\ [at[t] EXCEPT !.step = "rootLock"].step = "rootLock"
        /\ [at[t] EXCEPT !.step = "unlock", !.refused = TRUE] \in Where
        /\ [at[t] EXCEPT !.step = "unlock", !.refused = TRUE].step = "unlock"
    <3> DEFINE x == [at[t] EXCEPT !.step = "rootLock"]
               y == [at[t] EXCEPT !.step = "unlock", !.refused = TRUE]
    <3>1. at[t] \in RootAt /\ x = [at[t] EXCEPT !.step = "rootLock"]
          /\ y = [at[t] EXCEPT !.step = "unlock", !.refused = TRUE]
      BY <2>1, WhereFields
    <3> HIDE DEF x, y
    <3>2. x \in RootAt /\ x.step = "rootLock" /\ y \in RootAt /\ y.step = "unlock"
      BY <3>1, AsksRoot, Refuses
    <3>3. x \in Where /\ y \in Where
      BY <3>2 DEF Where
    <3> QED
      BY <3>2, <3>3 DEF x, y
  <2>3. DataTyped'
    BY <1>6, DataType DEF RootCheck
  <2>4. CASE Goes(t, [at[t] EXCEPT !.step = "rootLock"])
    BY <2>2, <2>3, <2>4, GoesType DEF TypeInv
  <2>5. CASE Goes(t, [at[t] EXCEPT !.step = "unlock", !.refused = TRUE])
    BY <2>2, <2>3, <2>5, GoesType DEF TypeInv
  <2> QED
    BY <1>6, <2>4, <2>5 DEF RootCheck
<1>7. CASE Deliver(t)
  <2> DEFINE w == at[t]
             a == w.list[w.next]
             o == IF c.level >= appender[a].level THEN w.to \cup {a} ELSE w.to
             s == IF w.next = Len(w.list) THEN "walked" ELSE "walk"
             x == [w EXCEPT !.to = o, !.next = w.next + 1, !.step = s]
  <2>1. w \in Where /\ w.step = "walk"
    BY <1>7, CallingShape DEF Deliver, Calling
  <2>2. /\ w \in WalkAt
        /\ w.via \in Loggers /\ w.list \in Seq(AppenderIds) /\ w.next \in Nat /\ w.to \subseteq AppenderIds
    BY <2>1, WhereFields, AtWalk
  <2>3. w.next \in 1..Len(w.list) /\ Len(w.list) \in Nat
    BY <2>1, <2>2, LenProperties DEF TypeInv, AtTyped
  <2>4. a \in AppenderIds
    BY <2>2, <2>3, ElementOfSeq
  <2>5. o \subseteq AppenderIds /\ s \in {"walk", "walked"}
    BY <2>2, <2>4
  <2>6. Goes(t, x)
    BY <1>7, Zenon DEF Deliver
  <2>7. s = "walk" => w.next + 1 \in 1..Len(w.list)
    <3> HIDE DEF w
    <3> QED
      BY <2>3
  <2> HIDE DEF w, o, s
  <2>8. x \in WalkAt /\ x.step = s /\ x.next = w.next + 1 /\ x.list = w.list
    <3> DEFINE k == w.next + 1
    <3>1. x = [w EXCEPT !.to = o, !.next = k, !.step = s] /\ k \in Nat
      BY <2>2
    <3>2. o \in SUBSET AppenderIds
      BY <2>5
    <3> HIDE DEF x, k
    <3>3. x \in WalkAt /\ x.step = s /\ x.next = k /\ x.list = w.list
      BY <2>2, <2>5, <3>1, <3>2 DEF WalkAt
    <3> QED
      BY <3>3 DEF k
  <2>9. x \in Where
    BY <2>8 DEF Where
  <2>11. DataTyped'
    BY <1>7, DataType DEF Deliver
  <2> HIDE DEF x
  <2> QED
    BY <2>6, <2>7, <2>8, <2>9, <2>11, GoesType DEF TypeInv
<1>8. CASE Leave(t)
  <2>1. calls[t] # <<>>
    BY <1>8 DEF Leave, Coherent, LogSteps
  <2>2. Goes(t, [step |-> "left"]) \/ Returns(t)
    BY <1>8 DEF Leave
  <2>3. lock' \in [Loggers -> Actors \cup {Nobody}]
    BY <1>8 DEF Leave
  <2>4. DataTyped'
    BY <1>8, <2>3, DataType DEF Leave
  <2>5. [step |-> "left"] \in Where
    BY WhereMade
  <2> QED
    BY <2>1, <2>2, <2>4, <2>5, ReturnsType, GoesType DEF TypeInv
<1>9. CASE SetLevelOf(t)
  <2>1. calls[t] # <<>> /\ Returns(t) /\ c.level \in Levels /\ c.name \in Loggers
    BY <1>9, CallingShape DEF SetLevelOf, Calling, Shape, NamedOps
  <2>2. logger' = [logger EXCEPT ![c.name] = [logger[c.name] EXCEPT !.level = c.level]]
    BY <1>9 DEF SetLevelOf
  <2>3. logger' \in [Loggers -> LoggerType]
    BY <2>1, <2>2, LoggerFields
  <2>4. DataTyped'
    BY <1>9, <2>3, DataType DEF SetLevelOf
  <2> QED
    BY <2>1, <2>4, ReturnsType DEF TypeInv
<1>10. CASE SetFormatterOf(t)
  <2>1. calls[t] # <<>> /\ Returns(t) /\ c.formatter \in Formats /\ c.name \in Loggers
    BY <1>10, CallingShape DEF SetFormatterOf, Calling, Shape, NamedOps
  <2>2. /\ logger' \in [Loggers -> LoggerType] /\ appender' \in [AppenderIds -> AppenderType]
        /\ \A a \in AppenderIds : AppenderSound(appender'[a])
    <3>1. CASE IsError(c.formatter)
      BY <1>10, <3>1 DEF SetFormatterOf
    <3>2. CASE ~IsError(c.formatter)
      <4>1. c.formatter \in Sound
        BY <2>1, <3>2 DEF Sound
      <4>2. logger' = [logger EXCEPT ![c.name] = [logger[c.name] EXCEPT !.formatter = c.formatter]]
        BY <1>10, <3>2 DEF SetFormatterOf, PassOn
      <4>3. logger' \in [Loggers -> LoggerType]
        BY <2>1, <4>1, <4>2, LoggerFields
      <4>4. appender' = [a \in AppenderIds |->
              IF a \in ToSet(logger[c.name].appenders) /\ ~appender[a].own
              THEN [appender[a] EXCEPT !.formatter = c.formatter] ELSE appender[a]]
        BY <1>10, <3>2 DEF SetFormatterOf, PassOn
      <4>5. ASSUME NEW a \in AppenderIds PROVE AppenderSound(appender'[a])
        <5>1. [appender[a] EXCEPT !.formatter = c.formatter] \in AppenderType
          BY <4>1, AppenderFields
        <5>2. appender[a] \in AppenderType
          OBVIOUS
        <5>3. [appender[a] EXCEPT !.formatter = c.formatter].formatter = c.formatter
          BY <5>2 DEF AppenderType
        <5>4. c.formatter # NoFormat
          BY <4>1, Constants
        <5> QED
          BY <4>4, <5>1, <5>3, <5>4 DEF AppenderSound
      <4>6. appender' \in [AppenderIds -> AppenderType]
        <5>1. \A a \in AppenderIds : appender'[a] \in AppenderType
          BY <4>5 DEF AppenderSound
        <5> QED
          BY <4>4, <5>1
      <4> QED
        BY <4>3, <4>5, <4>6
    <3> QED
      BY <3>1, <3>2
  <2>3. DataTyped'
    BY <1>10, <2>2, DataType DEF SetFormatterOf
  <2> QED
    BY <2>1, <2>3, ReturnsType DEF TypeInv
<1>11. CASE Clear(t) \/ Del(t)
  <2>1. calls[t] # <<>> /\ Returns(t) /\ c.name \in Loggers
    BY <1>11, CallingShape DEF Clear, Del, Calling, Shape, NamedOps
  <2>2. PICK l \in Seq(AppenderIds) : logger' = [logger EXCEPT ![c.name] = [logger[c.name] EXCEPT !.appenders = l]]
    <3>1. <<>> \in Seq(AppenderIds) /\ RemoveFirst(logger[c.name].appenders, c.a) \in Seq(AppenderIds)
      BY <2>1, LoggerFields, RemoveFirstType
    <3> QED
      BY <1>11, <3>1 DEF Clear, Del, SetAppenders
  <2>3. logger' \in [Loggers -> LoggerType]
    BY <2>1, <2>2, LoggerFields
  <2>4. DataTyped'
    BY <1>11, <2>3, DataType DEF Clear, Del
  <2> QED
    BY <2>1, <2>4, ReturnsType DEF TypeInv
<1>12. CASE AddBegin(t)
  <2> DEFINE a == IF c.new = <<>> THEN c.a ELSE made + 1
             b == appender'[a].formatter = NoFormat
             w == [step |-> "push", a |-> a, bare |-> b]
  <2>1. calls[t] # <<>> /\ c.op = "addAppender" /\ Shape(c)
    BY <1>12, CallingShape DEF AddBegin, Calling
  <2>2. Goes(t, w) /\ a <= MaxAppenders /\ lock' = [lock EXCEPT ![c.name] = t]
    BY <1>12 DEF AddBegin
  <2>3. a \in AppenderIds
    <3>1. CASE c.new = <<>>
      BY <2>1, <3>1, Constants DEF Shape
    <3>2. CASE c.new # <<>>
      <4>1. a = made + 1 /\ made \in 1..MaxAppenders
        BY <3>2 DEF AppenderIds
      <4> QED
        BY <2>2, <4>1, Constants DEF AppenderIds
    <3> QED
      BY <3>1, <3>2
  <2>4. w \in Where /\ w.step = "push"
    <3>1. b \in BOOLEAN
      OBVIOUS
    <3> HIDE DEF b, a
    <3> QED
      BY <2>3, <3>1, WhereMade
  <2>5. /\ appender' \in [AppenderIds -> AppenderType] /\ made' \in AppenderIds
        /\ \A x \in AppenderIds : AppenderSound(appender'[x])
    <3>1. CASE c.new = <<>>
      BY <1>12, <3>1 DEF AddBegin
    <3>2. CASE c.new # <<>>
      <4>1. PICK ad \in AppenderDefs : c.new = <<ad>>
        BY <2>1, <3>2 DEF Shape
      <4>2. made' = a /\ appender' = [appender EXCEPT ![a] = Made(c.new[1])]
        BY <1>12, <3>2 DEF AddBegin
      <4>3. c.new[1] = ad
        BY <4>1
      <4>4. AppenderSound(Made(ad))
        BY AppenderDefFields DEF AppenderSound
      <4> HIDE DEF a
      <4>5. Made(ad) \in AppenderType
        BY <4>4 DEF AppenderSound
      <4> QED
        BY <2>3, <4>2, <4>3, <4>4, <4>5
    <3> QED
      BY <3>1, <3>2
  <2>6. lock' \in [Loggers -> Actors \cup {Nobody}]
    BY <2>2
  <2>7. DataTyped'
    BY <1>12, <2>5, <2>6, DataType DEF AddBegin
  <2> HIDE DEF w
  <2> QED
    BY <2>2, <2>4, <2>7, GoesType DEF TypeInv
<1>13. CASE AddEnd(t)
  <2> DEFINE a == at[t].a
  <2>1. calls[t] # <<>> /\ c.op = "addAppender" /\ at[t].step = "push" /\ Returns(t)
    BY <1>13 DEF AddEnd, Calling
  <2>2. c.name \in Loggers /\ a \in AppenderIds
    BY <2>1, CallingShape, WhereFields, AtPush DEF Shape, NamedOps
  <2>3. /\ appender' = IF at[t].bare
                       THEN [appender EXCEPT ![a] = [appender[a] EXCEPT !.formatter = logger[c.name].formatter]]
                       ELSE appender
        /\ logger' = [logger EXCEPT ![c.name] =
                        [logger[c.name] EXCEPT !.appenders = Append(logger[c.name].appenders, a)]]
        /\ lock' = [lock EXCEPT ![c.name] = Nobody]
    BY <1>13 DEF AddEnd, SetAppenders
  <2>4. Append(logger[c.name].appenders, a) \in Seq(AppenderIds)
    BY <2>2, LoggerFields, AppendProperties
  <2>5. logger' \in [Loggers -> LoggerType]
    BY <2>2, <2>3, <2>4, LoggerFields
  <2>6. AppenderSound([appender[a] EXCEPT !.formatter = logger[c.name].formatter])
    <3>1. logger[c.name].formatter \in Sound /\ logger[c.name].formatter # NoFormat
      BY <2>2, LoggerFields, Constants
    <3>2. [appender[a] EXCEPT !.formatter = logger[c.name].formatter] \in AppenderType
      BY <2>2, <3>1, AppenderFields
    <3>3. [appender[a] EXCEPT !.formatter = logger[c.name].formatter].formatter = logger[c.name].formatter
      <4>1. appender[a] \in AppenderType
        BY <2>2
      <4> QED
        BY <4>1 DEF AppenderType
    <3> QED
      BY <3>1, <3>2, <3>3 DEF AppenderSound
  <2>7. appender' \in [AppenderIds -> AppenderType] /\ \A x \in AppenderIds : AppenderSound(appender'[x])
    <3> DEFINE y == [appender[a] EXCEPT !.formatter = logger[c.name].formatter]
    <3>1. appender' = IF at[t].bare THEN [appender EXCEPT ![a] = y] ELSE appender
      BY <2>3
    <3>2. AppenderSound(y) /\ y \in AppenderType
      BY <2>6 DEF AppenderSound
    <3> HIDE DEF y, a
    <3> QED
      BY <2>2, <3>1, <3>2
  <2>8. lock' \in [Loggers -> Actors \cup {Nobody}]
    BY <2>3
  <2>9. DataTyped'
    BY <1>13, <2>5, <2>7, <2>8, DataType DEF AddEnd
  <2> QED
    BY <2>1, <2>9, ReturnsType DEF TypeInv
<1>14. CASE SetOwn(t)
  <2>1. calls[t] # <<>> /\ Returns(t) /\ c.a \in AppenderIds /\ c.formatter \in Sound
    BY <1>14, CallingShape, Constants DEF SetOwn, Calling, Shape
  <2> DEFINE y == [appender[c.a] EXCEPT !.formatter = c.formatter, !.own = TRUE]
  <2>2. appender' = [appender EXCEPT ![c.a] = y]
    BY <1>14, <2>1 DEF SetOwn
  <2>3. AppenderSound(y) /\ y \in AppenderType
    <3>1. y \in AppenderType
      BY <2>1, AppenderFields
    <3>2. y.formatter = c.formatter
      <4>1. appender[c.a] \in AppenderType
        BY <2>1
      <4> QED
        BY <4>1 DEF AppenderType
    <3> HIDE DEF y
    <3> QED
      BY <2>1, <3>1, <3>2, Constants DEF AppenderSound
  <2> HIDE DEF y
  <2>4. appender' \in [AppenderIds -> AppenderType] /\ \A x \in AppenderIds : AppenderSound(appender'[x])
    BY <2>1, <2>2, <2>3
  <2>5. DataTyped'
    BY <1>14, <2>4, DataType DEF SetOwn
  <2> QED
    BY <2>1, <2>5, ReturnsType DEF TypeInv
<1> QED
  BY <1>1, <1>2, <1>3, <1>4, <1>5, <1>6, <1>7, <1>8, <1>9, <1>10, <1>11, <1>12, <1>13, <1>14 DEF Step

(* A thread that begins, or that loads a document, was in no call.         *)
Beginning(t) ==
  /\ calls[t] = <<>> /\ at' = at
  /\ \A u \in Actors : u # t => calls'[u] = calls[u]
  /\ UNCHANGED <<known, logger, appender, made, adds, lock, manager>>

(* What a user begins is in the lists of users, and asks for its logger.   *)
LEMMA UserCallsListed ==
  ASSUME NEW cs \in UserCalls
  PROVE  cs \in UserLists /\ Asked(cs, {})
<1>1. LoggerCalls \subseteq LastCalls
  BY DEF LoggerCalls, LastCalls
<1>2. ASSUME NEW c \in LoggerCalls, cs = <<GetLogger(c.name), c>>
      PROVE  cs \in UserLists /\ Asked(cs, {})
  <2> DEFINE g == GetLogger(c.name)
  <2>1. g.op = "getLogger" /\ g = GetLogger(c.name)
    BY DEF GetLogger
  <2> HIDE DEF g
  <2>2. DOMAIN cs = {1, 2} /\ cs[1] = g /\ cs[2] = c
    BY <1>2, <2>1
  <2>3. Asked(cs, {})
    BY <2>1, <2>2 DEF Asked, NamedOps
  <2> QED
    BY <1>1, <1>2, <2>3 DEF UserLists
<1>3. ASSUME NEW c \in OwnCalls, cs = <<c>>
      PROVE  cs \in UserLists /\ Asked(cs, {})
  <2>1. c.op \notin NamedOps
    BY <1>3 DEF OwnCalls, SetOwnFormatter, ToYaml, NamedOps
  <2>2. DOMAIN cs = {1} /\ cs[1] = c
    BY <1>3
  <2> QED
    BY <1>3, <2>1, <2>2 DEF UserLists, Asked
<1> QED
  BY <1>2, <1>3 DEF UserCalls, OwnCalls, Sound

(* A step begins, loads a document, goes on with a call, or changes nothing. *)
LEMMA Beginnings ==
  ASSUME TypeInv, Next
  PROVE  \/ \E t \in Users : Begin(t) /\ Beginning(t) /\ calls'[t] \in UserCalls
         \/ \E doc \in Documents : Load(doc) /\ Beginning(Loader)
         \/ \E t \in Actors : Step(t)
         \/ UNCHANGED vars
<1>1. calls \in [Actors -> Seq(AnyCall)]
  BY DEF TypeInv, CallsTyped
<1>2. ASSUME NEW t \in Users, Begin(t) PROVE Beginning(t) /\ calls'[t] \in UserCalls
  BY <1>1, <1>2, Constants DEF Begin, Beginning
<1>3. ASSUME NEW doc \in Documents, Load(doc) PROVE Beginning(Loader)
  BY <1>1, <1>3, Constants DEF Load, Beginning
<1> QED
  BY <1>2, <1>3 DEF Next, Idle

(* A user's call has the types,                                            *)
LEMMA BeginType ==
  ASSUME TypeInv, NEW t \in Users, Begin(t), Beginning(t), calls'[t] \in UserCalls
  PROVE  TypeInv'
<1>1. calls \in [Actors -> Seq(AnyCall)]
  BY DEF TypeInv, CallsTyped
<1>2. calls'[t] \in UserLists /\ calls'[t] \in Seq(AnyCall)
  BY UserCallsListed, UserListCalls
<1>3. PICK cs : calls' = [calls EXCEPT ![t] = cs]
  BY DEF Begin
<1>4. CallsTyped'
  BY <1>1, <1>2, <1>3, Constants DEF TypeInv, CallsTyped
<1>5. DataTyped' /\ AtTyped'
  BY DEF Begin, TypeInv, DataTyped, TypeOK, AtTyped
<1> QED
  BY <1>4, <1>5 DEF TypeInv

(* so have the calls of the listener,                                      *)
LEMMA LoadType ==
  ASSUME TypeInv, NEW doc \in Documents, Load(doc)
  PROVE  TypeInv'
<1>1. calls \in [Actors -> Seq(AnyCall)] /\ defines \subseteq Definitions
  BY DEF TypeInv, CallsTyped, DataTyped
<1>2. defines' \subseteq Definitions /\ calls'[Loader] \in Seq(ListenerCalls)
  BY <1>1, LoadCalls, Constants DEF AskingLists
<1>3. ListenerCalls \subseteq AnyCall
  BY DEF AnyCall
<1>4. calls'[Loader] \in Seq(AnyCall)
  BY <1>2, <1>3, SeqMonotonic
<1>5. PICK cs : calls' = [calls EXCEPT ![Loader] = cs]
  BY DEF Load
<1>6. CallsTyped'
  BY <1>1, <1>2, <1>4, <1>5, Constants DEF TypeInv, CallsTyped
<1>7. DataTyped'
  BY <1>2 DEF Load, TypeInv, DataTyped, TypeOK
<1>8. AtTyped'
  BY DEF Load, TypeInv, AtTyped
<1> QED
  BY <1>6, <1>7, <1>8 DEF TypeInv

(* and every step keeps them.                                              *)
LEMMA NextType ==
  ASSUME TypeInv, \A t \in Actors : Coherent(t), [Next]_vars
  PROVE  TypeInv'
<1>1. CASE UNCHANGED vars
  BY <1>1 DEF vars, TypeInv, DataTyped, TypeOK, CallsTyped, AtTyped
<1>2. CASE Next
  BY <1>1, <1>2, Beginnings, BeginType, LoadType, StepType
<1> QED
  BY <1>1, <1>2

-----------------------------------------------------------------------------
(* Which call a thread is in, and that its logger is known.                *)

(* A thread that goes on has the place it goes to, and one that returns    *)
(* is at the start of its next call; the others stay.                      *)
LEMMA Goers ==
  ASSUME TypeInv, NEW t \in Actors
  PROVE  /\ \A w : Goes(t, w) => at'[t] = w /\ calls' = calls
         /\ Returns(t) => at'[t] = AtStart /\ at'[t].step = "start" /\ calls'[t] = Tail(calls[t])
         /\ (Returns(t) \/ \E w : Goes(t, w)) =>
              \A u \in Actors : u # t => at'[u] = at[u] /\ calls'[u] = calls[u]
<1>1. calls \in [Actors -> Seq(AnyCall)] /\ at \in [Actors -> Where]
  BY DEF TypeInv, CallsTyped, AtTyped
<1>2. AtStart.step = "start"
  BY DEF AtStart
<1> QED
  BY <1>1, <1>2 DEF Goes, Returns

(* A step within a call goes on or returns.                                *)
LEMMA StepMoves ==
  ASSUME NEW t, Step(t)
  PROVE  Returns(t) \/ \E w : Goes(t, w)
<1>1. CASE Lookup(t) \/ YamlBegin(t) \/ YamlLogger(t) \/ Macro(t) \/ Recheck(t) \/ Enter(t)
  BY <1>1 DEF Lookup, YamlBegin, YamlLogger, Macro, Recheck, Enter
<1>2. CASE RootCheck(t) \/ RootEnter(t) \/ Deliver(t)
  BY <1>2 DEF RootCheck, RootEnter, Deliver
<1>3. CASE Leave(t) \/ AddBegin(t)
  BY <1>3 DEF Leave, AddBegin
<1>4. CASE SetLevelOf(t) \/ SetFormatterOf(t) \/ Clear(t) \/ Del(t) \/ AddEnd(t) \/ SetOwn(t)
  BY <1>4 DEF SetLevelOf, SetFormatterOf, Clear, Del, AddEnd, SetOwn
<1> QED
  BY <1>1, <1>2, <1>3, <1>4 DEF Step

(* Where log() is when it has got the lock of a logger.                    *)
LEMMA InsideFields ==
  ASSUME CoreInv, NEW n \in Loggers
  PROVE  /\ Inside(n).step \in {"walk", "root", "unlock"} /\ Inside(n).via = n
         /\ Inside(n).step = "root" => n # Root
         /\ Inside(n).step = "walk" => Inside(n).list = logger[n].appenders /\ Inside(n).list # <<>>
         /\ Inside(n).step # "walk" => Silent(n)
         /\ Inside(n).step = "unlock" => ~logger[n].root
  BY DEF Inside, CoreInv, KnownInv, Silent

(* Writing to one appender leaves the list that log() goes through.        *)
LEMMA Delivers ==
  ASSUME TypeInv, NEW t \in Actors, Deliver(t)
  PROVE  /\ calls' = calls /\ at'[t].step \in {"walk", "walked"}
         /\ at'[t].via = at[t].via /\ at'[t].list = at[t].list
<1> DEFINE w == at[t]
           a == w.list[w.next]
           o == IF Head(calls[t]).level >= appender[a].level THEN w.to \cup {a} ELSE w.to
           s == IF w.next = Len(w.list) THEN "walked" ELSE "walk"
           k == w.next + 1
           x == [w EXCEPT !.to = o, !.next = k, !.step = s]
<1>1. Goes(t, x)
  BY Zenon DEF Deliver
<1>2. w \in WalkAt
  BY CallingShape, WhereFields DEF Deliver, Calling
<1>3. s \in {"walk", "walked"}
  OBVIOUS
<1> HIDE DEF w, o, s, k
<1>4. x.step = s /\ x.via = w.via /\ x.list = w.list
  BY <1>2 DEF WalkAt
<1> HIDE DEF x
<1> QED
  BY <1>1, <1>3, <1>4, Goers DEF w

(* The place of a thread fits its call after a step of its own.            *)
LEMMA StepCoherent ==
  ASSUME CoreInv, NEW t \in Actors, Step(t)
  PROVE  Coherent(t)'
<1>0. TypeInv /\ Coherent(t)
  BY DEF CoreInv
<1>1. CASE Returns(t)
  <2>1. at'[t].step = "start"
    BY <1>0, <1>1, Goers
  <2> QED
    BY <2>1 DEF Coherent, LogSteps
<1>2. CASE YamlBegin(t) \/ YamlLogger(t)
  <2>1. calls[t] # <<>> /\ Op(t) = "toYamlString"
    BY <1>2 DEF YamlBegin, YamlLogger, Calling, Op
  <2>2. CASE YamlBegin(t)
    <3>1. at'[t].step = "loggers" /\ calls' = calls
      BY <1>0, <2>2, Goers DEF YamlBegin
    <3> QED
      BY <2>1, <3>1 DEF Coherent, Op, LogSteps
  <2>3. CASE YamlLogger(t) /\ ~Returns(t)
    <3>1. PICK n \in at[t].rest : Goes(t, [at[t] EXCEPT !.rest = @ \ {n}])
      BY <2>3 DEF YamlLogger
    <3>2. at[t] \in YamlAt
      BY <1>0, <2>3, CallingShape, WhereFields DEF YamlLogger, Calling
    <3>3. [at[t] EXCEPT !.rest = @ \ {n}].step = "loggers"
      BY <3>2 DEF YamlAt
    <3>4. at'[t].step = "loggers" /\ calls' = calls
      BY <1>0, <3>1, <3>3, Goers
    <3> QED
      BY <2>1, <3>4 DEF Coherent, Op, LogSteps
  <2> QED
    BY <1>1, <1>2, <2>2, <2>3
<1>3. CASE ~Returns(t) /\ (Macro(t) \/ Recheck(t) \/ Enter(t) \/ RootCheck(t) \/ RootEnter(t) \/ Deliver(t))
  <2>1. calls[t] # <<>> /\ Op(t) = "log"
    BY <1>3 DEF Macro, Recheck, Enter, RootCheck, RootEnter, Deliver, Calling, Op
  <2>2. Name(t) \in Loggers /\ at[t] \in Where
    BY <1>0, <2>1, CallingShape DEF Op, Name, Shape, NamedOps
  <2>3. CASE Macro(t) \/ Recheck(t)
    <3>1. at'[t].step \in {"log", "lock"} /\ calls' = calls
      BY <1>0, <1>3, <2>3, Goers DEF Macro, Recheck
    <3> QED
      BY <2>1, <3>1 DEF Coherent, Op, LogSteps
  <2>4. CASE Enter(t)
    <3>1. at'[t] = Inside(Name(t)) /\ calls' = calls
      BY <1>0, <2>4, Goers DEF Enter, Name
    <3>2. at'[t].step \in {"walk", "root", "unlock"} /\ at'[t].via = Name(t)
          /\ (at'[t].step = "root" => Name(t) # Root)
      BY <2>2, <3>1, InsideFields
    <3> QED
      BY <2>1, <3>1, <3>2 DEF Coherent, Op, Name, LogSteps
  <2>5. CASE RootEnter(t)
    <3>1. at'[t] = Inside(Root) /\ calls' = calls
      BY <1>0, <2>5, Goers DEF RootEnter
    <3>2. at'[t].step \in {"walk", "unlock"} /\ at'[t].via = Root
      BY <3>1, InsideFields, Constants
    <3> QED
      BY <2>1, <3>1, <3>2 DEF Coherent, Op, Name, LogSteps
  <2>6. CASE RootCheck(t)
    <3>1. at[t].step = "root" /\ at[t] \in RootAt /\ Name(t) # Root
      BY <1>0, <2>2, <2>6, WhereFields DEF RootCheck, Calling, Coherent
    <3> DEFINE x == [at[t] EXCEPT !.step = "rootLock"]
               y == [at[t] EXCEPT !.step = "unlock", !.refused = TRUE]
    <3>2. x.step = "rootLock" /\ x.via = at[t].via /\ y.step = "unlock" /\ y.via = at[t].via
      BY <3>1 DEF RootAt
    <3>3. (at'[t] = x \/ at'[t] = y) /\ calls' = calls
      BY <1>0, <2>6, Goers DEF RootCheck
    <3>4. at[t].via = Name(t)
      BY <1>0, <3>1, AtRoot DEF CoreInv, Coherent
    <3> HIDE DEF x, y
    <3> QED
      BY <2>1, <3>1, <3>2, <3>3, <3>4 DEF Coherent, Op, Name, LogSteps
  <2>7. CASE Deliver(t)
    <3>1. at[t].step = "walk" /\ at[t] \in WalkAt
      BY <2>2, <2>7, WhereFields DEF Deliver, Calling
    <3>4. at'[t].step \in {"walk", "walked"} /\ at'[t].via = at[t].via /\ calls' = calls
      BY <1>0, <2>7, Delivers
    <3> QED
      BY <1>0, <2>1, <3>1, <3>4 DEF Coherent, Op, Name, LogSteps
  <2> QED
    BY <1>3, <2>3, <2>4, <2>5, <2>6, <2>7
<1>4. CASE Leave(t) /\ ~Returns(t)
  <2>1. calls[t] # <<>> /\ Op(t) = "log" /\ Name(t) # Root
    BY <1>0, <1>4 DEF Leave, Coherent, LogSteps, Name
  <2>2. at'[t].step = "left" /\ calls' = calls
    BY <1>0, <1>4, Goers DEF Leave
  <2> QED
    BY <2>1, <2>2 DEF Coherent, Op, Name, LogSteps
<1>5. CASE AddBegin(t)
  <2>1. calls[t] # <<>> /\ Op(t) = "addAppender"
    BY <1>5 DEF AddBegin, Calling, Op
  <2>2. at'[t].step = "push" /\ calls' = calls
    BY <1>0, <1>5, Goers DEF AddBegin
  <2> QED
    BY <2>1, <2>2 DEF Coherent, Op, LogSteps
<1>6. CASE Lookup(t) \/ SetLevelOf(t) \/ SetFormatterOf(t) \/ Clear(t) \/ Del(t) \/ AddEnd(t) \/ SetOwn(t)
  BY <1>1, <1>6 DEF Lookup, SetLevelOf, SetFormatterOf, Clear, Del, AddEnd, SetOwn
<1> QED
  BY <1>1, <1>2, <1>3, <1>4, <1>5, <1>6 DEF Step

(* What remains of a list after its first call.                            *)
LEMMA AskedTail ==
  ASSUME NEW cs \in Seq(AnyCall), cs # <<>>, NEW ns, NEW ms, ns \subseteq ms, Asked(cs, ns),
         Head(cs).op = "getLogger" => Head(cs).name \in ms
  PROVE  Asked(Tail(cs), ms)
<1>1. /\ Head(cs) = cs[1] /\ DOMAIN cs = 1..Len(cs) /\ Len(cs) \in Nat /\ DOMAIN Tail(cs) = 1..(Len(cs) - 1)
      /\ \A k \in DOMAIN Tail(cs) : k + 1 \in DOMAIN cs /\ Tail(cs)[k] = cs[k + 1]
  BY TailElements
<1>2. ASSUME NEW k \in DOMAIN Tail(cs), Tail(cs)[k].op \in NamedOps, Tail(cs)[k].name \notin ms
      PROVE  \E j \in DOMAIN Tail(cs) : j < k /\ Tail(cs)[j] = GetLogger(Tail(cs)[k].name)
  <2>1. PICK j \in DOMAIN cs : j < k + 1 /\ cs[j] = GetLogger(Tail(cs)[k].name)
    BY <1>1, <1>2 DEF Asked
  <2>2. j # 1
    BY <1>1, <1>2, <2>1 DEF GetLogger
  <2>3. j - 1 \in DOMAIN Tail(cs) /\ j - 1 < k /\ Tail(cs)[j - 1] = cs[j]
    BY <1>1, <2>1, <2>2
  <2> QED
    BY <2>1, <2>3
<1> QED
  BY <1>2 DEF Asked

(* A logger that is known stays so.                                        *)
LEMMA AskedMore ==
  ASSUME NEW cs, NEW ns, NEW ms, ns \subseteq ms, Asked(cs, ns)
  PROVE  Asked(cs, ms)
  BY DEF Asked

(* What the calls on a logger change in it.                                *)
LEMMA LoggerCallChanges ==
  ASSUME TypeInv, NEW t \in Actors
  PROVE  /\ SetLevelOf(t) => \A n \in Loggers :
              /\ logger'[n].root = logger[n].root /\ logger'[n].formatter = logger[n].formatter
              /\ logger'[n].appenders = logger[n].appenders
         /\ SetFormatterOf(t) => \A n \in Loggers :
              /\ logger'[n].root = logger[n].root /\ logger'[n].appenders = logger[n].appenders
              /\ logger'[n].formatter = IF n = Name(t) /\ ~IsError(Head(calls[t]).formatter)
                                        THEN Head(calls[t]).formatter ELSE logger[n].formatter
         /\ Clear(t) => \A n \in Loggers :
              /\ logger'[n].root = logger[n].root /\ logger'[n].formatter = logger[n].formatter
              /\ logger'[n].appenders = IF n = Name(t) THEN <<>> ELSE logger[n].appenders
         /\ Del(t) => \A n \in Loggers :
              /\ logger'[n].root = logger[n].root /\ logger'[n].formatter = logger[n].formatter
              /\ logger'[n].appenders = IF n = Name(t) THEN RemoveFirst(logger[n].appenders, Head(calls[t]).a)
                                        ELSE logger[n].appenders
         /\ AddEnd(t) => \A n \in Loggers :
              /\ logger'[n].root = logger[n].root /\ logger'[n].formatter = logger[n].formatter
              /\ logger'[n].appenders = IF n = Name(t) THEN Append(logger[n].appenders, at[t].a)
                                        ELSE logger[n].appenders
<1> DEFINE r == logger[Name(t)]
           With(x) == [logger EXCEPT ![Name(t)] = [r EXCEPT !.appenders = x]]
<1>0. logger \in [Loggers -> LoggerType]
  BY TypedData
<1>1. calls[t] # <<>> /\ Op(t) \in NamedOps => Name(t) \in Loggers /\ r \in LoggerType
  BY <1>0, CallingShape DEF Op, Name, Shape
<1>2. ASSUME SetLevelOf(t) PROVE \A n \in Loggers :
              /\ logger'[n].root = logger[n].root /\ logger'[n].formatter = logger[n].formatter
              /\ logger'[n].appenders = logger[n].appenders
  <2> DEFINE l == [r EXCEPT !.level = Head(calls[t]).level]
  <2>1. logger' = [logger EXCEPT ![Name(t)] = l] /\ r \in LoggerType /\ Name(t) \in Loggers
    BY <1>1, <1>2 DEF SetLevelOf, Name, Op, Calling, NamedOps
  <2>2. l.root = r.root /\ l.formatter = r.formatter /\ l.appenders = r.appenders
    BY <2>1 DEF LoggerType
  <2> HIDE DEF l
  <2> QED
    BY <1>0, <2>1, <2>2
<1>3. ASSUME SetFormatterOf(t) PROVE \A n \in Loggers :
              /\ logger'[n].root = logger[n].root /\ logger'[n].appenders = logger[n].appenders
              /\ logger'[n].formatter = IF n = Name(t) /\ ~IsError(Head(calls[t]).formatter)
                                        THEN Head(calls[t]).formatter ELSE logger[n].formatter
  <2>1. r \in LoggerType /\ Name(t) \in Loggers
    BY <1>1, <1>3 DEF SetFormatterOf, Name, Op, Calling, NamedOps
  <2>2. CASE IsError(Head(calls[t]).formatter)
    BY <1>3, <2>2 DEF SetFormatterOf
  <2>3. CASE ~IsError(Head(calls[t]).formatter)
    <3> DEFINE f == Head(calls[t]).formatter
               l == [r EXCEPT !.formatter = f]
    <3>1. logger' = [logger EXCEPT ![Name(t)] = l]
      BY <1>3, <2>3 DEF SetFormatterOf, PassOn, Name
    <3>2. l.root = r.root /\ l.formatter = f /\ l.appenders = r.appenders
      <4> HIDE DEF f
      <4> QED
        BY <2>1 DEF LoggerType
    <3> HIDE DEF l
    <3> QED
      BY <1>0, <2>1, <2>3, <3>1, <3>2
  <2> QED
    BY <2>2, <2>3
<1>4. ASSUME NEW x, logger' = With(x), calls[t] # <<>>, Op(t) \in NamedOps
      PROVE  \A n \in Loggers :
              /\ logger'[n].root = logger[n].root /\ logger'[n].formatter = logger[n].formatter
              /\ logger'[n].appenders = IF n = Name(t) THEN x ELSE logger[n].appenders
  <2> DEFINE l == [r EXCEPT !.appenders = x]
  <2>1. logger' = [logger EXCEPT ![Name(t)] = l] /\ r \in LoggerType /\ Name(t) \in Loggers
    BY <1>1, <1>4
  <2>2. l.root = r.root /\ l.formatter = r.formatter /\ l.appenders = x
    BY <2>1 DEF LoggerType
  <2> HIDE DEF l
  <2> QED
    BY <1>0, <2>1, <2>2
<1>5. Clear(t) => /\ logger' = With(<<>>)
                  /\ calls[t] # <<>> /\ Op(t) \in NamedOps
  BY DEF Clear, SetAppenders, Calling, Op, Name, NamedOps
<1>6. Del(t) => /\ logger' = With(RemoveFirst(logger[Name(t)].appenders, Head(calls[t]).a))
                /\ calls[t] # <<>> /\ Op(t) \in NamedOps
  BY DEF Del, SetAppenders, Calling, Op, Name, NamedOps
<1>7. AddEnd(t) => /\ logger' = With(Append(logger[Name(t)].appenders, at[t].a))
                   /\ calls[t] # <<>> /\ Op(t) \in NamedOps
  BY DEF AddEnd, SetAppenders, Calling, Op, Name, NamedOps
<1> HIDE DEF r, With
<1>8. Clear(t) => \A n \in Loggers :
        /\ logger'[n].root = logger[n].root /\ logger'[n].formatter = logger[n].formatter
        /\ logger'[n].appenders = IF n = Name(t) THEN <<>> ELSE logger[n].appenders
  BY <1>4, <1>5
<1>9. Del(t) => \A n \in Loggers :
        /\ logger'[n].root = logger[n].root /\ logger'[n].formatter = logger[n].formatter
        /\ logger'[n].appenders = IF n = Name(t) THEN RemoveFirst(logger[n].appenders, Head(calls[t]).a)
                                  ELSE logger[n].appenders
  BY <1>4, <1>6
<1>10. AddEnd(t) => \A n \in Loggers :
        /\ logger'[n].root = logger[n].root /\ logger'[n].formatter = logger[n].formatter
        /\ logger'[n].appenders = IF n = Name(t) THEN Append(logger[n].appenders, at[t].a)
                                  ELSE logger[n].appenders
  BY <1>4, <1>7
<1> QED
  BY <1>2, <1>3, <1>8, <1>9, <1>10

(* The names that the manager knows, by the action.                        *)
LEMMA StepKnown ==
  ASSUME CoreInv, NEW t \in Actors, Step(t)
  PROVE  /\ known \subseteq known' /\ Root \in known'
         /\ \A n \in Loggers : n \in known' /\ n \notin known => logger'[n].root
         /\ \A n \in known : logger'[n].root = logger[n].root
         /\ calls[t] # <<>> /\ Op(t) = "getLogger" => Name(t) \in known' /\ Returns(t)
<1>0. /\ TypeInv /\ Coherent(t) /\ Root \in known /\ known \subseteq Loggers
      /\ logger \in [Loggers -> LoggerType]
  BY TypedData DEF CoreInv, KnownInv
<1>1. CASE Lookup(t)
  <2>1. Op(t) = "getLogger" /\ Name(t) \in Loggers
    BY <1>0, <1>1, CallingShape DEF Lookup, Calling, Op, Name, Shape
  <2>2. CASE Name(t) \in known
    BY <1>0, <1>1, <2>2 DEF Lookup, Name
  <2>3. CASE Name(t) \notin known
    <3> DEFINE l == [NewLogger EXCEPT !.root = TRUE]
    <3>1. l.root = TRUE
      BY DEF NewLogger
    <3>2. known' = known \cup {Name(t)} /\ logger' = [logger EXCEPT ![Name(t)] = l]
      BY <1>1, <2>3 DEF Lookup, Name
    <3> HIDE DEF l
    <3>3. \A n \in known : logger'[n] = logger[n]
      BY <1>0, <2>3, <3>2
    <3>4. \A n \in Loggers : n \in known' /\ n \notin known => logger'[n] = l
      BY <1>0, <2>1, <3>2
    <3> QED
      BY <1>0, <1>1, <3>1, <3>2, <3>3, <3>4 DEF Lookup
  <2> QED
    BY <2>2, <2>3
<1>2. CASE ~Lookup(t)
  <2>1. known' = known
    BY <1>2 DEF Step, YamlBegin, YamlLogger, Macro, Recheck, Enter, RootCheck, RootEnter, Deliver, Leave,
       SetLevelOf, SetFormatterOf, Clear, Del, AddBegin, AddEnd, SetOwn
  <2>2. calls[t] # <<>> => Op(t) # "getLogger"
    <3>1. CASE Leave(t)
      BY <1>0, <3>1 DEF Leave, Coherent, LogSteps
    <3> QED
      BY <1>2, <3>1 DEF Op, Step, YamlBegin, YamlLogger, Macro, Recheck, Enter, RootCheck, RootEnter, Deliver,
         SetLevelOf, SetFormatterOf, Clear, Del, AddBegin, AddEnd, SetOwn, Calling
  <2>3. \A n \in Loggers : logger'[n].root = logger[n].root
    <3>2. CASE logger' = logger
      BY <3>2
    <3>3. CASE SetLevelOf(t) \/ SetFormatterOf(t) \/ Clear(t) \/ Del(t) \/ AddEnd(t)
      BY <1>0, <3>3, LoggerCallChanges
    <3> QED
      BY <1>2, <3>2, <3>3 DEF Step, YamlBegin, YamlLogger, Macro, Recheck, Enter, RootCheck,
         RootEnter, Deliver, Leave, AddBegin, SetOwn
  <2> QED
    BY <1>0, <2>1, <2>2, <2>3
<1> QED
  BY <1>1, <1>2

(* A thread in no call is at the start of one.                             *)
LEMMA AtRest ==
  ASSUME CoreInv, NEW t \in Actors, calls[t] = <<>>
  PROVE  at[t].step = "start"
<1>1. at[t] \in Where /\ Coherent(t)
  BY DEF CoreInv, TypeInv, AtTyped
<1> QED
  BY <1>1, WhereFields DEF Coherent, LogSteps

(* A step of one thread leaves where the others are.                       *)
LEMMA StepFrame ==
  ASSUME CoreInv, NEW t \in Actors, Step(t)
  PROVE  \A u \in Actors : u # t => at'[u] = at[u] /\ calls'[u] = calls[u]
<1>1. TypeInv
  BY DEF CoreInv
<1> QED
  BY <1>1, StepMoves, Goers

(* Types, places and known loggers are kept by every step,                 *)
LEMMA CoreNext == CoreInv /\ [Next]_vars => CoreInv'
<1> SUFFICES ASSUME CoreInv, [Next]_vars PROVE CoreInv'
  OBVIOUS
<1>1. TypeInv'
  BY NextType DEF CoreInv
<1>2. TypeInv /\ calls \in [Actors -> Seq(AnyCall)] /\ known \subseteq Loggers
  BY DEF CoreInv, TypeInv, CallsTyped, DataTyped, TypeOK
<1>3. ASSUME NEW t \in Actors, Beginning(t), Asked(calls'[t], known) PROVE CoreInv'
  <2>1. at[t].step = "start"
    BY <1>3, AtRest DEF Beginning
  <2>2. ASSUME NEW u \in Actors PROVE Coherent(u)'
    <3>1. CASE u = t
      BY <1>3, <2>1, <3>1 DEF Beginning, Coherent, LogSteps
    <3>2. CASE u # t
      BY <1>3, <3>2 DEF Beginning, CoreInv, Coherent, Op, Name
    <3> QED
      BY <3>1, <3>2
  <2>3. KnownInv'
    BY <1>3 DEF Beginning, CoreInv, KnownInv
  <2> QED
    BY <1>1, <2>2, <2>3 DEF CoreInv
<1>4. ASSUME NEW t \in Users, Begin(t), Beginning(t), calls'[t] \in UserCalls PROVE CoreInv'
  <2>1. Asked(calls'[t], known)
    BY <1>4, UserCallsListed, AskedMore
  <2> QED
    BY <1>3, <1>4, <2>1, Constants
<1>5. ASSUME NEW doc \in Documents, Load(doc), Beginning(Loader) PROVE CoreInv'
  <2>1. calls'[Loader] \in AskingLists
    BY <1>2, <1>5, LoadCalls, Constants DEF TypeInv, DataTyped
  <2>2. Asked(calls'[Loader], known)
    BY <2>1, AskedMore DEF AskingLists, CoreInv, KnownInv
  <2> QED
    BY <1>3, <1>5, <2>2, Constants
<1>6. ASSUME NEW t \in Actors, Step(t) PROVE CoreInv'
  <2>1. ASSUME NEW u \in Actors PROVE Coherent(u)'
    <3>1. CASE u = t
      BY <1>6, <3>1, StepCoherent
    <3>2. CASE u # t
      <4>1. at'[u] = at[u] /\ calls'[u] = calls[u]
        BY <1>6, <3>2, StepFrame
      <4> QED
        BY <4>1 DEF CoreInv, Coherent, Op, Name
    <3> QED
      BY <3>1, <3>2
  <2>2. /\ known \subseteq known' /\ Root \in known'
        /\ \A n \in Loggers : n \in known' /\ n \notin known => logger'[n].root
        /\ \A n \in known : logger'[n].root = logger[n].root
        /\ calls[t] # <<>> /\ Op(t) = "getLogger" => Name(t) \in known' /\ Returns(t)
    BY <1>6, StepKnown
  <2>3. ASSUME NEW u \in Actors PROVE Asked(calls'[u], known')
    <3>1. Asked(calls[u], known)
      BY DEF CoreInv, KnownInv
    <3>2. CASE calls'[u] = calls[u]
      BY <2>2, <3>1, <3>2, AskedMore
    <3>3. CASE calls'[u] # calls[u]
      <4>1. u = t /\ Returns(t)
        BY <1>2, <1>6, <3>3, StepFrame, StepMoves, Goers
      <4>2. calls'[t] = Tail(calls[t])
        BY <1>2, <4>1, Goers
      <4>3. calls[t] # <<>>
        BY <1>6, <4>1 DEF CoreInv, Coherent, LogSteps, Step, Lookup, YamlBegin, YamlLogger, Macro, Recheck, Enter,
           RootCheck, RootEnter, Deliver, Leave, SetLevelOf, SetFormatterOf, Clear, Del, AddBegin, AddEnd,
           SetOwn, Calling
      <4> QED
        BY <1>2, <2>2, <3>1, <4>1, <4>2, <4>3, AskedTail DEF Op, Name
    <3> QED
      BY <3>2, <3>3
  <2>4. known' \subseteq Loggers
    BY <1>1 DEF TypeInv, DataTyped, TypeOK
  <2>5. KnownInv'
    BY <1>2, <2>2, <2>3, <2>4 DEF CoreInv, KnownInv
  <2> QED
    BY <1>1, <2>1, <2>5 DEF CoreInv
<1>7. CASE UNCHANGED vars
  BY <1>1, <1>7 DEF vars, CoreInv, KnownInv, Coherent, Op, Name
<1> QED
  BY <1>2, <1>4, <1>5, <1>6, <1>7, Beginnings

(* and are so in the beginning.                                            *)
LEMMA CoreInit == Init => CoreInv
<1> SUFFICES ASSUME Init PROVE CoreInv
  OBVIOUS
<1>1. KnownInv
  <2>1. ~logger[Root].root
    BY Constants DEF Init, NewLogger
  <2> QED
    BY <2>1, Constants DEF Init, KnownInv, Asked
<1>2. \A t \in Actors : Coherent(t)
  BY DEF Init, Coherent, AtStart, LogSteps
<1> QED
  BY <1>1, <1>2, InitType DEF CoreInv

(* Every variable has its type: no logger and no appender ever has a       *)
(* formatter in error, and an appender that has one of its own has one,    *)
(* whatever init() of a pattern, setFormatter(), addAppender() and the     *)
(* listener of `logs' are given.                                           *)
THEOREM LogTypeCorrect == Spec => []TypeOK
<1>1. CoreInv => TypeOK
  BY DEF CoreInv, TypeInv, DataTyped
<1> QED
  BY <1>1, CoreInit, CoreNext, PTL DEF Spec

-----------------------------------------------------------------------------
(* Locks.                                                                  *)

(* A step takes a lock that is free and gives back one that it has.        *)
LEMMA StepLocks ==
  ASSUME CoreInv, LockInv, NEW t \in Actors, Step(t)
  PROVE  /\ \A n \in Loggers : lock'[n] = t <=> Holds(t, n)'
         /\ \A n \in Loggers : lock'[n] = lock[n] \/ (lock[n] \in {Nobody, t} /\ lock'[n] \in {Nobody, t})
         /\ manager' = t <=> at'[t].step = "loggers"
         /\ manager' = manager \/ (manager \in {Nobody, t} /\ manager' \in {Nobody, t})
<1>0. /\ TypeInv /\ Coherent(t) /\ t # Nobody
      /\ lock \in [Loggers -> Actors \cup {Nobody}]
      /\ \A n \in Loggers : lock[n] = t <=> Holds(t, n)
      /\ manager = t <=> at[t].step = "loggers"
  BY TypedData, Constants DEF CoreInv, LockInv
<1>1. calls[t] # <<>> /\ Op(t) \in NamedOps => Name(t) \in Loggers
  BY <1>0, CallingShape DEF Op, Name, Shape
<1>2. CASE Lookup(t) \/ SetLevelOf(t) \/ SetFormatterOf(t) \/ Clear(t) \/ Del(t) \/ SetOwn(t)
  <2>1. at[t].step = "start" /\ Returns(t) /\ UNCHANGED <<lock, manager>>
    BY <1>2 DEF Lookup, SetLevelOf, SetFormatterOf, Clear, Del, SetOwn, Calling
  <2>2. at'[t].step = "start"
    BY <1>0, <2>1, Goers
  <2> QED
    BY <1>0, <2>1, <2>2 DEF Holds, Locked
<1>3. CASE YamlBegin(t)
  <2>1. at[t].step = "start" /\ lock' = lock /\ manager = Nobody /\ manager' = t
    BY <1>3 DEF YamlBegin, Calling
  <2>2. at'[t].step = "loggers"
    BY <1>0, <1>3, Goers DEF YamlBegin
  <2> QED
    BY <1>0, <2>1, <2>2 DEF Holds, Locked
<1>4. CASE YamlLogger(t)
  <2>1. at[t].step = "loggers" /\ lock' = lock
    BY <1>4 DEF YamlLogger, Calling
  <2>2. CASE at[t].rest = {}
    <3>1. at'[t].step = "start" /\ manager' = Nobody
      BY <1>0, <1>4, <2>2, Goers DEF YamlLogger
    <3> QED
      BY <1>0, <2>1, <3>1 DEF Holds, Locked
  <2>3. CASE at[t].rest # {}
    <3>1. PICK n \in at[t].rest : Goes(t, [at[t] EXCEPT !.rest = @ \ {n}])
      BY <1>4, <2>3 DEF YamlLogger
    <3>2. at[t] \in YamlAt
      BY <1>0, <1>4, CallingShape, WhereFields DEF YamlLogger, Calling
    <3>3. [at[t] EXCEPT !.rest = @ \ {n}].step = "loggers"
      BY <3>2 DEF YamlAt
    <3>4. at'[t].step = "loggers" /\ manager' = manager
      BY <1>0, <1>4, <2>3, <3>1, <3>3, Goers DEF YamlLogger
    <3> QED
      BY <1>0, <2>1, <3>4 DEF Holds, Locked
  <2> QED
    BY <2>2, <2>3
<1>5. CASE Macro(t) \/ Recheck(t)
  <2>1. at[t].step \in {"start", "log"} /\ UNCHANGED <<lock, manager>>
    BY <1>5 DEF Macro, Recheck, Calling
  <2>2. at'[t].step \in {"start", "log", "lock"}
    BY <1>0, <1>5, Goers DEF Macro, Recheck
  <2> QED
    BY <1>0, <2>1, <2>2 DEF Holds, Locked
<1>6. CASE Enter(t)
  <2>1. at[t].step = "lock" /\ Name(t) \in Loggers /\ lock[Name(t)] = Nobody /\ manager' = manager
        /\ lock' = [lock EXCEPT ![Name(t)] = t]
    BY <1>1, <1>6 DEF Enter, Calling, Op, Name, NamedOps
  <2>2. at'[t] = Inside(Name(t)) /\ calls' = calls
    BY <1>0, <1>6, Goers DEF Enter, Name
  <2>3. at'[t].step \in {"walk", "root", "unlock"} /\ at'[t].via = Name(t)
    BY <2>1, <2>2, InsideFields
  <2>4. Name(t)' = Name(t)
    BY <2>2 DEF Name
  <2>5. \A n \in Loggers : lock[n] # t
    BY <1>0, <2>1 DEF Holds, Locked
  <2>6. \A n \in Loggers : Holds(t, n)' <=> n = Name(t)
    BY <2>3, <2>4 DEF Holds, Locked
  <2> QED
    BY <1>0, <2>1, <2>3, <2>5, <2>6
<1>7. CASE RootEnter(t)
  <2>1. at[t].step = "rootLock" /\ Name(t) \in Loggers /\ lock[Root] = Nobody /\ manager' = manager
        /\ lock' = [lock EXCEPT ![Root] = t]
    BY <1>1, <1>7 DEF RootEnter, Calling, Op, Name, NamedOps
  <2>2. at'[t] = Inside(Root) /\ calls' = calls
    BY <1>0, <1>7, Goers DEF RootEnter
  <2>3. at'[t].step \in {"walk", "unlock"} /\ at'[t].via = Root
    BY <2>2, InsideFields, Constants
  <2>4. Name(t)' = Name(t)
    BY <2>2 DEF Name
  <2>5. \A n \in Loggers : lock[n] = t <=> n = Name(t)
    BY <1>0, <2>1 DEF Holds, Locked
  <2>6. \A n \in Loggers : Holds(t, n)' <=> n = Name(t) \/ n = Root
    BY <2>3, <2>4 DEF Holds, Locked
  <2> QED
    BY <1>0, <2>1, <2>3, <2>5, <2>6
<1>8. CASE RootCheck(t)
  <2>1. at[t].step = "root" /\ at[t] \in RootAt /\ UNCHANGED <<lock, manager>>
    BY <1>0, <1>8, CallingShape, WhereFields DEF RootCheck, Calling
  <2>2. at[t].via = Name(t)
    BY <1>0, <2>1 DEF Coherent
  <2> DEFINE x == [at[t] EXCEPT !.step = "rootLock"]
             y == [at[t] EXCEPT !.step = "unlock", !.refused = TRUE]
  <2>3. x.step = "rootLock" /\ y.step = "unlock" /\ y.via = at[t].via
    BY <2>1 DEF RootAt
  <2>4. (at'[t] = x \/ at'[t] = y) /\ calls' = calls
    BY <1>0, <1>8, Goers DEF RootCheck
  <2>5. Name(t)' = Name(t)
    BY <2>4 DEF Name
  <2> HIDE DEF x, y
  <2>6. \A n \in Loggers : Holds(t, n) <=> n = Name(t)
    BY <2>1 DEF Holds, Locked
  <2>7. \A n \in Loggers : Holds(t, n)' <=> n = Name(t)
    BY <2>2, <2>3, <2>4, <2>5 DEF Holds, Locked
  <2> QED
    BY <1>0, <2>1, <2>3, <2>4, <2>6, <2>7
<1>9. CASE Deliver(t)
  <2>1. at[t].step = "walk" /\ UNCHANGED <<lock, manager>>
    BY <1>9 DEF Deliver, Calling
  <2>2. calls' = calls /\ at'[t].step \in {"walk", "walked"} /\ at'[t].via = at[t].via
    BY <1>0, <1>9, Delivers
  <2>3. Name(t)' = Name(t)
    BY <2>2 DEF Name
  <2>4. \A n \in Loggers : Holds(t, n)' <=> Holds(t, n)
    BY <2>1, <2>2, <2>3 DEF Holds, Locked
  <2> QED
    BY <1>0, <2>1, <2>2, <2>4
<1>10. CASE Leave(t)
  <2>1. /\ at[t].step \in {"walked", "unlock", "left"} /\ calls[t] # <<>> /\ Op(t) = "log"
        /\ manager' = manager
    BY <1>0, <1>10 DEF Leave, Coherent, LogSteps
  <2>2. Name(t) \in Loggers /\ lock[Name(t)] = t
    BY <1>0, <1>1, <2>1 DEF Holds, Locked, NamedOps
  <2>3. \A n \in Loggers : lock[n] = t => n \in {Name(t), Root}
    BY <1>0, <2>1 DEF Holds, Coherent
  <2>4. CASE lock[Root] = t /\ Name(t) # Root
    <3>1. lock' = [lock EXCEPT ![Root] = Nobody] /\ Goes(t, [step |-> "left"])
      BY <1>10, <2>4 DEF Leave, Name
    <3>2. at'[t].step = "left" /\ calls' = calls
      BY <1>0, <3>1, Goers
    <3>3. Name(t)' = Name(t)
      BY <3>2 DEF Name
    <3>4. \A n \in Loggers : Holds(t, n)' <=> n = Name(t)
      BY <3>2, <3>3 DEF Holds, Locked
    <3> QED
      BY <1>0, <2>1, <2>2, <2>3, <2>4, <3>1, <3>2, <3>4
  <2>5. CASE ~(lock[Root] = t /\ Name(t) # Root)
    <3>1. lock' = [lock EXCEPT ![Name(t)] = Nobody] /\ Returns(t)
      BY <1>10, <2>5 DEF Leave, Name
    <3>2. at'[t].step = "start"
      BY <1>0, <3>1, Goers
    <3>3. \A n \in Loggers : ~Holds(t, n)'
      BY <3>2 DEF Holds, Locked
    <3> QED
      BY <1>0, <2>1, <2>2, <2>3, <2>5, <3>1, <3>2, <3>3
  <2> QED
    BY <2>4, <2>5
<1>11. CASE AddBegin(t)
  <2>1. at[t].step = "start" /\ Name(t) \in Loggers /\ lock[Name(t)] = Nobody /\ manager' = manager
        /\ lock' = [lock EXCEPT ![Name(t)] = t]
    BY <1>1, <1>11 DEF AddBegin, Calling, Op, Name, NamedOps
  <2>2. at'[t].step = "push" /\ calls' = calls
    BY <1>0, <1>11, Goers DEF AddBegin
  <2>3. Name(t)' = Name(t)
    BY <2>2 DEF Name
  <2>4. \A n \in Loggers : Holds(t, n)' <=> n = Name(t)
    BY <2>2, <2>3 DEF Holds, Locked
  <2>5. \A n \in Loggers : lock[n] # t
    BY <1>0, <2>1 DEF Holds, Locked
  <2> QED
    BY <1>0, <2>1, <2>2, <2>4, <2>5
<1>12. CASE AddEnd(t)
  <2>1. at[t].step = "push" /\ Name(t) \in Loggers /\ manager' = manager
        /\ lock' = [lock EXCEPT ![Name(t)] = Nobody]
    BY <1>1, <1>12 DEF AddEnd, Calling, Op, Name, NamedOps
  <2>2. at'[t].step = "start"
    BY <1>0, <1>12, Goers DEF AddEnd
  <2>3. \A n \in Loggers : lock[n] = t <=> n = Name(t)
    BY <1>0, <2>1 DEF Holds, Locked
  <2>4. \A n \in Loggers : ~Holds(t, n)'
    BY <2>2 DEF Holds, Locked
  <2> QED
    BY <1>0, <2>1, <2>2, <2>3, <2>4
<1> QED
  BY <1>2, <1>3, <1>4, <1>5, <1>6, <1>7, <1>8, <1>9, <1>10, <1>11, <1>12 DEF Step

(* Who has a lock is told by where it is, in every step,                   *)
LEMMA LockNext == CoreInv /\ LockInv /\ [Next]_vars => LockInv'
<1> SUFFICES ASSUME CoreInv, LockInv, [Next]_vars PROVE LockInv'
  OBVIOUS
<1>0. TypeInv
  BY DEF CoreInv
<1>1. ASSUME NEW t \in Actors, Beginning(t) PROVE LockInv'
  <2>1. at[t].step = "start"
    BY <1>1, AtRest DEF Beginning
  <2>2. ASSUME NEW u \in Actors, NEW n \in Loggers PROVE Holds(u, n)' <=> Holds(u, n)
    BY <1>1, <2>1 DEF Beginning, Holds, Locked, Name
  <2> QED
    BY <1>1, <2>2 DEF Beginning, LockInv
<1>2. ASSUME NEW t \in Actors, Step(t) PROVE LockInv'
  <2>1. ASSUME NEW u \in Actors
        PROVE  /\ \A n \in Loggers : lock'[n] = u <=> Holds(u, n)'
               /\ manager' = u <=> at'[u].step = "loggers"
    <3>1. CASE u = t
      BY <1>2, <3>1, StepLocks
    <3>2. CASE u # t
      <4>1. at'[u] = at[u] /\ calls'[u] = calls[u]
        BY <1>2, <3>2, StepFrame
      <4>2. \A n \in Loggers : Holds(u, n)' <=> Holds(u, n)
        BY <4>1 DEF Holds, Name
      <4>3. \A n \in Loggers : lock'[n] = u <=> lock[n] = u
        BY <1>2, <3>2, StepLocks, Constants
      <4>4. manager' = u <=> manager = u
        BY <1>2, <3>2, StepLocks, Constants
      <4> QED
        BY <4>1, <4>2, <4>3, <4>4 DEF LockInv
    <3> QED
      BY <3>1, <3>2
  <2> QED
    BY <2>1 DEF LockInv
<1>3. CASE UNCHANGED vars
  BY <1>3 DEF vars, LockInv, Holds, Name
<1> QED
  BY <1>0, <1>1, <1>2, <1>3, Beginnings, Constants

(* and in the beginning.                                                   *)
LEMMA LockInit == Init => LockInv
  BY Constants DEF Init, LockInv, Holds, Locked, AtStart

-----------------------------------------------------------------------------
(* What Logger::log() goes through, and that no event is lost.             *)

(* The logger of the call that a thread is in is known to the manager.     *)
LEMMA FirstIsKnown ==
  ASSUME CoreInv, NEW t \in Actors, calls[t] # <<>>, Op(t) \in NamedOps
  PROVE  Name(t) \in known /\ Name(t) \in Loggers
<1>1. TypeInv /\ calls[t] \in Seq(AnyCall) /\ Asked(calls[t], known) /\ known \subseteq Loggers
  BY DEF CoreInv, KnownInv, TypeInv, CallsTyped, DataTyped, TypeOK
<1>2. Head(calls[t]) = calls[t][1] /\ 1 \in DOMAIN calls[t] /\ DOMAIN calls[t] = 1..Len(calls[t])
      /\ Len(calls[t]) \in Nat
  BY <1>1, TailElements
<1>3. ~ \E j \in DOMAIN calls[t] : j < 1
  BY <1>2
<1> QED
  BY <1>1, <1>2, <1>3 DEF Asked, Op, Name

(* A thread inside a logger.                                               *)
LEMMA HeldIsKnown ==
  ASSUME CoreInv, NEW t \in Actors, NEW n, Holds(t, n)
  PROVE  n \in known /\ n \in Loggers /\ calls[t] # <<>>
<1>1. Coherent(t) /\ Root \in known /\ known \subseteq Loggers
  BY DEF CoreInv, KnownInv, TypeInv, DataTyped, TypeOK
<1>2. calls[t] # <<>> /\ Op(t) \in NamedOps /\ n \in {Name(t), Root}
  BY <1>1 DEF Holds, Locked, Coherent, LogSteps, NamedOps
<1> QED
  BY <1>1, <1>2, FirstIsKnown

(* Who changes the list of a logger.                                       *)
LEMMA ListChanges ==
  ASSUME CoreInv, LockInv, NEW t \in Actors, Step(t), NEW n \in Loggers,
         logger'[n].appenders # logger[n].appenders
  PROVE  n \notin known \/ lock[n] \in {Nobody, t}
<1>0. TypeInv /\ logger \in [Loggers -> LoggerType]
  BY TypedData DEF CoreInv
<1>1. CASE Lookup(t)
  BY <1>0, <1>1 DEF Lookup
<1>2. CASE SetLevelOf(t) \/ SetFormatterOf(t)
  BY <1>0, <1>2, LoggerCallChanges
<1>3. CASE Clear(t)
  <2>1. lock[Name(t)] = Nobody
    BY <1>3 DEF Clear, Name
  <2>2. n = Name(t)
    BY <1>0, <1>3, LoggerCallChanges
  <2> QED
    BY <2>1, <2>2
<1>4. CASE Del(t)
  <2>1. lock[Name(t)] = Nobody
    BY <1>4 DEF Del, Name
  <2>2. n = Name(t)
    BY <1>0, <1>4, LoggerCallChanges
  <2> QED
    BY <2>1, <2>2
<1>5. CASE AddEnd(t)
  <2>1. at[t].step = "push"
    BY <1>5 DEF AddEnd, Calling
  <2>2. n = Name(t)
    BY <1>0, <1>5, LoggerCallChanges
  <2> QED
    BY <2>1, <2>2 DEF LockInv, Holds, Locked
<1>6. CASE logger' = logger
  BY <1>6
<1> QED
  BY <1>1, <1>2, <1>3, <1>4, <1>5, <1>6 DEF Step, YamlBegin, YamlLogger, Macro, Recheck, Enter, RootCheck,
     RootEnter, Deliver, Leave, AddBegin, SetOwn

(* A list of appenders stays as it is while another thread has the lock.   *)
LEMMA HeldIsKept ==
  ASSUME CoreInv, LockInv, NEW t \in Actors, Step(t), NEW u \in Actors, u # t, NEW n, Holds(u, n)
  PROVE  logger'[n].appenders = logger[n].appenders
<1>1. n \in known /\ n \in Loggers
  BY HeldIsKnown
<1>2. lock[n] = u
  BY <1>1 DEF LockInv
<1> QED
  BY <1>1, <1>2, ListChanges, Constants

(* What log() has seen stays so in every step,                             *)
LEMMA WalkNext == CoreInv /\ LockInv /\ WalkInv /\ [Next]_vars => WalkInv'
<1> DEFINE Walks(t) ==
             /\ at[t].step \in {"walk", "walked"} =>
                  logger[at[t].via].appenders = at[t].list /\ at[t].list # <<>>
             /\ at[t].step \in {"root", "rootLock"} => Silent(Name(t))
             /\ at[t].step = "unlock" =>
                  at[t].refused \/ (at[t].via = Root /\ Silent(Name(t)) /\ Silent(Root))
<1> SUFFICES ASSUME CoreInv, LockInv, WalkInv, [Next]_vars PROVE WalkInv'
  OBVIOUS
<1>0. TypeInv
  BY DEF CoreInv
<1>1. ASSUME NEW t \in Actors, Beginning(t) PROVE WalkInv'
  <2>1. at[t].step = "start"
    BY <1>1, AtRest DEF Beginning
  <2>2. ASSUME NEW u \in Actors PROVE Walks(u)'
    <3>1. CASE u = t
      BY <1>1, <2>1, <3>1 DEF Beginning
    <3>2. CASE u # t
      BY <1>1, <3>2 DEF Beginning, WalkInv, Silent, Name
    <3> QED
      BY <3>1, <3>2
  <2> QED
    BY <2>2 DEF WalkInv
<1>2. ASSUME NEW t \in Actors, Step(t) PROVE WalkInv'
  <2>1. ASSUME NEW u \in Actors, u # t PROVE Walks(u)'
    <3>1. at'[u] = at[u] /\ calls'[u] = calls[u]
      BY <1>2, <2>1, StepFrame
    <3>2. Walks(u)
      BY DEF WalkInv
    <3>3. at[u].step \in {"walk", "walked"} => logger'[at[u].via].appenders = logger[at[u].via].appenders
      BY <1>2, <2>1, HeldIsKept DEF Holds
    <3>4. at[u].step \in {"root", "rootLock", "unlock"} =>
            logger'[Name(u)].appenders = logger[Name(u)].appenders
      BY <1>2, <2>1, HeldIsKept DEF Holds, Locked
    <3>5. at[u].step = "unlock" => logger'[at[u].via].appenders = logger[at[u].via].appenders
      BY <1>2, <2>1, HeldIsKept DEF Holds
    <3> QED
      BY <3>1, <3>2, <3>3, <3>4, <3>5 DEF Silent, Name
  <2>2. Walks(t)'
    <3>0. Coherent(t) /\ Walks(t)
      BY DEF CoreInv, WalkInv
    <3>1. CASE Enter(t)
      <4>1. at'[t] = Inside(Name(t)) /\ calls' = calls /\ logger' = logger
            /\ calls[t] # <<>> /\ Op(t) \in NamedOps
        BY <1>0, <3>1, Goers DEF Enter, Name, Op, Calling, NamedOps
      <4>2. Name(t) \in known /\ Name(t) \in Loggers
        BY <4>1, FirstIsKnown
      <4>3. Inside(Name(t)).step = "unlock" => Name(t) = Root
        BY <4>2, InsideFields DEF CoreInv, KnownInv
      <4>4. Name(t)' = Name(t)
        BY <4>1 DEF Name
      <4> QED
        BY <4>1, <4>2, <4>3, <4>4, InsideFields DEF Silent
    <3>2. CASE RootEnter(t)
      <4>1. at'[t] = Inside(Root) /\ calls' = calls /\ logger' = logger /\ Silent(Name(t))
        BY <1>0, <3>0, <3>2, Goers DEF RootEnter, Calling
      <4>2. Name(t)' = Name(t)
        BY <4>1 DEF Name
      <4> QED
        BY <4>1, <4>2, InsideFields, Constants DEF Silent
    <3>3. CASE RootCheck(t)
      <4>1. at[t].step = "root" /\ at[t] \in RootAt /\ logger' = logger /\ Silent(Name(t))
        BY <1>0, <3>0, <3>3, CallingShape, WhereFields DEF RootCheck, Calling
      <4> DEFINE x == [at[t] EXCEPT !.step = "rootLock"]
                 y == [at[t] EXCEPT !.step = "unlock", !.refused = TRUE]
      <4>2. x.step = "rootLock" /\ y.step = "unlock" /\ y.refused = TRUE
        BY <4>1 DEF RootAt
      <4>3. (at'[t] = x \/ at'[t] = y) /\ calls' = calls
        BY <1>0, <3>3, Goers DEF RootCheck
      <4>4. Name(t)' = Name(t)
        BY <4>3 DEF Name
      <4> HIDE DEF x, y
      <4> QED
        BY <4>1, <4>2, <4>3, <4>4 DEF Silent
    <3>4. CASE Deliver(t)
      <4>1. /\ at[t].step = "walk" /\ logger' = logger /\ at'[t].step \in {"walk", "walked"}
            /\ at'[t].via = at[t].via /\ at'[t].list = at[t].list
        BY <1>0, <3>4, Delivers DEF Deliver, Calling
      <4> QED
        BY <3>0, <4>1
    <3>5. CASE Returns(t)
      BY <1>0, <3>5, Goers
    <3>6. CASE Macro(t) \/ Recheck(t) \/ Leave(t) \/ AddBegin(t) \/ YamlBegin(t)
      <4>1. at'[t].step \in {"start", "log", "lock", "left", "push", "loggers"}
        BY <1>0, <3>6, Goers DEF Macro, Recheck, Leave, AddBegin, YamlBegin
      <4> QED
        BY <4>1
    <3>7. CASE YamlLogger(t)
      <4>1. at[t].step = "loggers" /\ at'[t].step \in {"start", "loggers"}
        <5>1. at[t].step = "loggers" /\ at[t] \in YamlAt
          BY <1>0, <3>7, CallingShape, WhereFields DEF YamlLogger, Calling
        <5>2. CASE at[t].rest = {}
          BY <1>0, <3>7, <5>1, <5>2, Goers DEF YamlLogger
        <5>3. CASE at[t].rest # {}
          <6>1. PICK n \in at[t].rest : Goes(t, [at[t] EXCEPT !.rest = @ \ {n}])
            BY <3>7, <5>3 DEF YamlLogger
          <6>2. [at[t] EXCEPT !.rest = @ \ {n}].step = "loggers"
            BY <5>1 DEF YamlAt
          <6> QED
            BY <1>0, <5>1, <6>1, <6>2, Goers
        <5> QED
          BY <5>2, <5>3
      <4> QED
        BY <4>1
    <3> QED
      BY <1>2, <3>1, <3>2, <3>3, <3>4, <3>5, <3>6, <3>7 DEF Step, Lookup, SetLevelOf, SetFormatterOf, Clear, Del,
         AddEnd, SetOwn
  <2>3. \A u \in Actors : Walks(u)'
    BY <2>1, <2>2
  <2> QED
    BY <2>3 DEF WalkInv
<1>3. CASE UNCHANGED vars
  BY <1>3 DEF vars, WalkInv, Silent, Name
<1> QED
  BY <1>0, <1>1, <1>2, <1>3, Beginnings, Constants

(* and is so in the beginning.                                             *)
LEMMA WalkInit == Init => WalkInv
  BY DEF Init, WalkInv, AtStart

(* While Logger::log() goes through the appenders of a logger, nobody      *)
(* changes them: the listener, addAppender(), delAppender() and            *)
(* clearAppenders() come before or after.                                  *)
THEOREM WalkIsStable == Spec => []WalkStable
<1>1. WalkInv => WalkStable
  BY DEF WalkInv, WalkStable
<1> QED
  BY <1>1, CoreInit, CoreNext, LockInit, LockNext, WalkInit, WalkNext, PTL DEF Spec

(* An event that a logger has let through is written by its appenders or   *)
(* by those of the root, or the root refuses it, or neither has one:       *)
(* Logger::log() never sees a list that the listener is replacing.         *)
THEOREM EventsWritten == Spec => []NoEventLost
<1>1. WalkInv => NoEventLost
  BY DEF WalkInv, NoEventLost, Silent, Name
<1> QED
  BY <1>1, CoreInit, CoreNext, LockInit, LockNext, WalkInit, WalkNext, PTL DEF Spec

-----------------------------------------------------------------------------
(* The order of the locks: the manager's, a logger's, the root's.          *)

(* A thread that has a lock waits for the root's at most, and one that has *)
(* the manager's for that of a logger.                                     *)
LEMMA HolderWaits ==
  ASSUME CoreInv, LockInv, NEW u \in Actors
  PROVE  /\ \A n \in Loggers : lock[n] = u =>
              \/ WaitsFor(u) = Nobody
              \/ n # Root /\ WaitsFor(u) = lock[Root]
         /\ manager = u => WaitsFor(u) = Nobody \/ \E n \in Loggers : WaitsFor(u) = lock[n]
<1>0. TypeInv /\ Coherent(u)
  BY DEF CoreInv
<1>1. ASSUME NEW n \in Loggers, lock[n] = u
      PROVE  WaitsFor(u) = Nobody \/ (n # Root /\ WaitsFor(u) = lock[Root])
  <2>1. Holds(u, n)
    BY <1>1 DEF LockInv
  <2>2. calls[u] # <<>>
    BY <2>1, HeldIsKnown
  <2>3. at[u].step \in Locked
    BY <2>1 DEF Holds, Locked
  <2>4. CASE at[u].step = "rootLock"
    <3>1. n = Name(u) /\ n # Root
      BY <1>0, <2>1, <2>4 DEF Holds, Coherent
    <3> QED
      BY <2>2, <2>4, <3>1 DEF WaitsFor
  <2>5. CASE at[u].step # "rootLock"
    BY <2>2, <2>3, <2>5 DEF WaitsFor, Locked
  <2> QED
    BY <2>4, <2>5
<1>2. ASSUME manager = u
      PROVE  WaitsFor(u) = Nobody \/ \E n \in Loggers : WaitsFor(u) = lock[n]
  <2>1. at[u].step = "loggers" /\ calls[u] # <<>>
    BY <1>0, <1>2 DEF LockInv, Coherent
  <2>2. at[u].rest \subseteq Loggers
    BY <1>0, <2>1, CallingShape, WhereFields, AtYaml
  <2>3. CASE Cardinality(at[u].rest) = 1
    <3>1. at[u].rest # {}
      BY <2>3, FS_EmptySet
    <3>2. PICK n \in at[u].rest : n = CHOOSE m \in at[u].rest : TRUE
      BY <3>1
    <3>3. WaitsFor(u) = lock[n]
      BY <2>1, <2>3, <3>2 DEF WaitsFor
    <3> QED
      BY <2>2, <3>3
  <2>4. CASE Cardinality(at[u].rest) # 1
    BY <2>1, <2>4 DEF WaitsFor
  <2> QED
    BY <2>3, <2>4
<1> QED
  BY <1>1, <1>2

(* A thread waits for the holder of a lock, or for nobody.                 *)
LEMMA WaiterWaits ==
  ASSUME CoreInv, NEW t \in Actors
  PROVE  WaitsFor(t) \in {Nobody, manager} \cup {lock[n] : n \in Loggers}
<1>0. TypeInv /\ Coherent(t)
  BY DEF CoreInv
<1>1. CASE calls[t] = <<>>
  BY <1>1 DEF WaitsFor
<1>2. CASE calls[t] # <<>> /\ at[t].step = "loggers"
  <2>1. at[t].rest \subseteq Loggers
    BY <1>0, <1>2, CallingShape, WhereFields, AtYaml
  <2>2. CASE Cardinality(at[t].rest) = 1
    <3>1. at[t].rest # {}
      BY <2>2, FS_EmptySet
    <3>2. PICK n \in at[t].rest : n = CHOOSE m \in at[t].rest : TRUE
      BY <3>1
    <3> QED
      BY <1>2, <2>1, <2>2, <3>2 DEF WaitsFor
  <2>3. CASE Cardinality(at[t].rest) # 1
    BY <1>2, <2>3 DEF WaitsFor
  <2> QED
    BY <2>2, <2>3
<1>3. CASE calls[t] # <<>> /\ at[t].step # "loggers"
  <2>1. Op(t) \in NamedOps => Name(t) \in Loggers
    BY <1>3, FirstIsKnown
  <2>2. at[t].step = "lock" => Op(t) \in NamedOps
    BY <1>0 DEF Coherent, LogSteps, NamedOps
  <2> QED
    BY <1>3, <2>1, <2>2, Constants DEF WaitsFor, Op, Name, NamedOps
<1> QED
  BY <1>1, <1>2, <1>3

(* In any set of threads one waits for nobody of the set.                  *)
LEMMA NoCircle ==
  ASSUME CoreInv, LockInv, NEW S \in SUBSET Actors, S # {}
  PROVE  \E t \in S : WaitsFor(t) \notin S
<1> SUFFICES ASSUME \A t \in S : WaitsFor(t) \in S PROVE FALSE
  OBVIOUS
<1>1. Nobody \notin S
  BY Constants
<1>2. ASSUME NEW u \in S, NEW n \in Loggers, lock[n] = u PROVE FALSE
  <2>1. n # Root /\ WaitsFor(u) = lock[Root]
    BY <1>1, <1>2, HolderWaits
  <2>2. WaitsFor(u) \in S
    OBVIOUS
  <2>3. WaitsFor(WaitsFor(u)) \in S
    BY <2>2
  <2> DEFINE v == WaitsFor(u)
  <2>4. v \in Actors /\ lock[Root] = v /\ WaitsFor(v) \in S
    BY <2>1, <2>2, <2>3
  <2> HIDE DEF v
  <2> QED
    BY <1>1, <2>4, HolderWaits, Constants
<1>3. ASSUME NEW u \in S, manager = u PROVE FALSE
  <2>1. PICK n \in Loggers : WaitsFor(u) = lock[n]
    BY <1>1, <1>3, HolderWaits
  <2>2. lock[n] \in S
    BY <2>1
  <2> QED
    BY <1>2, <2>2
<1>4. PICK t \in S : TRUE
  OBVIOUS
<1>5. WaitsFor(t) \in S /\ WaitsFor(t) \in {Nobody, manager} \cup {lock[n] : n \in Loggers}
  BY WaiterWaits
<1> QED
  BY <1>1, <1>2, <1>3, <1>5

(* No threads wait for one another's locks, and none is left with a lock:  *)
(* toYamlString() takes the manager's and then the loggers', log() its     *)
(* logger's and then the root's.                                           *)
THEOREM LocksOrdered == Spec => []NoDeadlock
<1>1. CoreInv /\ LockInv => NoDeadlock
  <2> SUFFICES ASSUME CoreInv, LockInv PROVE NoDeadlock
    OBVIOUS
  <2>1. ASSUME NEW t \in Actors, calls[t] = <<>>
        PROVE  t # manager /\ \A n \in Loggers : lock[n] # t
    <3>1. at[t].step = "start"
      BY <2>1, AtRest
    <3> QED
      BY <3>1 DEF LockInv, Holds, Locked
  <2> QED
    BY <2>1, NoCircle DEF NoDeadlock
<1> QED
  BY <1>1, CoreInit, CoreNext, LockInit, LockNext, PTL DEF Spec

-----------------------------------------------------------------------------
(* Appenders: each is in one logger at most.                               *)

(* What a list has with one more at its end.                               *)
LEMMA AppendedSet ==
  ASSUME NEW S, NEW s \in Seq(S), NEW e \in S
  PROVE  ToSet(Append(s, e)) = ToSet(s) \cup {e}
<1>1. Len(s) \in Nat /\ DOMAIN s = 1..Len(s)
  BY LenProperties
<1>2. /\ Append(s, e) \in Seq(S) /\ Len(Append(s, e)) = Len(s) + 1
      /\ \A i \in 1..Len(s) : Append(s, e)[i] = s[i]
      /\ Append(s, e)[Len(s) + 1] = e
  BY AppendProperties
<1>3. DOMAIN Append(s, e) = 1..(Len(s) + 1)
  BY <1>2, LenProperties
<1>4. ASSUME NEW x \in ToSet(Append(s, e)) PROVE x \in ToSet(s) \cup {e}
  <2>1. PICK i \in 1..(Len(s) + 1) : x = Append(s, e)[i]
    BY <1>3, <1>4 DEF ToSet
  <2> QED
    BY <1>1, <1>2, <2>1 DEF ToSet
<1>5. ASSUME NEW x \in ToSet(s) \cup {e} PROVE x \in ToSet(Append(s, e))
  <2>1. CASE x = e
    BY <1>1, <1>2, <1>3, <2>1 DEF ToSet
  <2>2. CASE x \in ToSet(s)
    <3>1. PICK i \in 1..Len(s) : x = s[i]
      BY <1>1, <2>2 DEF ToSet
    <3>2. i \in DOMAIN Append(s, e) /\ Append(s, e)[i] = x
      BY <1>1, <1>2, <1>3, <3>1
    <3> QED
      BY <3>2 DEF ToSet
  <2> QED
    BY <1>5, <2>1, <2>2
<1> QED
  BY <1>4, <1>5

(* The listener makes the appender that it adds, a user has it.            *)
LEMMA WhoAdds ==
  ASSUME CoreInv, NEW t \in Actors, calls[t] # <<>>, Op(t) = "addAppender"
  PROVE  /\ t \in Users => Head(calls[t]).new = <<>> /\ Head(calls[t]).a \in 2..1 + Spare
         /\ t \notin Users => t = Loader /\ Head(calls[t]).new # <<>>
<1>0. TypeInv
  BY DEF CoreInv
<1>1. CASE t \in Users
  <2>1. calls[t] \in UserLists
    BY <1>0, <1>1 DEF TypeInv, CallsTyped
  <2>2. Head(calls[t]) = calls[t][1] /\ 1 \in DOMAIN calls[t]
    BY <1>0, TailElements DEF TypeInv, CallsTyped
  <2>3. Head(calls[t]).new = <<>>
    BY <2>1, <2>2, UserListCalls DEF Op
  <2>4. Head(calls[t]).a \in 2..1 + Spare
    BY <1>0, <2>3, CallingShape DEF Shape, Op
  <2> QED
    BY <1>1, <2>3, <2>4
<1>2. CASE t \notin Users
  <2>1. t = Loader
    BY <1>2 DEF Actors
  <2>2. Head(calls[t]) \in ListenerCalls
    BY <1>0, <2>1, TailElements DEF TypeInv, CallsTyped
  <2> DEFINE c == Head(calls[t])
  <2>3. c \in ListenerCalls /\ c.op = "addAppender"
    BY <2>2 DEF Op
  <2> HIDE DEF c
  <2>4. c.new # <<>>
    <3>1. \E n \in Named, ad \in AppenderDefs : c = AddNew(n, ad)
      BY <2>3 DEF ListenerCalls, GetLogger, LogTo, SetLevel, SetFormatter, ClearAppenders
    <3>2. PICK n, ad : c = AddNew(n, ad)
      BY <3>1
    <3>3. c.new = <<ad>>
      BY <3>2 DEF AddNew
    <3> QED
      BY <3>3
  <2> QED
    BY <1>2, <2>1, <2>4 DEF c
<1> QED
  BY <1>1, <1>2

(* Which appenders a logger has after a step.                              *)
LEMMA InAfter ==
  ASSUME CoreInv, NEW t \in Actors, Step(t), NEW n \in Loggers, NEW a, In(n, a)'
  PROVE  In(n, a) \/ (AddEnd(t) /\ n = Name(t) /\ a = at[t].a)
<1>0. TypeInv /\ logger \in [Loggers -> LoggerType]
  BY TypedData DEF CoreInv
<1>1. a \in ToSet(logger'[n].appenders)
  BY DEF In
<1>2. CASE logger'[n].appenders = logger[n].appenders
  BY <1>1, <1>2 DEF In
<1>3. CASE logger'[n].appenders = <<>>
  BY <1>1, <1>3 DEF ToSet
<1>4. CASE Lookup(t)
  <2> DEFINE l == [NewLogger EXCEPT !.root = TRUE]
  <2>1. l.appenders = <<>>
    BY NewLoggerType
  <2>2. logger' = logger \/ logger' = [logger EXCEPT ![Name(t)] = l]
    BY <1>4 DEF Lookup, Name
  <2> HIDE DEF l
  <2>3. logger'[n] = logger[n] \/ logger'[n] = l
    BY <1>0, <2>2
  <2> QED
    BY <1>2, <1>3, <2>1, <2>3
<1>5. CASE SetLevelOf(t) \/ SetFormatterOf(t)
  BY <1>0, <1>2, <1>5, LoggerCallChanges
<1>6. CASE Clear(t)
  BY <1>0, <1>2, <1>3, <1>6, LoggerCallChanges
<1>7. CASE Del(t)
  <2> DEFINE l == logger[n].appenders
             r == RemoveFirst(l, Head(calls[t]).a)
  <2>1. l \in Seq(AppenderIds)
    BY <1>0, LoggerFields
  <2>2. ToSet(r) \subseteq ToSet(l)
    BY <2>1, RemoveFirstType
  <2>3. logger'[n].appenders = IF n = Name(t) THEN r ELSE l
    BY <1>0, <1>7, LoggerCallChanges
  <2> QED
    BY <1>1, <2>2, <2>3 DEF In
<1>8. CASE AddEnd(t)
  <2> DEFINE l == logger[n].appenders
             r == Append(l, at[t].a)
  <2>1. l \in Seq(AppenderIds) /\ at[t].a \in AppenderIds
    BY <1>0, <1>8, LoggerFields, CallingShape, WhereFields, AtPush DEF AddEnd, Calling
  <2>2. ToSet(r) = ToSet(l) \cup {at[t].a}
    BY <2>1, AppendedSet
  <2>3. logger'[n].appenders = IF n = Name(t) THEN r ELSE l
    BY <1>0, <1>8, LoggerCallChanges
  <2> QED
    BY <1>1, <1>8, <2>2, <2>3 DEF In
<1>9. CASE logger' = logger
  BY <1>2, <1>9
<1> QED
  BY <1>4, <1>5, <1>6, <1>7, <1>8, <1>9 DEF Step, YamlBegin, YamlLogger, Macro, Recheck, Enter, RootCheck,
     RootEnter, Deliver, Leave, AddBegin, SetOwn

(* A step of AddBegin() that makes an appender.                            *)
Makes(t) == AddBegin(t) /\ Head(calls[t]).new # <<>>

(* A thread that has come between the two accesses of addAppender().       *)
LEMMA PushAfter ==
  ASSUME CoreInv, NEW t \in Actors, Step(t), at'[t].step = "push"
  PROVE  /\ AddBegin(t) /\ calls[t] # <<>> /\ Op(t) = "addAppender" /\ calls' = calls
         /\ at'[t].a = IF Makes(t) THEN made + 1 ELSE Head(calls[t]).a
         /\ at'[t].bare <=> appender'[at'[t].a].formatter = NoFormat
<1>0. TypeInv
  BY DEF CoreInv
<1>1. AddBegin(t)
  <2>1. CASE Returns(t)
    BY <1>0, <2>1, Goers
  <2>2. CASE YamlBegin(t) \/ Macro(t) \/ Recheck(t) \/ Leave(t)
    BY <1>0, <2>1, <2>2, Goers DEF YamlBegin, Macro, Recheck, Leave
  <2>3. CASE YamlLogger(t)
    <3>1. at[t].step = "loggers" /\ at[t] \in YamlAt
      BY <1>0, <2>3, CallingShape, WhereFields DEF YamlLogger, Calling
    <3>2. CASE at[t].rest = {}
      BY <1>0, <2>1, <2>3, <3>2 DEF YamlLogger
    <3>3. CASE at[t].rest # {}
      <4>1. PICK n \in at[t].rest : Goes(t, [at[t] EXCEPT !.rest = @ \ {n}])
        BY <2>3, <3>3 DEF YamlLogger
      <4>2. [at[t] EXCEPT !.rest = @ \ {n}].step = "loggers"
        BY <3>1 DEF YamlAt
      <4> QED
        BY <1>0, <4>1, <4>2, Goers
    <3> QED
      BY <3>2, <3>3
  <2>4. CASE Enter(t)
    <3>1. at'[t] = Inside(Name(t)) /\ calls[t] # <<>> /\ Op(t) \in NamedOps
      BY <1>0, <2>4, Goers DEF Enter, Name, Op, Calling, NamedOps
    <3> QED
      BY <3>1, FirstIsKnown, InsideFields
  <2>5. CASE RootEnter(t)
    <3>1. at'[t] = Inside(Root)
      BY <1>0, <2>5, Goers DEF RootEnter
    <3> QED
      BY <3>1, InsideFields, Constants
  <2>6. CASE RootCheck(t)
    <3>1. at[t].step = "root" /\ at[t] \in RootAt
      BY <1>0, <2>6, CallingShape, WhereFields DEF RootCheck, Calling
    <3> DEFINE x == [at[t] EXCEPT !.step = "rootLock"]
               y == [at[t] EXCEPT !.step = "unlock", !.refused = TRUE]
    <3>2. x.step = "rootLock" /\ y.step = "unlock"
      BY <3>1 DEF RootAt
    <3>3. at'[t] = x \/ at'[t] = y
      BY <1>0, <2>6, Goers DEF RootCheck
    <3> HIDE DEF x, y
    <3> QED
      BY <3>2, <3>3
  <2>7. CASE Deliver(t)
    BY <1>0, <2>7, Delivers
  <2> QED
    BY <2>1, <2>2, <2>3, <2>4, <2>5, <2>6, <2>7 DEF Step, Lookup, SetLevelOf, SetFormatterOf, Clear, Del,
       AddEnd, SetOwn
<1>2. calls[t] # <<>> /\ Op(t) = "addAppender"
  BY <1>1 DEF AddBegin, Calling, Op
<1> DEFINE a == IF Head(calls[t]).new = <<>> THEN Head(calls[t]).a ELSE made + 1
           b == appender'[a].formatter = NoFormat
<1>3. Goes(t, [step |-> "push", a |-> a, bare |-> b])
  BY <1>1 DEF AddBegin
<1>4. calls' = calls /\ at'[t].a = a /\ at'[t].bare = b
  <2> HIDE DEF a, b
  <2> QED
    BY <1>0, <1>3, Goers
<1> QED
  BY <1>1, <1>2, <1>4 DEF Makes

(* The listener's new appender has a formatter when it is its own.         *)
LEMMA NewOne ==
  ASSUME TypeInv, NEW t \in Actors, Makes(t)
  PROVE  /\ \A a \in AppenderIds : a # made + 1 => appender'[a] = appender[a]
         /\ made + 1 \in AppenderIds
         /\ appender'[made + 1].own \/ appender'[made + 1].formatter = NoFormat
<1>0. appender \in [AppenderIds -> AppenderType] /\ made \in AppenderIds
  BY TypedData
<1> DEFINE c == Head(calls[t])
<1>1. PICK ad \in AppenderDefs : c.new = <<ad>>
  BY CallingShape DEF Makes, AddBegin, Calling, Shape
<1>2. appender' = [appender EXCEPT ![made + 1] = Made(c.new[1])] /\ made + 1 <= MaxAppenders
  BY DEF Makes, AddBegin
<1>3. c.new[1] = ad
  BY <1>1
<1>4. Made(ad).own \/ Made(ad).formatter = NoFormat
  BY AppenderDefFields
<1> DEFINE x == Made(ad)
<1>5. appender' = [appender EXCEPT ![made + 1] = x] /\ (x.own \/ x.formatter = NoFormat)
  BY <1>2, <1>3, <1>4
<1>6. made + 1 \in AppenderIds
  BY <1>0, <1>2, Constants DEF AppenderIds
<1> HIDE DEF x, c
<1> QED
  BY <1>0, <1>5, <1>6

(* The appender that a call of addAppender() is about.                     *)
Added(t) == IF Makes(t) THEN made + 1 ELSE Head(calls[t]).a

(* Who is about to add an appender after a step.                           *)
LEMMA AddsAfter ==
  ASSUME CoreInv, NEW t \in Actors, Step(t), NEW u \in Actors, NEW a, Adds(u, a)'
  PROVE  \/ Adds(u, a) /\ (AddEnd(t) => u # t)
         \/ u = t /\ AddBegin(t) /\ a = Added(t)
<1>1. CASE u # t
  <2>1. at'[u] = at[u]
    BY <1>1, StepFrame
  <2> QED
    BY <1>1, <2>1 DEF Adds
<1>2. CASE u = t
  <2>1. at'[t].step = "push" /\ at'[t].a = a
    BY <1>2 DEF Adds
  <2> QED
    BY <1>2, <2>1, PushAfter DEF Added
<1> QED
  BY <1>1, <1>2

(* How often an appender was given to addAppender(), after a step.         *)
LEMMA AddsCount ==
  ASSUME OwnerInv, NEW t \in Actors, Step(t), NEW a \in AppenderIds
  PROVE  /\ adds' \in [AppenderIds -> Nat]
         /\ adds'[a] = IF AddBegin(t) /\ a = Added(t) THEN adds[a] + 1 ELSE adds[a]
<1>0. adds \in [AppenderIds -> Nat]
  BY DEF OwnerInv
<1>1. CASE AddBegin(t)
  <2> DEFINE b == Added(t)
  <2>1. adds' = [adds EXCEPT ![b] = @ + 1]
    BY <1>1 DEF AddBegin, Makes, Added
  <2> HIDE DEF b
  <2>2. ASSUME NEW x \in AppenderIds PROVE adds'[x] = IF x = b THEN adds[x] + 1 ELSE adds[x]
    BY <1>0, <2>1
  <2>3. DOMAIN adds' = AppenderIds /\ \A x \in AppenderIds : adds'[x] \in Nat
    BY <1>0, <2>1, <2>2
  <2>4. adds' = [x \in AppenderIds |-> adds'[x]]
    BY <1>0, <2>1
  <2>5. adds' \in [AppenderIds -> Nat]
    BY <2>3, <2>4
  <2> QED
    BY <1>1, <2>2, <2>5 DEF b
<1>2. CASE adds' = adds
  <2>1. ~AddBegin(t) \/ a # Added(t)
    <3>1. SUFFICES ASSUME AddBegin(t), a = Added(t) PROVE FALSE
      OBVIOUS
    <3> DEFINE b == Added(t)
    <3>2. adds' = [adds EXCEPT ![b] = @ + 1] /\ a = b
      BY <3>1 DEF AddBegin, Makes, Added
    <3> HIDE DEF b
    <3>3. adds'[a] = adds[a] + 1 /\ adds[a] \in Nat
      BY <1>0, <3>2
    <3> QED
      BY <1>2, <3>3
  <2> QED
    BY <1>0, <1>2, <2>1
<1> QED
  BY <1>1, <1>2 DEF Step, Lookup, YamlBegin, YamlLogger, Macro, Recheck, Enter, RootCheck, RootEnter, Deliver,
     Leave, SetLevelOf, SetFormatterOf, Clear, Del, AddEnd, SetOwn

(* Which appender that is: the listener's new one, or one of the users'.   *)
LEMMA AddedOne ==
  ASSUME CoreInv, OwnerInv, NEW t \in Actors, Step(t), AddBegin(t)
  PROVE  /\ Added(t) \in AppenderIds
         /\ IF Makes(t) THEN t = Loader /\ Added(t) = made + 1 /\ Added(t) > 1 + Spare /\ adds[Added(t)] = 0
            ELSE t \in Users /\ Added(t) \in 2..1 + Spare /\ appender' = appender
<1>0. TypeInv /\ made \in Nat /\ Spare \in Nat
  BY TypedData, Constants DEF CoreInv
<1>1. calls[t] # <<>> /\ Op(t) = "addAppender"
  BY DEF AddBegin, Calling, Op
<1>2. CASE Makes(t)
  <2>1. made + 1 \in AppenderIds /\ t = Loader
    BY <1>0, <1>1, <1>2, NewOne, WhoAdds, Constants DEF Makes
  <2>2. made + 1 > made /\ made + 1 > 1 + Spare
    BY <1>0 DEF OwnerInv
  <2> QED
    BY <1>2, <2>1, <2>2 DEF Added, OwnerInv
<1>3. CASE ~Makes(t)
  <2>1. Head(calls[t]).new = <<>>
    BY <1>3 DEF Makes
  <2>2. t \in Users /\ Head(calls[t]).a \in 2..1 + Spare
    BY <1>1, <2>1, WhoAdds
  <2>3. appender' = appender
    BY <2>1 DEF AddBegin
  <2> QED
    BY <1>3, <2>2, <2>3, Constants DEF Added
<1> QED
  BY <1>2, <1>3

(* A new formatter reaches the appenders that have none of their own.      *)
LEMMA PassedOn ==
  ASSUME TypeInv, NEW t \in Actors, SetFormatterOf(t), ~IsError(Head(calls[t]).formatter), NEW a \in AppenderIds
  PROVE  /\ Name(t) \in Loggers
         /\ IF In(Name(t), a) /\ ~appender[a].own
            THEN /\ appender'[a].own = appender[a].own
                 /\ appender'[a].formatter = Head(calls[t]).formatter
            ELSE appender'[a] = appender[a]
<1> DEFINE f == Head(calls[t]).formatter
           r == appender[a]
           x == [r EXCEPT !.formatter = f]
<1>1. r \in AppenderType
  BY TypedData
<1>2. appender'[a] = IF a \in ToSet(logger[Name(t)].appenders) /\ ~r.own THEN x ELSE r
  BY DEF SetFormatterOf, PassOn, Name
<1>3. x.own = r.own /\ x.formatter = f
  <2> HIDE DEF f, r
  <2> QED
    BY <1>1 DEF AppenderType
<1>4. Name(t) \in Loggers
  BY CallingShape DEF SetFormatterOf, Calling, Shape, NamedOps, Name
<1> HIDE DEF x
<1> QED
  BY <1>2, <1>3, <1>4 DEF In

(* What a step does to an appender.                                        *)
LEMMA AppenderAfter ==
  ASSUME CoreInv, NEW t \in Actors, Step(t), NEW a \in AppenderIds
  PROVE  \/ appender'[a] = appender[a]
         \/ /\ SetFormatterOf(t) /\ ~IsError(Head(calls[t]).formatter) /\ In(Name(t), a) /\ Name(t) \in Loggers
            /\ ~appender[a].own /\ ~appender'[a].own
            /\ appender'[a].formatter = Head(calls[t]).formatter
         \/ /\ Makes(t) /\ a = made + 1
            /\ appender'[a].own \/ appender'[a].formatter = NoFormat
         \/ /\ AddEnd(t) /\ a = at[t].a /\ appender'[a].own = appender[a].own
            /\ appender'[a].formatter = logger[Name(t)].formatter
         \/ SetOwn(t) /\ appender'[a].own
<1>0. TypeInv /\ appender \in [AppenderIds -> AppenderType]
  BY TypedData DEF CoreInv
<1> DEFINE r == appender[a]
           c == Head(calls[t])
<1>1. r \in AppenderType
  BY <1>0
<1>2. CASE SetFormatterOf(t)
  <2>1. CASE IsError(c.formatter)
    BY <1>2, <2>1 DEF SetFormatterOf
  <2>2. CASE ~IsError(c.formatter)
    BY <1>0, <1>2, <2>2, PassedOn
  <2> QED
    BY <2>1, <2>2
<1>3. CASE AddBegin(t)
  <2>1. CASE c.new = <<>>
    BY <1>3, <2>1 DEF AddBegin
  <2>2. CASE c.new # <<>>
    BY <1>0, <1>3, <2>2, NewOne DEF Makes
  <2> QED
    BY <2>1, <2>2
<1>4. CASE AddEnd(t)
  <2> DEFINE f == logger[Name(t)].formatter
             x == [appender[at[t].a] EXCEPT !.formatter = f]
  <2>1. appender' = IF at[t].bare THEN [appender EXCEPT ![at[t].a] = x] ELSE appender
    BY <1>4 DEF AddEnd, Name
  <2>2. a = at[t].a => x.own = r.own /\ x.formatter = f
    <3> HIDE DEF f
    <3> QED
      BY <1>1 DEF AppenderType
  <2> HIDE DEF x, f
  <2>3. CASE a = at[t].a /\ at[t].bare
    <3>1. appender'[a] = x
      BY <1>0, <2>1, <2>3
    <3> QED
      BY <1>4, <2>2, <2>3, <3>1 DEF f
  <2>4. CASE ~(a = at[t].a /\ at[t].bare)
    BY <1>0, <2>1, <2>4
  <2> QED
    BY <2>3, <2>4
<1>5. CASE SetOwn(t)
  <2> DEFINE f == c.formatter
             b == c.a
             x == [appender[b] EXCEPT !.formatter = f, !.own = TRUE]
  <2>1. appender' = [appender EXCEPT ![b] = x]
    BY <1>0, <1>5, CallingShape, Constants DEF SetOwn, Calling, Shape
  <2>2. a = b => x.own
    <3> HIDE DEF f
    <3> QED
      BY <1>1 DEF AppenderType
  <2> HIDE DEF x, b
  <2> QED
    BY <1>0, <1>5, <2>1, <2>2
<1>6. CASE appender' = appender
  BY <1>6
<1> QED
  BY <1>2, <1>3, <1>4, <1>5, <1>6 DEF Step, Lookup, YamlBegin, YamlLogger, Macro, Recheck, Enter, RootCheck,
     RootEnter, Deliver, Leave, SetLevelOf, Clear, Del

(* Only the listener makes appenders.                                      *)
LEMMA MadeAfter ==
  ASSUME NEW t \in Actors, Step(t)
  PROVE  made' = IF Makes(t) THEN made + 1 ELSE made
<1>1. CASE AddBegin(t)
  BY <1>1 DEF AddBegin, Makes
<1>2. CASE ~AddBegin(t)
  BY <1>2 DEF Makes, Step, Lookup, YamlBegin, YamlLogger, Macro, Recheck, Enter, RootCheck, RootEnter, Deliver,
     Leave, SetLevelOf, SetFormatterOf, Clear, Del, AddEnd, SetOwn
<1> QED
  BY <1>1, <1>2

(* What the second access of addAppender() gives the appender.             *)
LEMMA BareGets ==
  ASSUME TypeInv, NEW t \in Actors, AddEnd(t), at[t].a \in AppenderIds
  PROVE  IF at[t].bare THEN appender'[at[t].a].formatter = logger[Name(t)].formatter
         ELSE appender' = appender
<1>0. appender \in [AppenderIds -> AppenderType]
  BY TypedData
<1> DEFINE f == logger[Name(t)].formatter
           r == appender[at[t].a]
           x == [r EXCEPT !.formatter = f]
<1>1. appender' = IF at[t].bare THEN [appender EXCEPT ![at[t].a] = x] ELSE appender
  BY DEF AddEnd, Name
<1>2. x.formatter = f
  <2>1. r \in AppenderType
    BY <1>0
  <2> HIDE DEF f, r
  <2> QED
    BY <2>1 DEF AppenderType
<1> HIDE DEF x, f
<1>3. at[t].bare => appender'[at[t].a] = x
  BY <1>0, <1>1
<1> QED
  BY <1>1, <1>2, <1>3 DEF f

(* A step within a call keeps the count of what was added,                 *)
LEMMA OwnerStep ==
  ASSUME CoreInv, CoreInv', OwnerInv, PlaceInv, NEW t \in Actors, Step(t)
  PROVE  OwnerInv'
<1>0. TypeInv /\ TypeInv' /\ made \in Nat /\ made' \in Nat /\ Spare \in Nat
  BY TypedData, Constants DEF CoreInv, TypeInv, DataTyped, TypeOK
<1>1. made' = IF Makes(t) THEN made + 1 ELSE made
  BY MadeAfter
<1>2. ASSUME NEW a \in AppenderIds
      PROVE  /\ adds[a] \in Nat /\ a \in Nat
             /\ adds'[a] = IF AddBegin(t) /\ a = Added(t) THEN adds[a] + 1 ELSE adds[a]
  BY AddsCount, Constants DEF OwnerInv
<1>3. ASSUME NEW a \in AppenderIds, a \notin 2..1 + Spare PROVE adds'[a] <= 1
  <2>1. CASE AddBegin(t) /\ a = Added(t)
    <3>1. adds[a] = 0
      BY <1>3, <2>1, AddedOne
    <3> QED
      BY <1>2, <2>1, <3>1
  <2>2. CASE ~(AddBegin(t) /\ a = Added(t))
    BY <1>2, <1>3, <2>2 DEF OwnerInv
  <2> QED
    BY <2>1, <2>2
<1>4. ASSUME NEW a \in AppenderIds, a > made' PROVE adds'[a] = 0
  <2>1. a > made /\ a # made'
    BY <1>0, <1>1, <1>2, <1>4
  <2>2. ~(AddBegin(t) /\ a = Added(t))
    <3>1. SUFFICES ASSUME AddBegin(t), a = Added(t) PROVE FALSE
      OBVIOUS
    <3>2. CASE Makes(t)
      BY <1>1, <2>1, <3>1, <3>2, AddedOne
    <3>3. CASE ~Makes(t)
      <4>1. a \in 2..1 + Spare /\ 1 + Spare <= made
        BY <3>1, <3>3, AddedOne DEF OwnerInv
      <4> QED
        BY <1>0, <2>1, <4>1
    <3> QED
      BY <3>2, <3>3
  <2> QED
    BY <1>2, <2>1, <2>2 DEF OwnerInv
<1>5. ASSUME NEW u \in Actors, at'[u].step = "push"
      PROVE  /\ u = Loader => at'[u].a > 1 + Spare
             /\ at'[u].bare \/ appender'[at'[u].a].own \/ adds'[at'[u].a] > 1
  <2>1. CASE u # t
    <3> DEFINE a == at[u].a
    <3>1. at'[u] = at[u]
      BY <2>1, StepFrame
    <3>2. a \in AppenderIds /\ Adds(u, a)
      BY <1>0, <1>5, <3>1, WhereFields, AtPush DEF TypeInv, AtTyped, Adds
    <3>3. (u = Loader => a > 1 + Spare) /\ (at[u].bare \/ appender[a].own \/ adds[a] > 1)
      BY <1>5, <3>1 DEF OwnerInv
    <3>4. adds[a] > 1 => adds'[a] > 1
      <4> HIDE DEF a
      <4> QED
        BY <1>2, <3>2
    <3>5. appender[a].own /\ adds[a] <= 1 => appender'[a].own
      <4>1. SUFFICES ASSUME appender[a].own, adds[a] <= 1 PROVE appender'[a].own
        OBVIOUS
      <4>2. a <= made
        BY <3>2, <4>1 DEF PlaceInv, AddedBy
      <4>3. a # made + 1
        <5> HIDE DEF a
        <5> QED
          BY <1>0, <1>2, <3>2, <4>2
      <4> QED
        BY <3>2, <4>1, <4>3, AppenderAfter
    <3>6. adds[a] <= 1 \/ adds[a] > 1
      <4> HIDE DEF a
      <4> QED
        BY <1>2, <3>2
    <3> QED
      BY <3>1, <3>3, <3>4, <3>5, <3>6
  <2>2. CASE u = t
    <3> DEFINE a == at'[t].a
    <3>1. /\ AddBegin(t) /\ a = Added(t)
          /\ at'[t].bare <=> appender'[a].formatter = NoFormat
      BY <1>5, <2>2, PushAfter DEF Added
    <3>2. CASE Makes(t)
      BY <1>0, <2>2, <3>1, <3>2, NewOne, AddedOne
    <3>3. CASE ~Makes(t)
      <4>1. t \in Users /\ a \in AppenderIds /\ appender' = appender
        BY <3>1, <3>3, AddedOne
      <4>2. adds'[a] = adds[a] + 1 /\ adds[a] \in Nat
        BY <1>2, <3>1, <4>1
      <4>3. adds[a] = 0 => appender[a].own \/ appender[a].formatter = NoFormat
        BY <4>1 DEF PlaceInv, NotIn
      <4>4. adds[a] = 0 \/ adds'[a] > 1
        <5> HIDE DEF a
        <5> QED
          BY <4>2
      <4> QED
        BY <2>2, <3>1, <4>1, <4>3, <4>4, Constants
    <3> QED
      BY <3>2, <3>3
  <2> QED
    BY <2>1, <2>2
<1>6. adds' \in [AppenderIds -> Nat]
  <2>1. 1 \in AppenderIds
    BY Constants DEF AppenderIds
  <2> QED
    BY <2>1, AddsCount
<1>7. 1 + Spare <= made'
  BY <1>0, <1>1 DEF OwnerInv
<1> QED
  BY <1>3, <1>4, <1>5, <1>6, <1>7, Constants DEF OwnerInv

(* and leaves an appender that was added once in one place at most.        *)
LEMMA PlaceStep ==
  ASSUME CoreInv, CoreInv', OwnerInv, PlaceInv, NEW t \in Actors, Step(t)
  PROVE  PlaceInv'
<1>0. TypeInv /\ made \in Nat /\ Spare \in Nat /\ made' = IF Makes(t) THEN made + 1 ELSE made
  BY TypedData, Constants, MadeAfter DEF CoreInv
<1> SUFFICES ASSUME NEW a \in AppenderIds
             PROVE  /\ adds'[a] = 0 => NotIn(a)' /\ \A u \in Actors : ~Adds(u, a)'
                    /\ adds'[a] <= 1 => InOne(a)' /\ \A u \in Actors : Adds(u, a)' => AddedBy(u, a)'
  BY DEF PlaceInv
<1>1. /\ adds[a] \in Nat /\ a \in Nat
      /\ adds'[a] = IF AddBegin(t) /\ a = Added(t) THEN adds[a] + 1 ELSE adds[a]
  BY AddsCount, Constants DEF OwnerInv
<1>2. /\ adds[a] = 0 => NotIn(a) /\ \A u \in Actors : ~Adds(u, a)
      /\ adds[a] <= 1 => InOne(a) /\ \A u \in Actors : Adds(u, a) => AddedBy(u, a)
  BY DEF PlaceInv
<1>3. AddEnd(t) /\ a = at[t].a => Adds(t, a)
  BY DEF AddEnd, Calling, Adds
<1>4. ASSUME NEW n \in Loggers, In(n, a)'
      PROVE  In(n, a) \/ (AddEnd(t) /\ n = Name(t) /\ a = at[t].a)
  BY <1>4, InAfter
<1>5. ASSUME NEW u \in Actors, Adds(u, a)'
      PROVE  \/ Adds(u, a) /\ (AddEnd(t) => u # t)
             \/ u = t /\ AddBegin(t) /\ a = Added(t)
  BY <1>5, AddsAfter
(* An appender that nobody adds just now stays where it is.                *)
<1>6. ASSUME NotIn(a), ~(AddEnd(t) /\ a = at[t].a) PROVE NotIn(a)'
  <2>1. \A n \in Loggers : ~In(n, a)'
    BY <1>4, <1>6 DEF NotIn
  <2>2. appender'[a].own \/ appender'[a].formatter = NoFormat
    <3>1. ~(In(Name(t), a) /\ Name(t) \in Loggers)
      BY <1>6 DEF NotIn
    <3> QED
      BY <1>6, <3>1, AppenderAfter DEF NotIn
  <2> QED
    BY <2>1, <2>2 DEF NotIn
<1>7. ASSUME adds'[a] = 0 PROVE NotIn(a)' /\ \A u \in Actors : ~Adds(u, a)'
  <2>1. adds[a] = 0 /\ ~(AddBegin(t) /\ a = Added(t))
    BY <1>1, <1>7
  <2> QED
    BY <1>2, <1>3, <1>5, <1>6, <2>1
<1>8. ASSUME adds'[a] <= 1 PROVE InOne(a)'
  <2>1. adds[a] <= 1
    BY <1>1, <1>8
  <2>2. ASSUME NEW n \in Loggers, In(n, a)' PROVE In(n, a) \/ \A m \in Loggers : ~In(m, a)
    BY <1>2, <1>3, <1>4, <2>1, <2>2 DEF AddedBy, NotIn
  <2>3. ASSUME NEW n \in Loggers, NEW m \in Loggers, In(n, a)', In(m, a)' PROVE n = m
    <3>1. CASE In(n, a) /\ In(m, a)
      BY <1>2, <2>1, <3>1 DEF InOne
    <3>2. CASE ~In(n, a) /\ ~In(m, a)
      BY <1>4, <2>3, <3>2
    <3> QED
      BY <2>2, <2>3, <3>1, <3>2
  <2>4. ASSUME NEW n \in Loggers, In(n, a)' PROVE a <= made'
    <3>1. a <= made
      BY <1>2, <1>3, <1>4, <2>1, <2>4 DEF InOne, AddedBy
    <3> QED
      BY <1>0, <1>1, <3>1
  <2> QED
    BY <2>3, <2>4 DEF InOne
<1>9. ASSUME adds'[a] <= 1, NEW u \in Actors, Adds(u, a)' PROVE AddedBy(u, a)'
  <2>1. adds[a] <= 1
    BY <1>1, <1>9
  <2>2. CASE Adds(u, a) /\ (AddEnd(t) => u # t)
    <3>1. AddedBy(u, a)
      BY <1>2, <2>1, <2>2
    <3>2. ~(AddEnd(t) /\ a = at[t].a)
      BY <1>3, <2>2, <3>1 DEF AddedBy
    <3>3. ~(AddBegin(t) /\ a = Added(t))
      <4>1. adds[a] # 0
        BY <1>2, <2>2
      <4> QED
        BY <1>1, <1>9, <4>1
    <3>4. \A v \in Actors : Adds(v, a)' => u = v
      BY <1>5, <3>1, <3>3 DEF AddedBy
    <3>5. a <= made'
      BY <1>0, <1>1, <3>1 DEF AddedBy
    <3> QED
      BY <1>6, <3>1, <3>2, <3>4, <3>5 DEF AddedBy
  <2>3. CASE u = t /\ AddBegin(t) /\ a = Added(t)
    <3>1. adds[a] = 0
      BY <1>1, <1>9, <2>3
    <3>2. NotIn(a) /\ \A v \in Actors : ~Adds(v, a)
      BY <1>2, <3>1
    <3>3. \A v \in Actors : Adds(v, a)' => u = v
      BY <1>5, <2>3, <3>2
    <3>4. NotIn(a)'
      BY <1>3, <1>6, <3>2
    <3>5. a <= made'
      <4>1. CASE Makes(t)
        BY <1>0, <1>1, <2>3, <4>1 DEF Added
      <4>2. CASE ~Makes(t)
        <5>1. a \in 2..1 + Spare /\ 1 + Spare <= made
          BY <2>3, <4>2, AddedOne DEF OwnerInv
        <5> QED
          BY <1>0, <4>2, <5>1
      <4> QED
        BY <4>1, <4>2
    <3> QED
      BY <3>3, <3>4, <3>5 DEF AddedBy
  <2> QED
    BY <1>5, <1>9, <2>2, <2>3
<1> QED
  BY <1>7, <1>8, <1>9

(* So does the beginning of one.                                           *)
LEMMA OwnerBegin ==
  ASSUME OwnerInv, PlaceInv, NEW t \in Actors, Beginning(t)
  PROVE  OwnerInv' /\ PlaceInv'
<1>1. at' = at /\ appender' = appender /\ logger' = logger /\ made' = made /\ adds' = adds
  BY DEF Beginning
<1> QED
  BY <1>1 DEF OwnerInv, PlaceInv, InOne, NotIn, AddedBy, Adds, In

(* Every appender is in one place at most in every step,                   *)
LEMMA OwnerNext == CoreInv /\ OwnerInv /\ PlaceInv /\ [Next]_vars => OwnerInv' /\ PlaceInv'
<1> SUFFICES ASSUME CoreInv, OwnerInv, PlaceInv, [Next]_vars PROVE OwnerInv' /\ PlaceInv'
  OBVIOUS
<1>1. CoreInv' /\ TypeInv
  BY CoreNext DEF CoreInv
<1>2. CASE UNCHANGED vars
  BY <1>2 DEF vars, OwnerInv, PlaceInv, InOne, NotIn, AddedBy, Adds, In
<1>3. CASE Next
  <2>1. ASSUME NEW t \in Actors, Beginning(t) PROVE OwnerInv' /\ PlaceInv'
    BY <2>1, OwnerBegin
  <2> QED
    BY <1>1, <1>2, <1>3, <2>1, Beginnings, OwnerStep, PlaceStep, Constants
<1> QED
  BY <1>2, <1>3

(* and in the beginning.                                                   *)
LEMMA OwnerInit == Init => OwnerInv /\ PlaceInv
<1> SUFFICES ASSUME Init PROVE OwnerInv /\ PlaceInv
  OBVIOUS
<1>1. \A t \in Actors : at[t].step # "push" /\ calls[t] = <<>>
  BY DEF Init, AtStart
<1>2. made = 1 + Spare /\ Spare \in Nat
  BY Constants DEF Init
<1>3. OwnerInv
  <2>1. adds = [a \in AppenderIds |-> IF a = 1 THEN 1 ELSE 0]
    BY DEF Init
  <2>2. \A a \in AppenderIds : a \in Nat /\ adds[a] = IF a = 1 THEN 1 ELSE 0
    BY <2>1, Constants
  <2>3. \A a \in AppenderIds : a > made => adds[a] = 0
    BY <1>2, <2>2
  <2> QED
    BY <1>1, <1>2, <2>1, <2>2, <2>3, Constants DEF OwnerInv
<1>4. \A t \in Actors : \A a : ~Adds(t, a)
  BY <1>1 DEF Adds
<1>5. \A n \in Loggers : \A a : In(n, a) => n = Root /\ a = 1
  <2> DEFINE l == [NewLogger EXCEPT !.appenders = <<1>>]
  <2>1. l.appenders = <<1>> /\ NewLogger.appenders = <<>>
    BY DEF NewLogger
  <2>2. logger = [n \in Loggers |-> IF n = Root THEN l ELSE NewLogger]
    BY DEF Init
  <2> HIDE DEF l
  <2>3. logger[Root].appenders = <<1>> /\ \A n \in Loggers : n # Root => logger[n].appenders = <<>>
    BY <2>1, <2>2, Constants
  <2> QED
    BY <2>3 DEF In, ToSet
<1>6. ASSUME NEW a \in AppenderIds, adds[a] = 0 PROVE NotIn(a)
  <2> DEFINE x == [NewAppender EXCEPT !.formatter = DefaultFormat]
  <2>1. appender = [b \in AppenderIds |-> IF b = 1 THEN x ELSE NewAppender]
    BY DEF Init
  <2>2. adds = [b \in AppenderIds |-> IF b = 1 THEN 1 ELSE 0]
    BY DEF Init
  <2>3. a # 1
    BY <1>6, <2>2
  <2> HIDE DEF x
  <2>4. appender[a] = NewAppender
    BY <2>1, <2>3
  <2> QED
    BY <1>5, <2>3, <2>4 DEF NotIn, NewAppender
<1>7. PlaceInv
  BY <1>2, <1>4, <1>5, <1>6 DEF PlaceInv, InOne
<1> QED
  BY <1>3, <1>7

-----------------------------------------------------------------------------
(* An appender without a formatter of its own has its logger's.            *)

(* Only setFormatter() changes the formatter of a logger with appenders.   *)
LEMMA FormatterAfter ==
  ASSUME TypeInv, NEW t \in Actors, Step(t), ~SetFormatterOf(t), NEW n \in Loggers, NEW a, In(n, a)'
  PROVE  logger'[n].formatter = logger[n].formatter
<1>0. logger \in [Loggers -> LoggerType]
  BY TypedData
<1>1. CASE Lookup(t)
  <2> DEFINE l == [NewLogger EXCEPT !.root = TRUE]
  <2>1. l.appenders = <<>>
    BY NewLoggerType
  <2>2. logger' = logger \/ logger' = [logger EXCEPT ![Name(t)] = l]
    BY <1>1 DEF Lookup, Name
  <2> HIDE DEF l
  <2>3. logger'[n] = logger[n] \/ logger'[n] = l
    BY <1>0, <2>2
  <2> QED
    BY <2>1, <2>3 DEF In, ToSet
<1>2. CASE SetLevelOf(t) \/ Clear(t) \/ Del(t) \/ AddEnd(t)
  BY <1>2, LoggerCallChanges
<1>3. CASE logger' = logger
  BY <1>3
<1> QED
  BY <1>1, <1>2, <1>3 DEF Step, YamlBegin, YamlLogger, Macro, Recheck, Enter, RootCheck, RootEnter, Deliver,
     Leave, AddBegin, SetOwn

(* A step within a call keeps the formatters of loggers and appenders equal. *)
LEMMA InheritsStep ==
  ASSUME CoreInv, CoreInv', OwnerInv, PlaceInv, Inherits, NEW t \in Actors, Step(t)
  PROVE  Inherits'
<1>0. TypeInv /\ TypeInv' /\ made \in Nat
  BY TypedData, Constants DEF CoreInv, TypeInv, DataTyped, TypeOK
<1> SUFFICES ASSUME NEW n \in Loggers, NEW a, In(n, a)', adds'[a] <= 1, ~appender'[a].own
             PROVE  appender'[a].formatter = logger'[n].formatter
  BY DEF Inherits, In
<1>1. a \in AppenderIds
  <2>1. logger'[n].appenders \in Seq(AppenderIds)
    BY <1>0 DEF TypeInv, DataTyped, TypeOK
  <2> QED
    BY <2>1, LenProperties DEF In, ToSet
<1>2. In(n, a) \/ (AddEnd(t) /\ n = Name(t) /\ a = at[t].a)
  BY InAfter
<1>3. adds[a] <= 1 /\ adds[a] \in Nat
  BY <1>1, AddsCount DEF OwnerInv
<1>4. CASE AddEnd(t) /\ a = at[t].a
  <2>1. at[t].step = "push" /\ ~SetFormatterOf(t)
    BY <1>4 DEF AddEnd, SetFormatterOf, Calling
  <2>2. Adds(t, a)
    BY <1>4, <2>1 DEF Adds
  <2>3. ~In(n, a)
    BY <1>1, <1>3, <2>2 DEF PlaceInv, AddedBy, NotIn
  <2>4. logger'[n].formatter = logger[n].formatter
    BY <1>0, <2>1, FormatterAfter
  <2>5. at[t].bare
    <3>1. ~(adds[at[t].a] > 1)
      BY <1>4, <1>3
    <3> QED
      BY <1>0, <1>1, <1>4, <2>1, <3>1, BareGets DEF OwnerInv
  <2> QED
    BY <1>0, <1>1, <1>2, <1>4, <2>3, <2>4, <2>5, BareGets
<1>5. CASE ~(AddEnd(t) /\ a = at[t].a)
  <2>1. In(n, a)
    BY <1>2, <1>5
  <2>2. a <= made /\ a # made + 1 /\ \A m \in Loggers : In(m, a) => m = n
    BY <1>0, <1>1, <1>3, <2>1, Constants DEF PlaceInv, InOne
  <2>3. ~appender[a].own => appender[a].formatter = logger[n].formatter
    BY <1>3, <2>1 DEF Inherits, In
  <2>4. CASE SetFormatterOf(t) /\ ~IsError(Head(calls[t]).formatter)
    <3>1. logger'[n].formatter = IF n = Name(t) THEN Head(calls[t]).formatter ELSE logger[n].formatter
      BY <1>0, <2>4, LoggerCallChanges
    <3>2. /\ Name(t) \in Loggers
          /\ IF In(Name(t), a) /\ ~appender[a].own
             THEN appender'[a].own = appender[a].own /\ appender'[a].formatter = Head(calls[t]).formatter
             ELSE appender'[a] = appender[a]
      BY <1>0, <1>1, <2>4, PassedOn
    <3>3. ~appender[a].own
      BY <3>2
    <3> QED
      BY <2>1, <2>2, <2>3, <3>1, <3>2, <3>3
  <2>5. CASE SetFormatterOf(t) /\ IsError(Head(calls[t]).formatter)
    <3>1. logger' = logger /\ appender' = appender
      BY <2>5 DEF SetFormatterOf
    <3> QED
      BY <2>3, <3>1
  <2>6. CASE ~SetFormatterOf(t)
    <3>1. logger'[n].formatter = logger[n].formatter
      BY <1>0, <2>6, FormatterAfter
    <3>2. appender'[a] = appender[a]
      BY <1>1, <1>5, <2>2, <2>6, AppenderAfter
    <3> QED
      BY <2>3, <3>1, <3>2
  <2> QED
    BY <2>4, <2>5, <2>6
<1> QED
  BY <1>4, <1>5

(* They are equal after every step,                                        *)
LEMMA InheritsNext == CoreInv /\ OwnerInv /\ PlaceInv /\ Inherits /\ [Next]_vars => Inherits'
<1> SUFFICES ASSUME CoreInv, OwnerInv, PlaceInv, Inherits, [Next]_vars PROVE Inherits'
  OBVIOUS
<1>1. CoreInv' /\ TypeInv
  BY CoreNext DEF CoreInv
<1>2. CASE UNCHANGED vars
  BY <1>2 DEF vars, Inherits
<1>3. ASSUME NEW t \in Actors, Beginning(t) PROVE Inherits'
  BY <1>3 DEF Beginning, Inherits
<1> QED
  BY <1>1, <1>2, <1>3, Beginnings, InheritsStep, Constants

(* and in the beginning.                                                   *)
LEMMA InheritsInit == Init => Inherits
<1> SUFFICES ASSUME Init PROVE Inherits
  OBVIOUS
<1> DEFINE l == [NewLogger EXCEPT !.appenders = <<1>>]
           x == [NewAppender EXCEPT !.formatter = DefaultFormat]
<1>1. /\ l.appenders = <<1>> /\ l.formatter = DefaultFormat /\ NewLogger.appenders = <<>>
      /\ x.formatter = DefaultFormat
  BY DEF NewLogger, NewAppender
<1>2. /\ logger = [n \in Loggers |-> IF n = Root THEN l ELSE NewLogger]
      /\ appender = [a \in AppenderIds |-> IF a = 1 THEN x ELSE NewAppender]
  BY DEF Init
<1> HIDE DEF l, x
<1>3. /\ logger[Root].appenders = <<1>> /\ logger[Root].formatter = DefaultFormat
      /\ \A n \in Loggers : n # Root => logger[n].appenders = <<>>
      /\ appender[1].formatter = DefaultFormat
  BY <1>1, <1>2, Constants
<1> QED
  BY <1>3 DEF Inherits, ToSet

(* LogAppender has the logger's formatter as long as m_hasFormatter is     *)
(* FALSE: for all loggers, whoever calls setFormatter() and addAppender()  *)
(* and in whatever order.                                                  *)
THEOREM FormattersPassedOn == Spec => []Inherits
<1>1. Init => CoreInv /\ OwnerInv /\ PlaceInv /\ Inherits
  BY CoreInit, OwnerInit, InheritsInit
<1>2. CoreInv /\ OwnerInv /\ PlaceInv /\ Inherits /\ [Next]_vars
      => CoreInv' /\ OwnerInv' /\ PlaceInv' /\ Inherits'
  BY CoreNext, OwnerNext, InheritsNext
<1> QED
  BY <1>1, <1>2, PTL DEF Spec

-----------------------------------------------------------------------------
(* Between loads, the loggers are as the definitions say.                  *)

(* The calls that change a logger, and what a list of calls has of them.   *)
Changes == {"setLevel", "setFormatter", "clearAppenders", "addAppender"}
On(c, op, n) == c.op = op /\ c.name = n
Has(cs, op, n) == \E k \in DOMAIN cs : On(cs[k], op, n)

(* A logger that the manager does not know is as a new one.                *)
FreshInv ==
  \A n \in Loggers \ known :
    /\ logger[n].level = NewLogger.level /\ logger[n].formatter = NewLogger.formatter
    /\ logger[n].appenders = NewLogger.appenders

(* The users' appenders are in loggers that the configuration leaves alone.*)
SpareInv == \A n \in Named, a \in 2..1 + Spare : ~In(n, a)

(* An appender that was made for a definition and is still as it says; its *)
(* formatter, when it has none of its own, is its logger's (Inherits).     *)
MadeFor(x, ad) ==
  /\ x.type = ad.type
  /\ x.own <=> ad.formatter # NoFormat /\ ~IsError(ad.formatter)
  /\ x.own => x.formatter = ad.formatter
PushDue ==
  at[Loader].step = "push" =>
    /\ MadeFor(appender[at[Loader].a], Head(calls[Loader]).new[1])
    /\ at[Loader].bare => ~appender[at[Loader].a].own

(* The level and the formatter are the defined ones, or will be.           *)
LevelDue(d) ==
  /\ Has(calls[Loader], "setLevel", d.name) \/ logger[d.name].level = d.level
  /\ \A k \in DOMAIN calls[Loader] :
       On(calls[Loader][k], "setLevel", d.name) => calls[Loader][k].level = d.level
FormatterDue(d) ==
  /\ d.formatter # NoFormat /\ ~IsError(d.formatter) =>
       Has(calls[Loader], "setFormatter", d.name) \/ logger[d.name].formatter = d.formatter
  /\ \A k \in DOMAIN calls[Loader] :
       On(calls[Loader][k], "setFormatter", d.name) => calls[Loader][k].formatter = d.formatter

(* The last m of the appenders are still to be added, after e other calls, *)
(* all of them if the list is still to be cleared; the others are there.   *)
Due(cs, n, ads, e, m) ==
  /\ e \in Nat /\ m \in 0..Len(ads) /\ e + m <= Len(cs)
  /\ \A k \in DOMAIN cs : On(cs[k], "addAppender", n) => e < k /\ k <= e + m
  /\ \A i \in 1..m : cs[e + i] = AddNew(n, ads[Len(ads) - m + i])
  /\ \A k \in DOMAIN cs : On(cs[k], "clearAppenders", n) => k <= e /\ m = Len(ads)
Shows(n, ads, k) ==
  /\ Len(logger[n].appenders) = k
  /\ \A i \in 1..k : MadeFor(appender[logger[n].appenders[i]], ads[i])
AppendersDue(n, ads) ==
  \E e \in 0..Len(calls[Loader]), m \in 0..Len(ads) :
    /\ Due(calls[Loader], n, ads, e, m)
    /\ Has(calls[Loader], "clearAppenders", n) \/ Shows(n, ads, Len(ads) - m)

DuesInv ==
  /\ \A d \in defines : LevelDue(d) /\ FormatterDue(d) /\ AppendersDue(d.name, d.appenders)
  /\ \A n \in Managed \ NamesOf(defines) : AppendersDue(n, <<>>)
ListenerInv == FreshInv /\ SpareInv /\ PushDue /\ DuesInv

(* What the configuration may define, the users leave alone.               *)
LEMMA NamedApart ==
  /\ Named \subseteq Loggers /\ Named \cap Manual = {} /\ Managed \subseteq Named /\ Root \notin Managed
  /\ NameOrder \in Seq(Named) /\ \A n \in Named : \E j \in DOMAIN NameOrder : NameOrder[j] = n
  /\ \A j, k \in DOMAIN NameOrder : NameOrder[j] = NameOrder[k] => j = k
<1>1. ToSet(NameOrder) = Named
  BY LogAssumption DEF Named
<1> QED
  BY <1>1, LogAssumption DEF Named, Loggers, ToSet

(* What the listener's calls are,                                          *)
LEMMA ListenerShape ==
  ASSUME NEW c \in ListenerCalls
  PROVE  /\ c.op \in Changes \cup {"getLogger", "log"}
         /\ c.op \in Changes => c.name \in Named
         /\ c.op = "addAppender" => \E ad \in AppenderDefs : c = AddNew(c.name, ad) /\ c.new = <<ad>>
<1>1. ASSUME NEW n \in Named, NEW ad \in AppenderDefs, c = AddNew(n, ad)
      PROVE  c.op = "addAppender" /\ c.name = n /\ c.new = <<ad>>
  BY <1>1 DEF AddNew
<1>2. CASE \E n \in Named, ad \in AppenderDefs : c = AddNew(n, ad)
  BY <1>1, <1>2 DEF Changes
<1>3. CASE ~ \E n \in Named, ad \in AppenderDefs : c = AddNew(n, ad)
  BY <1>3 DEF ListenerCalls, GetLogger, LogTo, SetLevel, SetFormatter, ClearAppenders, Changes
<1> QED
  BY <1>2, <1>3

(* and what the users' do to loggers.                                      *)
LEMMA UserShape ==
  ASSUME TypeInv, NEW t \in Users, calls[t] # <<>>
  PROVE  /\ Op(t) # "setLevel"
         /\ Op(t) \in Changes \cup {"delAppender"} => Name(t) \in Manual
<1>1. calls[t] \in UserLists /\ t \in Actors
  BY Constants DEF TypeInv, CallsTyped
<1>2. Head(calls[t]) = calls[t][1] /\ 1 \in DOMAIN calls[t]
  BY <1>1, TailElements DEF TypeInv, CallsTyped
<1>3. ASSUME NEW c \in LastCalls \cup OwnCalls
      PROVE  c.op # "setLevel" /\ (c.op \in Changes \cup {"delAppender"} => c.name \in Manual)
  BY <1>3 DEF LastCalls, OwnCalls, LogTo, SetFormatter, ClearAppenders, AddAppender, DelAppender,
     SetOwnFormatter, ToYaml, Changes
<1>4. CASE \E c \in LastCalls \cup OwnCalls : calls[t] = <<c>>
  BY <1>2, <1>3, <1>4 DEF Op, Name
<1>5. CASE \E c \in LastCalls : calls[t] = <<GetLogger(c.name), c>>
  <2>1. PICK c \in LastCalls : calls[t] = <<GetLogger(c.name), c>>
    BY <1>5
  <2> DEFINE g == GetLogger(c.name)
  <2>2. g.op = "getLogger"
    BY DEF GetLogger
  <2>3. calls[t][1] = g
    BY <2>1
  <2> QED
    BY <1>2, <2>2, <2>3 DEF Op, Changes
<1> QED
  BY <1>1, <1>4, <1>5 DEF UserLists

(* What a thread does by the operation of its call.                        *)
LEMMA StepOf ==
  ASSUME CoreInv, NEW t \in Actors, Step(t)
  PROVE  /\ calls[t] # <<>>
         /\ Op(t) = "setLevel" <=> SetLevelOf(t)
         /\ Op(t) = "setFormatter" <=> SetFormatterOf(t)
         /\ Op(t) = "clearAppenders" <=> Clear(t)
         /\ Op(t) = "addAppender" <=> AddBegin(t) \/ AddEnd(t)
         /\ Op(t) = "delAppender" <=> Del(t)
         /\ SetLevelOf(t) \/ SetFormatterOf(t) \/ Clear(t) \/ AddEnd(t) => Returns(t)
         /\ AddBegin(t) => calls' = calls /\ logger' = logger /\ ~AddEnd(t) /\ ~Returns(t)
<1>1. Coherent(t)
  BY DEF CoreInv
<1>2. Leave(t) => calls[t] # <<>> /\ Op(t) = "log"
  BY <1>1 DEF Leave, Coherent, LogSteps
<1>3. ASSUME Lookup(t) \/ YamlBegin(t) \/ YamlLogger(t)
      PROVE  calls[t] # <<>> /\ Op(t) \in {"getLogger", "toYamlString"}
  BY <1>3 DEF Lookup, YamlBegin, YamlLogger, Calling, Op
<1>4. ASSUME Macro(t) \/ Recheck(t) \/ Enter(t) \/ RootCheck(t) \/ RootEnter(t) \/ Deliver(t)
      PROVE  calls[t] # <<>> /\ Op(t) = "log"
  BY <1>4 DEF Macro, Recheck, Enter, RootCheck, RootEnter, Deliver, Calling, Op
<1>5. /\ SetLevelOf(t) => calls[t] # <<>> /\ Op(t) = "setLevel" /\ Returns(t)
      /\ SetFormatterOf(t) => calls[t] # <<>> /\ Op(t) = "setFormatter" /\ Returns(t)
      /\ Clear(t) => calls[t] # <<>> /\ Op(t) = "clearAppenders" /\ Returns(t)
      /\ Del(t) => calls[t] # <<>> /\ Op(t) = "delAppender"
      /\ SetOwn(t) => calls[t] # <<>> /\ Op(t) = "appender"
  BY DEF SetLevelOf, SetFormatterOf, Clear, Del, SetOwn, Calling, Op
<1>6. /\ AddBegin(t) => /\ calls[t] # <<>> /\ Op(t) = "addAppender"
                        /\ calls' = calls /\ logger' = logger /\ at[t].step = "start"
      /\ AddEnd(t) => calls[t] # <<>> /\ Op(t) = "addAppender" /\ Returns(t) /\ at[t].step = "push"
  BY DEF AddBegin, AddEnd, Calling, Op, Goes
<1>7. ASSUME AddBegin(t), Returns(t) PROVE FALSE
  <2>1. PICK a, b : Goes(t, [step |-> "push", a |-> a, bare |-> b])
    BY <1>7 DEF AddBegin
  <2>2. at'[t].step = "push" /\ at'[t].step = "start"
    BY <1>7, <2>1, Goers DEF CoreInv
  <2> QED
    BY <2>2
<1> QED
  BY <1>2, <1>3, <1>4, <1>5, <1>6, <1>7 DEF Step

(* Asking for a logger changes none: what is made is as it was.            *)
LEMMA LookupQuiet ==
  ASSUME CoreInv, FreshInv, NEW t \in Actors, Lookup(t), NEW n \in Loggers
  PROVE  /\ logger'[n].level = logger[n].level /\ logger'[n].formatter = logger[n].formatter
         /\ logger'[n].appenders = logger[n].appenders
<1>0. logger \in [Loggers -> LoggerType]
  BY TypedData DEF CoreInv
<1> DEFINE l == [NewLogger EXCEPT !.root = TRUE]
<1>1. l.level = NewLogger.level /\ l.formatter = NewLogger.formatter /\ l.appenders = NewLogger.appenders
  BY DEF NewLogger
<1>2. logger' = IF Name(t) \in known THEN logger ELSE [logger EXCEPT ![Name(t)] = l]
  BY DEF Lookup, Name
<1> HIDE DEF l
<1>3. logger'[n] = logger[n] \/ (n \notin known /\ logger'[n] = l)
  BY <1>0, <1>2
<1> QED
  BY <1>1, <1>3 DEF FreshInv

(* The level that a logger gets.                                           *)
LEMMA LevelAfter ==
  ASSUME CoreInv, FreshInv, NEW t \in Actors, Step(t), NEW n \in Loggers
  PROVE  logger'[n].level = IF SetLevelOf(t) /\ n = Name(t) THEN Head(calls[t]).level ELSE logger[n].level
<1>0. TypeInv /\ logger \in [Loggers -> LoggerType]
  BY TypedData DEF CoreInv
<1>1. CASE SetLevelOf(t)
  <2> DEFINE v == Head(calls[t]).level
             l == [logger[Name(t)] EXCEPT !.level = v]
  <2>1. Name(t) \in Loggers
    BY <1>0, <1>1, CallingShape DEF SetLevelOf, Calling, Shape, NamedOps, Name
  <2>2. logger[Name(t)] \in LoggerType /\ logger' = [logger EXCEPT ![Name(t)] = l]
    BY <1>0, <1>1, <2>1 DEF SetLevelOf, Name
  <2>3. l.level = v
    <3> HIDE DEF v
    <3> QED
      BY <2>2 DEF LoggerType
  <2> HIDE DEF l
  <2>4. logger'[n] = IF n = Name(t) THEN l ELSE logger[n]
    BY <1>0, <2>1, <2>2
  <2> QED
    BY <1>1, <2>3, <2>4
<1>2. ASSUME NEW x, NEW y, logger' = [logger EXCEPT ![x] = y], x \in Loggers,
             y.level = logger[x].level
      PROVE  logger'[n].level = logger[n].level
  BY <1>0, <1>2
<1>3. CASE SetFormatterOf(t) \/ Clear(t) \/ Del(t) \/ AddEnd(t)
  <2>1. Name(t) \in Loggers /\ ~SetLevelOf(t)
    BY <1>0, <1>3, StepOf, CallingShape DEF Shape, NamedOps, Name, Op
  <2> DEFINE r == logger[Name(t)]
             f == Head(calls[t]).formatter
  <2>2. r \in LoggerType
    BY <1>0, <2>1
  <2>3. \/ logger' = logger \/ logger' = [logger EXCEPT ![Name(t)] = [r EXCEPT !.formatter = f]]
        \/ \E as : logger' = [logger EXCEPT ![Name(t)] = [r EXCEPT !.appenders = as]]
    BY <1>3 DEF SetFormatterOf, PassOn, Clear, Del, AddEnd, SetAppenders, Name
  <2> HIDE DEF f
  <2>4. [r EXCEPT !.formatter = f].level = r.level /\ \A as : [r EXCEPT !.appenders = as].level = r.level
    BY <2>2 DEF LoggerType
  <2>5. CASE logger' = logger
    BY <2>1, <2>5
  <2>6. CASE logger' = [logger EXCEPT ![Name(t)] = [r EXCEPT !.formatter = f]]
    BY <1>2, <2>1, <2>4, <2>6
  <2>7. CASE \E as : logger' = [logger EXCEPT ![Name(t)] = [r EXCEPT !.appenders = as]]
    BY <1>2, <2>1, <2>4, <2>7
  <2> QED
    BY <2>3, <2>5, <2>6, <2>7
<1>4. CASE Lookup(t)
  <2>1. ~SetLevelOf(t)
    BY <1>4 DEF Lookup, SetLevelOf, Calling
  <2> QED
    BY <1>4, <2>1, LookupQuiet
<1>5. CASE ~SetLevelOf(t) /\ logger' = logger
  BY <1>5
<1> QED
  BY <1>1, <1>3, <1>4, <1>5 DEF Step, YamlBegin, YamlLogger, Macro, Recheck, Enter, RootCheck,
     RootEnter, Deliver, Leave, AddBegin, SetOwn

(* A step changes a logger that the configuration may define only if it is *)
(* the listener's, in a call on that logger.                               *)
LEMMA NamedAfter ==
  ASSUME CoreInv, FreshInv, NEW t \in Actors, Step(t), NEW n \in Named
  PROVE  /\ logger'[n].level # logger[n].level => t = Loader /\ SetLevelOf(t) /\ n = Name(t)
         /\ logger'[n].formatter # logger[n].formatter => t = Loader /\ SetFormatterOf(t) /\ n = Name(t)
         /\ logger'[n].appenders # logger[n].appenders =>
              t = Loader /\ (Clear(t) \/ AddEnd(t)) /\ n = Name(t)
<1>0. TypeInv /\ n \in Loggers
  BY NamedApart DEF CoreInv
<1>1. t # Loader => t \in Users
  BY DEF Actors
<1>2. ASSUME SetLevelOf(t) \/ SetFormatterOf(t) \/ Clear(t) \/ AddEnd(t) \/ Del(t), n = Name(t)
      PROVE  t = Loader /\ ~Del(t)
  <2>1. calls[t] # <<>> /\ Op(t) \in Changes \cup {"delAppender"}
    BY <1>2, StepOf DEF Changes
  <2>2. t = Loader
    BY <1>0, <1>1, <1>2, <2>1, UserShape, NamedApart
  <2>3. Op(t) # "delAppender"
    BY <1>0, <2>1, <2>2, TailElements, ListenerShape DEF TypeInv, CallsTyped, Op, Changes
  <2> QED
    BY <2>2, <2>3, StepOf
<1>3. logger'[n].level # logger[n].level => t = Loader /\ SetLevelOf(t) /\ n = Name(t)
  BY <1>0, <1>2, LevelAfter
<1>4. CASE Lookup(t)
  BY <1>0, <1>3, <1>4, LookupQuiet
<1>5. CASE SetLevelOf(t) \/ SetFormatterOf(t) \/ Clear(t) \/ AddEnd(t) \/ Del(t)
  BY <1>0, <1>2, <1>3, <1>5, LoggerCallChanges
<1>6. CASE logger' = logger
  BY <1>6
<1> QED
  BY <1>4, <1>5, <1>6 DEF Step, YamlBegin, YamlLogger, Macro, Recheck, Enter, RootCheck,
     RootEnter, Deliver, Leave, AddBegin, SetOwn

(* FreshInv and SpareInv are kept: a logger is asked for before it is      *)
(* changed, and an appender of a user goes to a logger of the users.       *)
LEMMA FreshStep ==
  ASSUME CoreInv, FreshInv, NEW t \in Actors, Step(t)
  PROVE  FreshInv'
<1>0. TypeInv /\ known \subseteq known'
  BY StepKnown DEF CoreInv
<1> SUFFICES ASSUME NEW n \in Loggers, n \notin known
             PROVE  /\ logger'[n].level = logger[n].level /\ logger'[n].formatter = logger[n].formatter
                    /\ logger'[n].appenders = logger[n].appenders
  BY <1>0 DEF FreshInv
<1>1. CASE Lookup(t)
  BY <1>1, LookupQuiet
<1>2. CASE SetLevelOf(t) \/ SetFormatterOf(t) \/ Clear(t) \/ AddEnd(t) \/ Del(t)
  <2>1. calls[t] # <<>> /\ Op(t) \in NamedOps
    BY <1>2, StepOf DEF NamedOps
  <2>2. n # Name(t)
    BY <2>1, FirstIsKnown
  <2> QED
    BY <1>0, <1>2, <2>2, LevelAfter, LoggerCallChanges
<1>3. CASE logger' = logger
  BY <1>3
<1> QED
  BY <1>1, <1>2, <1>3 DEF Step, YamlBegin, YamlLogger, Macro, Recheck, Enter, RootCheck,
     RootEnter, Deliver, Leave, AddBegin, SetOwn

(* What the listener adds is not one of the users' appenders.              *)
LEMMA SpareStep ==
  ASSUME CoreInv, FreshInv, OwnerInv, SpareInv, NEW t \in Actors, Step(t)
  PROVE  SpareInv'
<1> SUFFICES ASSUME NEW n \in Named, NEW a \in 2..1 + Spare, In(n, a)' PROVE FALSE
  BY DEF SpareInv
<1>1. n \in Loggers /\ ~In(n, a)
  BY NamedApart DEF SpareInv
<1>2. AddEnd(t) /\ n = Name(t) /\ a = at[t].a
  BY <1>1, InAfter
<1>3. t = Loader
  <2>1. calls[t] # <<>> /\ Op(t) \in Changes
    BY <1>2, StepOf DEF Changes
  <2> QED
    BY <1>2, <2>1, UserShape, NamedApart DEF Actors, CoreInv
<1>4. at[Loader].a > 1 + Spare
  BY <1>2, <1>3 DEF AddEnd, Calling, OwnerInv
<1> QED
  BY <1>2, <1>3, <1>4, Constants

(* What a step does to an appender, but for its formatter.                 *)
LEMMA KindAfter ==
  ASSUME TypeInv, NEW t \in Actors, Step(t), ~SetOwn(t), ~Makes(t), NEW a \in AppenderIds
  PROVE  /\ appender'[a].type = appender[a].type /\ appender'[a].own = appender[a].own
         /\ AddEnd(t) /\ ~at[t].bare => appender'[a] = appender[a]
<1>0. appender \in [AppenderIds -> AppenderType]
  BY TypedData
<1>1. ASSUME NEW f, NEW x, x = [appender[a] EXCEPT !.formatter = f]
      PROVE  x.type = appender[a].type /\ x.own = appender[a].own
  BY <1>0, <1>1 DEF AppenderType
<1>2. CASE SetFormatterOf(t)
  <2> DEFINE f == Head(calls[t]).formatter
             x == [appender[a] EXCEPT !.formatter = f]
  <2>1. appender' = appender \/ appender'[a] = x \/ appender'[a] = appender[a]
    BY <1>2 DEF SetFormatterOf, PassOn
  <2>2. x.type = appender[a].type /\ x.own = appender[a].own
    BY <1>1
  <2>3. ~AddEnd(t)
    BY <1>2 DEF SetFormatterOf, AddEnd, Calling
  <2> HIDE DEF x
  <2> QED
    BY <2>1, <2>2, <2>3
<1>3. CASE AddEnd(t)
  <2> DEFINE f == logger[Name(t)].formatter
             x == [appender[at[t].a] EXCEPT !.formatter = f]
  <2>1. appender' = IF at[t].bare THEN [appender EXCEPT ![at[t].a] = x] ELSE appender
    BY <1>3 DEF AddEnd, Name
  <2>2. a = at[t].a => x.type = appender[a].type /\ x.own = appender[a].own
    BY <1>1
  <2> HIDE DEF x
  <2> QED
    BY <1>0, <2>1, <2>2
<1>4. CASE AddBegin(t)
  <2>1. Head(calls[t]).new = <<>>
    BY <1>4 DEF Makes
  <2> QED
    BY <1>4, <2>1 DEF AddBegin
<1>5. CASE appender' = appender
  BY <1>5
<1> QED
  BY <1>2, <1>3, <1>4, <1>5 DEF Step, Lookup, YamlBegin, YamlLogger, Macro, Recheck, Enter, RootCheck,
     RootEnter, Deliver, Leave, SetLevelOf, Clear, Del

(* A user's own formatter goes to an appender of the users.                *)
LEMMA OwnAfter ==
  ASSUME TypeInv, NEW t \in Actors, SetOwn(t), NEW a \in AppenderIds, a \notin 2..1 + Spare
  PROVE  appender'[a] = appender[a]
<1>0. appender \in [AppenderIds -> AppenderType]
  BY TypedData
<1> DEFINE b == Head(calls[t]).a
           x == [appender[b] EXCEPT !.formatter = Head(calls[t]).formatter, !.own = TRUE]
<1>1. b \in 2..1 + Spare
  BY CallingShape DEF SetOwn, Calling, Shape
<1>2. appender' = [appender EXCEPT ![b] = x]
  BY <1>0, <1>1, Constants DEF SetOwn
<1> HIDE DEF b, x
<1> QED
  BY <1>0, <1>1, <1>2

(* An appender stays as it was made for its definition.                    *)
LEMMA MadeForAfter ==
  ASSUME CoreInv, OwnerInv, PlaceInv, SpareInv, NEW t \in Actors, Step(t), NEW n \in Named, NEW a, In(n, a),
         NEW ad, MadeFor(appender[a], ad)
  PROVE  MadeFor(appender'[a], ad)
<1>0. TypeInv /\ n \in Loggers /\ made \in Nat
  BY NamedApart, TypedData, Constants DEF CoreInv
<1>1. a \in AppenderIds
  BY <1>0, LoggerFields, LenProperties DEF In, ToSet
<1>2. a <= made /\ a # made + 1 /\ a \notin 2..1 + Spare /\ adds[a] <= 1
  <2>1. a \notin 2..1 + Spare /\ adds[a] <= 1
    BY <1>0, <1>1 DEF OwnerInv, SpareInv
  <2> QED
    BY <1>0, <1>1, <2>1, Constants DEF PlaceInv, InOne
<1>3. ~(AddEnd(t) /\ a = at[t].a)
  <2>1. SUFFICES ASSUME AddEnd(t), a = at[t].a PROVE FALSE
    OBVIOUS
  <2>2. Adds(t, a)
    BY <2>1 DEF AddEnd, Calling, Adds
  <2> QED
    BY <1>0, <1>1, <1>2, <2>2 DEF PlaceInv, AddedBy, NotIn
<1>4. CASE SetOwn(t)
  BY <1>0, <1>1, <1>2, <1>4, OwnAfter
<1>5. CASE Makes(t)
  BY <1>0, <1>1, <1>2, <1>5, NewOne
<1>6. CASE ~SetOwn(t) /\ ~Makes(t)
  <2>1. appender'[a].type = appender[a].type /\ appender'[a].own = appender[a].own
    BY <1>0, <1>1, <1>6, KindAfter
  <2>2. appender'[a] = appender[a] \/ ~appender[a].own
    BY <1>1, <1>3, <1>6, AppenderAfter
  <2> QED
    BY <2>1, <2>2 DEF MadeFor
<1> QED
  BY <1>4, <1>5, <1>6

(* What the listener has just made is as its definition says,              *)
LEMMA MadeIsFor ==
  ASSUME CoreInv, NEW t \in Actors, Makes(t)
  PROVE  MadeFor(appender'[made + 1], Head(calls[t]).new[1])
<1>0. TypeInv /\ appender \in [AppenderIds -> AppenderType] /\ made \in AppenderIds
  BY TypedData DEF CoreInv
<1> DEFINE c == Head(calls[t])
<1>1. PICK ad : c.new = <<ad>>
  BY <1>0, CallingShape DEF Makes, AddBegin, Calling, Shape
<1>2. appender' = [appender EXCEPT ![made + 1] = Made(c.new[1])] /\ made + 1 <= MaxAppenders
  BY DEF Makes, AddBegin
<1>3. c.new[1] = ad
  BY <1>1
<1>4. made + 1 \in AppenderIds
  BY <1>0, <1>2, Constants DEF AppenderIds
<1>5. MadeFor(Made(ad), ad)
  BY DEF MadeFor, Made
<1> DEFINE x == Made(ad)
<1>6. appender' = [appender EXCEPT ![made + 1] = x] /\ MadeFor(x, ad)
  BY <1>2, <1>3, <1>5
<1> HIDE DEF x, c
<1>7. appender'[made + 1] = x
  BY <1>0, <1>4, <1>6
<1> QED
  BY <1>3, <1>6, <1>7 DEF c

(* and stays so until it is in the list.                                   *)
LEMMA PushStep ==
  ASSUME CoreInv, CoreInv', OwnerInv, PlaceInv, SpareInv, PushDue, NEW t \in Actors, Step(t)
  PROVE  PushDue'
<1>0. TypeInv /\ TypeInv' /\ made \in Nat
  BY TypedData, Constants DEF CoreInv
<1> SUFFICES ASSUME at'[Loader].step = "push"
             PROVE  /\ MadeFor(appender'[at'[Loader].a], Head(calls'[Loader]).new[1])
                    /\ at'[Loader].bare => ~appender'[at'[Loader].a].own
  BY DEF PushDue
<1>1. CASE t = Loader
  <2>1. /\ AddBegin(t) /\ calls[t] # <<>> /\ Op(t) = "addAppender" /\ calls' = calls
        /\ at'[t].a = IF Makes(t) THEN made + 1 ELSE Head(calls[t]).a
        /\ at'[t].bare <=> appender'[at'[t].a].formatter = NoFormat
    BY <1>1, PushAfter
  <2>2. Makes(t)
    BY <1>1, <2>1, WhoAdds, Constants DEF Makes
  <2>3. made + 1 \in AppenderIds
    BY <1>0, <2>2, NewOne
  <2>4. appender'[made + 1].own => appender'[made + 1].formatter # NoFormat
    BY <1>0, <2>3 DEF TypeInv, DataTyped, TypeOK
  <2> QED
    BY <1>1, <2>1, <2>2, <2>4, MadeIsFor
<1>2. CASE t # Loader
  <2> DEFINE a == at[Loader].a
  <2>1. at'[Loader] = at[Loader] /\ calls'[Loader] = calls[Loader]
    BY <1>2, StepFrame, Constants
  <2>2. at[Loader].step = "push"
    BY <2>1
  <2>3. a \in AppenderIds /\ Adds(Loader, a)
    BY <1>0, <2>2, Constants, WhereFields, AtPush DEF TypeInv, AtTyped, Adds
  <2>4. AddedBy(Loader, a) /\ a <= made /\ a # made + 1
    <3>0. adds[a] <= 1
      <4>1. a \in Nat /\ a > 1 + Spare /\ Spare \in Nat
        BY <2>2, <2>3, Constants DEF OwnerInv
      <4>2. a \notin 2..1 + Spare
        <5> HIDE DEF a
        <5> QED
          BY <4>1
      <4> QED
        BY <2>3, <4>2 DEF OwnerInv
    <3>1. AddedBy(Loader, a)
      BY <2>3, <3>0, Constants DEF PlaceInv
    <3>2. a \in Nat /\ a <= made
      BY <2>3, <3>1, Constants DEF AddedBy
    <3> HIDE DEF a
    <3> QED
      BY <1>0, <3>1, <3>2
  <2>5. ~(AddEnd(t) /\ a = at[t].a)
    BY <1>2, <2>4 DEF AddEnd, Calling, Adds, AddedBy
  <2>6. ~(In(Name(t), a) /\ Name(t) \in Loggers)
    BY <2>4 DEF AddedBy, NotIn
  <2>7. a \notin 2..1 + Spare
    BY <2>2, <2>3, Constants DEF OwnerInv
  <2>8. appender'[a] = appender[a]
    <3>1. CASE SetOwn(t)
      BY <1>0, <2>3, <2>7, <3>1, OwnAfter
    <3>2. CASE ~SetOwn(t)
      BY <2>3, <2>4, <2>5, <2>6, <3>2, AppenderAfter
    <3> QED
      BY <3>1, <3>2
  <2> QED
    BY <2>1, <2>2, <2>8 DEF PushDue
<1> QED
  BY <1>1, <1>2

(* One call is done: what is left of those that change a logger.           *)
LEMMA HasTail ==
  ASSUME NEW S, NEW cs \in Seq(S), cs # <<>>, NEW op, NEW n
  PROVE  Has(cs, op, n) <=> On(Head(cs), op, n) \/ Has(Tail(cs), op, n)
<1>1. /\ Head(cs) = cs[1] /\ DOMAIN cs = 1..Len(cs) /\ Len(cs) \in Nat /\ 1 \in DOMAIN cs
      /\ DOMAIN Tail(cs) = 1..(Len(cs) - 1)
      /\ \A k \in DOMAIN Tail(cs) : k + 1 \in DOMAIN cs /\ Tail(cs)[k] = cs[k + 1]
  BY TailElements
<1>2. \A k \in DOMAIN cs : k # 1 => k - 1 \in DOMAIN Tail(cs) /\ (k - 1) + 1 = k
  BY <1>1
<1>3. Has(cs, op, n) => On(Head(cs), op, n) \/ Has(Tail(cs), op, n)
  <2>1. SUFFICES ASSUME NEW k \in DOMAIN cs, On(cs[k], op, n) PROVE On(Head(cs), op, n) \/ Has(Tail(cs), op, n)
    BY DEF Has
  <2>2. CASE k = 1
    BY <1>1, <2>1, <2>2
  <2>3. CASE k # 1
    <3>1. k - 1 \in DOMAIN Tail(cs) /\ Tail(cs)[k - 1] = cs[k]
      BY <1>1, <1>2, <2>3
    <3> QED
      BY <2>1, <3>1 DEF Has
  <2> QED
    BY <2>2, <2>3
<1>4. On(Head(cs), op, n) \/ Has(Tail(cs), op, n) => Has(cs, op, n)
  BY <1>1 DEF Has
<1> QED
  BY <1>3, <1>4

(* And of the appenders that are still to be added.                        *)
LEMMA DueTail ==
  ASSUME NEW S, NEW cs \in Seq(S), cs # <<>>, NEW T, NEW ads \in Seq(T), NEW n, NEW e, NEW m, Due(cs, n, ads, e, m)
  PROVE  /\ On(Head(cs), "addAppender", n) =>
              /\ m - 1 \in 0..Len(ads) /\ Due(Tail(cs), n, ads, 0, m - 1)
              /\ Head(cs) = AddNew(n, ads[Len(ads) - m + 1]) /\ ~Has(cs, "clearAppenders", n)
         /\ ~On(Head(cs), "addAppender", n) => \E f \in 0..Len(Tail(cs)) : Due(Tail(cs), n, ads, f, m)
         /\ On(Head(cs), "clearAppenders", n) => m = Len(ads)
<1>1. /\ Head(cs) = cs[1] /\ DOMAIN cs = 1..Len(cs) /\ Len(cs) \in Nat \ {0} /\ 1 \in DOMAIN cs
      /\ DOMAIN Tail(cs) = 1..(Len(cs) - 1) /\ Len(Tail(cs)) = Len(cs) - 1
      /\ \A k \in DOMAIN Tail(cs) : k + 1 \in DOMAIN cs /\ Tail(cs)[k] = cs[k + 1]
  BY TailElements, HeadTailProperties, EmptySeq
<1>2. /\ e \in Nat /\ m \in 0..Len(ads) /\ e + m <= Len(cs) /\ Len(ads) \in Nat
      /\ \A k \in DOMAIN cs : On(cs[k], "addAppender", n) => e < k /\ k <= e + m
      /\ \A i \in 1..m : cs[e + i] = AddNew(n, ads[Len(ads) - m + i])
      /\ \A k \in DOMAIN cs : On(cs[k], "clearAppenders", n) => k <= e /\ m = Len(ads)
  BY LenProperties DEF Due
<1>3. ASSUME NEW f \in Nat, NEW j \in 0..Len(ads), f + j <= Len(cs) - 1,
             \/ f + 1 = e /\ j = m
             \/ f = 0 /\ e = 0 /\ (j + 1 = m \/ (j = 0 /\ m = 0))
      PROVE  Due(Tail(cs), n, ads, f, j)
  <2>1. ASSUME NEW k \in DOMAIN Tail(cs), On(Tail(cs)[k], "addAppender", n) PROVE f < k /\ k <= f + j
    <3>1. e < k + 1 /\ k + 1 <= e + m
      BY <1>1, <1>2, <2>1
    <3> QED
      BY <1>1, <1>2, <1>3, <3>1
  <2>2. ASSUME NEW i \in 1..j PROVE Tail(cs)[f + i] = AddNew(n, ads[Len(ads) - j + i])
    <3>1. f + i \in DOMAIN Tail(cs) /\ Tail(cs)[f + i] = cs[f + i + 1]
      BY <1>1, <1>3
    <3>2. CASE f + 1 = e /\ j = m
      <4>1. f + i + 1 = e + i
        BY <1>2, <1>3, <3>2
      <4> QED
        BY <1>2, <3>1, <3>2, <4>1
    <3>3. CASE f = 0 /\ e = 0 /\ j + 1 = m
      <4>1. i + 1 \in 1..m /\ f + i + 1 = e + (i + 1) /\ Len(ads) - m + (i + 1) = Len(ads) - j + i
        BY <1>2, <1>3, <3>3
      <4>2. cs[e + (i + 1)] = AddNew(n, ads[Len(ads) - m + (i + 1)])
        BY <1>2, <4>1
      <4> QED
        BY <3>1, <4>1, <4>2
    <3> QED
      BY <1>3, <3>2, <3>3
  <2>3. ASSUME NEW k \in DOMAIN Tail(cs), On(Tail(cs)[k], "clearAppenders", n) PROVE k <= f /\ j = Len(ads)
    <3>1. k + 1 <= e /\ m = Len(ads)
      BY <1>1, <1>2, <2>3
    <3> QED
      BY <1>1, <1>2, <1>3, <3>1
  <2> QED
    BY <1>1, <1>2, <1>3, <2>1, <2>2, <2>3 DEF Due
<1>4. CASE On(Head(cs), "addAppender", n)
  <2>1. e = 0 /\ m >= 1
    BY <1>1, <1>2, <1>4
  <2>2. m - 1 \in 0..Len(ads) /\ Due(Tail(cs), n, ads, 0, m - 1)
    BY <1>1, <1>2, <1>3, <2>1
  <2>3. Head(cs) = AddNew(n, ads[Len(ads) - m + 1])
    <3>1. cs[e + 1] = AddNew(n, ads[Len(ads) - m + 1])
      BY <1>2, <2>1
    <3> QED
      BY <1>1, <2>1, <3>1
  <2>4. ~Has(cs, "clearAppenders", n)
    BY <1>1, <1>2, <2>1 DEF Has
  <2>5. ~On(Head(cs), "clearAppenders", n)
    BY <1>4 DEF On
  <2> QED
    BY <1>4, <2>2, <2>3, <2>4, <2>5
<1>5. CASE ~On(Head(cs), "addAppender", n)
  <2>1. CASE e > 0
    <3>1. e - 1 \in 0..Len(Tail(cs)) /\ Due(Tail(cs), n, ads, e - 1, m)
      BY <1>1, <1>2, <1>3, <2>1
    <3> QED
      BY <1>1, <1>2, <1>5, <3>1
  <2>2. CASE e = 0
    <3>1. m = 0
      <4>1. SUFFICES ASSUME m # 0 PROVE FALSE
        OBVIOUS
      <4>2. 1 \in 1..m
        BY <1>2, <4>1
      <4>3. cs[e + 1] = AddNew(n, ads[Len(ads) - m + 1])
        BY <1>2, <4>2
      <4>4. Head(cs) = AddNew(n, ads[Len(ads) - m + 1])
        BY <1>1, <2>2, <4>3
      <4> QED
        BY <1>5, <4>4 DEF On, AddNew
    <3>2. 0 \in 0..Len(Tail(cs)) /\ Due(Tail(cs), n, ads, 0, m)
      BY <1>1, <1>2, <1>3, <2>2, <3>1
    <3> QED
      BY <1>1, <1>2, <1>5, <3>2
  <2> QED
    BY <1>2, <2>1, <2>2
<1> QED
  BY <1>4, <1>5

(* The listener's list stays, or its first call is done.                   *)
LEMMA ListenerGoes ==
  ASSUME CoreInv, NEW t \in Actors, Step(t)
  PROVE  \/ t = Loader /\ Returns(t) /\ calls'[Loader] = Tail(calls[Loader])
         \/ /\ calls'[Loader] = calls[Loader]
            /\ t = Loader => ~SetLevelOf(t) /\ ~SetFormatterOf(t) /\ ~Clear(t) /\ ~AddEnd(t)
<1>0. TypeInv
  BY DEF CoreInv
<1>1. CASE t # Loader
  BY <1>1, StepFrame, Constants
<1>2. CASE t = Loader /\ Returns(t)
  BY <1>0, <1>2, Goers
<1>3. CASE t = Loader /\ ~Returns(t)
  BY <1>0, <1>3, StepMoves, StepOf, Goers
<1> QED
  BY <1>1, <1>2, <1>3

(* What the listener's list is, and its first call.                        *)
LEMMA ListenerList ==
  ASSUME CoreInv
  PROVE  /\ calls[Loader] \in Seq(ListenerCalls)
         /\ calls[Loader] # <<>> =>
              /\ Head(calls[Loader]) = calls[Loader][1] /\ 1 \in DOMAIN calls[Loader]
              /\ Head(calls[Loader]) \in ListenerCalls
              /\ \A k \in DOMAIN Tail(calls[Loader]) :
                   k + 1 \in DOMAIN calls[Loader] /\ Tail(calls[Loader])[k] = calls[Loader][k + 1]
<1>1. calls[Loader] \in Seq(ListenerCalls)
  BY DEF CoreInv, TypeInv, CallsTyped
<1> QED
  BY <1>1, TailElements

(* The level stays the defined one, or is still to be set,                 *)
LEMMA LevelStep ==
  ASSUME CoreInv, FreshInv, NEW t \in Actors, Step(t), NEW d \in Definitions, LevelDue(d)
  PROVE  LevelDue(d)'
<1> DEFINE cs == calls[Loader]
           n == d.name
<1>0. n \in Named /\ n \in Loggers /\ cs \in Seq(ListenerCalls)
  BY DefinitionFields, NamedApart, ListenerList
<1>1. CASE t = Loader /\ Returns(t) /\ calls'[Loader] = Tail(cs)
  <2>1. /\ cs # <<>> /\ Head(cs) = cs[1] /\ 1 \in DOMAIN cs
        /\ \A k \in DOMAIN Tail(cs) : k + 1 \in DOMAIN cs /\ Tail(cs)[k] = cs[k + 1]
    BY <1>1, StepOf, ListenerList
  <2>2. Has(cs, "setLevel", n) <=> On(Head(cs), "setLevel", n) \/ Has(Tail(cs), "setLevel", n)
    BY <1>0, <2>1, HasTail
  <2>3. On(Head(cs), "setLevel", n) => logger'[n].level = d.level
    <3>1. SUFFICES ASSUME On(Head(cs), "setLevel", n) PROVE logger'[n].level = d.level
      OBVIOUS
    <3>2. SetLevelOf(t) /\ n = Name(t)
      BY <1>1, <3>1, StepOf DEF On, Op, Name
    <3>3. Head(cs).level = d.level
      BY <2>1, <3>1 DEF LevelDue
    <3> QED
      BY <1>0, <1>1, <3>2, <3>3, LevelAfter
  <2>4. logger'[n].level # logger[n].level => On(Head(cs), "setLevel", n)
    BY <1>0, <1>1, NamedAfter, StepOf DEF On, Op, Name
  <2>5. Has(Tail(cs), "setLevel", n) \/ logger'[n].level = d.level
    BY <2>2, <2>3, <2>4 DEF LevelDue
  <2>6. \A k \in DOMAIN Tail(cs) : On(Tail(cs)[k], "setLevel", n) => Tail(cs)[k].level = d.level
    BY <2>1 DEF LevelDue
  <2> QED
    BY <1>1, <2>5, <2>6 DEF LevelDue
<1>2. CASE calls'[Loader] = cs /\ (t = Loader => ~SetLevelOf(t))
  <2>1. logger'[n].level = logger[n].level
    BY <1>0, <1>2, NamedAfter
  <2> QED
    BY <1>2, <2>1 DEF LevelDue
<1> QED
  BY <1>1, <1>2, ListenerGoes

(* and so does the formatter.                                              *)
LEMMA FormatterStep ==
  ASSUME CoreInv, FreshInv, NEW t \in Actors, Step(t), NEW d \in Definitions, FormatterDue(d)
  PROVE  FormatterDue(d)'
<1> DEFINE cs == calls[Loader]
           n == d.name
           Sets == d.formatter # NoFormat /\ ~IsError(d.formatter)
<1>0. n \in Named /\ n \in Loggers /\ cs \in Seq(ListenerCalls) /\ TypeInv
  BY DefinitionFields, NamedApart, ListenerList DEF CoreInv
<1>1. CASE t = Loader /\ Returns(t) /\ calls'[Loader] = Tail(cs)
  <2>1. /\ cs # <<>> /\ Head(cs) = cs[1] /\ 1 \in DOMAIN cs
        /\ \A k \in DOMAIN Tail(cs) : k + 1 \in DOMAIN cs /\ Tail(cs)[k] = cs[k + 1]
    BY <1>1, StepOf, ListenerList
  <2>2. Has(cs, "setFormatter", n) <=> On(Head(cs), "setFormatter", n) \/ Has(Tail(cs), "setFormatter", n)
    BY <1>0, <2>1, HasTail
  <2>3. On(Head(cs), "setFormatter", n) /\ Sets => logger'[n].formatter = d.formatter
    <3>1. SUFFICES ASSUME On(Head(cs), "setFormatter", n), Sets PROVE logger'[n].formatter = d.formatter
      OBVIOUS
    <3>2. SetFormatterOf(t) /\ n = Name(t)
      BY <1>1, <3>1, StepOf DEF On, Op, Name
    <3>3. Head(cs).formatter = d.formatter
      BY <2>1, <3>1 DEF FormatterDue
    <3> QED
      BY <1>0, <1>1, <3>1, <3>2, <3>3, LoggerCallChanges
  <2>4. logger'[n].formatter # logger[n].formatter => On(Head(cs), "setFormatter", n)
    BY <1>0, <1>1, NamedAfter, StepOf DEF On, Op, Name
  <2>5. Sets => Has(Tail(cs), "setFormatter", n) \/ logger'[n].formatter = d.formatter
    BY <2>2, <2>3, <2>4 DEF FormatterDue
  <2>6. \A k \in DOMAIN Tail(cs) : On(Tail(cs)[k], "setFormatter", n) => Tail(cs)[k].formatter = d.formatter
    BY <2>1 DEF FormatterDue
  <2> QED
    BY <1>1, <2>5, <2>6 DEF FormatterDue
<1>2. CASE calls'[Loader] = cs /\ (t = Loader => ~SetFormatterOf(t))
  <2>1. logger'[n].formatter = logger[n].formatter
    BY <1>0, <1>2, NamedAfter
  <2> QED
    BY <1>2, <2>1 DEF FormatterDue
<1> QED
  BY <1>1, <1>2, ListenerGoes

(* The appenders of a list that stays are still as they were made,         *)
LEMMA ShowsKept ==
  ASSUME CoreInv, OwnerInv, PlaceInv, SpareInv, NEW t \in Actors, Step(t), NEW n \in Named,
         logger'[n].appenders = logger[n].appenders, NEW ads, NEW k \in Nat, Shows(n, ads, k)
  PROVE  Shows(n, ads, k)'
<1> DEFINE l == logger[n].appenders
<1>1. l \in Seq(AppenderIds) /\ Len(l) = k
  BY NamedApart, LoggerFields DEF CoreInv, Shows
<1>2. ASSUME NEW i \in 1..k PROVE MadeFor(appender'[l[i]], ads[i])
  <2>1. In(n, l[i])
    BY <1>1, LenProperties DEF In, ToSet
  <2>2. MadeFor(appender[l[i]], ads[i])
    BY DEF Shows
  <2> QED
    BY <2>1, <2>2, MadeForAfter
<1> QED
  BY <1>1, <1>2 DEF Shows

(* and the one that is added is, too.                                      *)
LEMMA ShowsAdded ==
  ASSUME CoreInv, OwnerInv, PlaceInv, SpareInv, PushDue, AddEnd(Loader), Step(Loader),
         NEW n \in Named, n = Name(Loader), NEW ads, NEW k \in Nat, Shows(n, ads, k), Head(calls[Loader]) = AddNew(n, ads[k + 1])
  PROVE  Shows(n, ads, k + 1)'
<1> DEFINE l == logger[n].appenders
           b == at[Loader].a
<1>0. TypeInv /\ Loader \in Actors /\ n \in Loggers /\ at[Loader].step = "push"
  BY NamedApart, Constants DEF CoreInv, AddEnd, Calling
<1>1. l \in Seq(AppenderIds) /\ Len(l) = k
  BY <1>0, LoggerFields DEF Shows
<1>2. b \in AppenderIds
  BY <1>0, WhereFields, AtPush DEF TypeInv, AtTyped
<1>3. logger'[n].appenders = Append(l, b)
  BY <1>0, LoggerCallChanges
<1>4. Len(Append(l, b)) = k + 1 /\ Append(l, b)[k + 1] = b /\ \A i \in 1..k : Append(l, b)[i] = l[i]
  BY <1>1, <1>2, AppendProperties
<1>5. ASSUME NEW i \in 1..k PROVE MadeFor(appender'[l[i]], ads[i])
  <2>1. In(n, l[i])
    BY <1>1, LenProperties DEF In, ToSet
  <2>2. MadeFor(appender[l[i]], ads[i])
    BY DEF Shows
  <2> QED
    BY <1>0, <2>1, <2>2, MadeForAfter
<1>6. MadeFor(appender'[b], ads[k + 1])
  <2>1. MadeFor(appender[b], ads[k + 1]) /\ (at[Loader].bare => ~appender[b].own)
    <3>1. AddNew(n, ads[k + 1]).new[1] = ads[k + 1]
      BY DEF AddNew
    <3> QED
      BY <1>0, <3>1 DEF PushDue
  <2>2. ~SetOwn(Loader) /\ ~Makes(Loader)
    BY <1>0 DEF SetOwn, Makes, AddBegin, Calling
  <2>3. /\ appender'[b].type = appender[b].type /\ appender'[b].own = appender[b].own
        /\ ~at[Loader].bare => appender'[b] = appender[b]
    BY <1>0, <1>2, <2>2, KindAfter
  <2> QED
    BY <2>1, <2>3 DEF MadeFor
<1> HIDE DEF l, b
<1>7. ASSUME NEW i \in 1..(k + 1) PROVE MadeFor(appender'[logger'[n].appenders[i]], ads[i])
  <2>1. CASE i = k + 1
    BY <1>3, <1>4, <1>6, <2>1
  <2>2. CASE i \in 1..k
    BY <1>3, <1>4, <1>5, <2>2
  <2> QED
    BY <2>1, <2>2
<1> QED
  BY <1>3, <1>4, <1>7 DEF Shows

(* The appenders are there, or are still to be added.                      *)
LEMMA AppendersStep ==
  ASSUME CoreInv, FreshInv, OwnerInv, PlaceInv, SpareInv, PushDue, NEW t \in Actors, Step(t),
         NEW n \in Named, NEW T, NEW ads \in Seq(T), AppendersDue(n, ads)
  PROVE  AppendersDue(n, ads)'
<1> DEFINE cs == calls[Loader]
<1>0. n \in Loggers /\ cs \in Seq(ListenerCalls) /\ TypeInv /\ Len(ads) \in Nat
  BY NamedApart, ListenerList, LenProperties DEF CoreInv
<1>1. PICK e \in 0..Len(cs), m \in 0..Len(ads) :
        Due(cs, n, ads, e, m) /\ (Has(cs, "clearAppenders", n) \/ Shows(n, ads, Len(ads) - m))
  BY DEF AppendersDue
<1>2. ASSUME logger'[n].appenders = logger[n].appenders, Shows(n, ads, Len(ads) - m)
      PROVE  Shows(n, ads, Len(ads) - m)'
  <2>1. Len(ads) - m \in Nat
    BY <1>0
  <2> DEFINE k == Len(ads) - m
  <2> HIDE DEF k
  <2> QED
    BY <1>2, <2>1, ShowsKept DEF k
<1>3. CASE t = Loader /\ Returns(t) /\ calls'[Loader] = Tail(cs)
  <2>1. cs # <<>> /\ Len(Tail(cs)) \in Nat
    BY <1>0, <1>3, StepOf, TailElements, LenProperties
  <2>2. Has(cs, "clearAppenders", n) <=> On(Head(cs), "clearAppenders", n) \/ Has(Tail(cs), "clearAppenders", n)
    BY <1>0, <2>1, HasTail
  <2>3. /\ On(Head(cs), "addAppender", n) =>
             /\ m - 1 \in 0..Len(ads) /\ Due(Tail(cs), n, ads, 0, m - 1)
             /\ Head(cs) = AddNew(n, ads[Len(ads) - m + 1]) /\ ~Has(cs, "clearAppenders", n)
        /\ ~On(Head(cs), "addAppender", n) => \E f \in 0..Len(Tail(cs)) : Due(Tail(cs), n, ads, f, m)
        /\ On(Head(cs), "clearAppenders", n) => m = Len(ads)
    BY <1>0, <1>1, <2>1, DueTail
  <2>4. CASE On(Head(cs), "addAppender", n)
    <3>1. AddEnd(t) /\ n = Name(t)
      BY <1>3, <2>4, StepOf DEF On, Op, Name
    <3>2. Shows(n, ads, Len(ads) - m)
      BY <1>1, <2>3, <2>4
    <3>3. Len(ads) - m \in Nat
      BY <1>0
    <3>4. Shows(n, ads, Len(ads) - m + 1)'
      <4> DEFINE k == Len(ads) - m
      <4> HIDE DEF k
      <4> QED
        BY <1>3, <2>3, <2>4, <3>1, <3>2, <3>3, ShowsAdded DEF k
    <3>5. Len(ads) - m + 1 = Len(ads) - (m - 1)
      BY <1>0
    <3>6. Shows(n, ads, Len(ads) - (m - 1))' /\ 0 \in 0..Len(Tail(cs))
      BY <2>1, <3>4, <3>5
    <3> QED
      BY <1>3, <2>3, <2>4, <3>6 DEF AppendersDue
  <2>5. CASE On(Head(cs), "clearAppenders", n)
    <3>1. Clear(t) /\ n = Name(t) /\ ~On(Head(cs), "addAppender", n)
      BY <1>3, <2>5, StepOf DEF On, Op, Name
    <3>2. logger'[n].appenders = <<>>
      BY <1>0, <3>1, LoggerCallChanges
    <3>3. Len(ads) - m = 0
      BY <1>0, <2>3, <2>5
    <3>4. Shows(n, ads, 0)'
      BY <3>2 DEF Shows
    <3> QED
      BY <1>3, <2>3, <3>1, <3>3, <3>4 DEF AppendersDue
  <2>6. CASE ~On(Head(cs), "addAppender", n) /\ ~On(Head(cs), "clearAppenders", n)
    <3>1. logger'[n].appenders = logger[n].appenders
      BY <1>3, <2>6, NamedAfter, StepOf DEF On, Op, Name
    <3>2. Has(Tail(cs), "clearAppenders", n) \/ Shows(n, ads, Len(ads) - m)'
      BY <1>1, <1>2, <2>2, <2>6, <3>1
    <3> QED
      BY <1>3, <2>3, <2>6, <3>2 DEF AppendersDue
  <2> QED
    BY <2>4, <2>5, <2>6
<1>4. CASE calls'[Loader] = cs /\ (t = Loader => ~Clear(t) /\ ~AddEnd(t))
  <2>1. logger'[n].appenders = logger[n].appenders
    BY <1>4, NamedAfter
  <2>2. Has(cs, "clearAppenders", n) \/ Shows(n, ads, Len(ads) - m)'
    BY <1>1, <1>2, <2>1
  <2> QED
    BY <1>1, <1>4, <2>2 DEF AppendersDue
<1> QED
  BY <1>3, <1>4, ListenerGoes

(* Where the elements of two lists are in both together.                   *)
LEMMA Joined ==
  ASSUME NEW S, NEW s \in Seq(S), NEW u \in Seq(S)
  PROVE  /\ s \o u \in Seq(S) /\ Len(s) \in Nat /\ Len(u) \in Nat /\ Len(s \o u) = Len(s) + Len(u)
         /\ \A k \in DOMAIN s : k \in DOMAIN (s \o u) /\ (s \o u)[k] = s[k]
         /\ \A k \in DOMAIN u : Len(s) + k \in DOMAIN (s \o u) /\ (s \o u)[Len(s) + k] = u[k]
         /\ \A k \in DOMAIN (s \o u) :
              \/ k \in DOMAIN s /\ (s \o u)[k] = s[k]
              \/ k - Len(s) \in DOMAIN u /\ (s \o u)[k] = u[k - Len(s)]
<1>1. /\ s \o u \in Seq(S) /\ Len(s \o u) = Len(s) + Len(u)
      /\ \A i \in 1..Len(s) + Len(u) : (s \o u)[i] = IF i <= Len(s) THEN s[i] ELSE u[i - Len(s)]
  BY ConcatProperties
<1>2. /\ Len(s) \in Nat /\ DOMAIN s = 1..Len(s) /\ Len(u) \in Nat /\ DOMAIN u = 1..Len(u)
      /\ DOMAIN (s \o u) = 1..(Len(s) + Len(u))
  BY <1>1, LenProperties
<1>3. ASSUME NEW k \in DOMAIN s PROVE k \in DOMAIN (s \o u) /\ (s \o u)[k] = s[k]
  BY <1>1, <1>2
<1>4. ASSUME NEW k \in DOMAIN u PROVE Len(s) + k \in DOMAIN (s \o u) /\ (s \o u)[Len(s) + k] = u[k]
  BY <1>1, <1>2
<1>5. ASSUME NEW k \in DOMAIN (s \o u)
      PROVE  \/ k \in DOMAIN s /\ (s \o u)[k] = s[k]
             \/ k - Len(s) \in DOMAIN u /\ (s \o u)[k] = u[k - Len(s)]
  BY <1>1, <1>2
<1> QED
  BY <1>1, <1>2, <1>3, <1>4, <1>5

(* The lists that change nothing in a logger, and a list within such lists.*)
Leaves(n) == {c \in ListenerCalls : c.op \in Changes => c.name # n}
Clean(n) == Seq(Leaves(n))
After(cs, x, o, n) ==
  /\ o \in Nat /\ o + Len(x) <= Len(cs)
  /\ \A k \in DOMAIN x : o + k \in DOMAIN cs /\ cs[o + k] = x[k]
  /\ \A k \in DOMAIN cs : k - o \in DOMAIN x \/ cs[k] \in Leaves(n)
Within(cs, x, n) == cs \in Seq(ListenerCalls) /\ \E o \in Nat : After(cs, x, o, n)

(* More such lists may be around it.                                       *)
LEMMA WithinMore ==
  ASSUME NEW n, NEW x \in Seq(ListenerCalls), NEW v \in Clean(n), NEW u, Within(u, x, n)
  PROVE  Within(u \o v, x, n) /\ Within(v \o u, x, n)
<1>1. /\ u \in Seq(ListenerCalls) /\ v \in Seq(ListenerCalls)
      /\ \A k \in DOMAIN v : v[k] \in Leaves(n)
  <2>1. v \in Seq(Leaves(n)) /\ Leaves(n) \subseteq ListenerCalls
    BY DEF Clean, Leaves
  <2>2. v \in Seq(ListenerCalls)
    BY <2>1, SeqMonotonic
  <2> QED
    BY <2>1, <2>2, ElementOfSeq, LenProperties DEF Within
<1>2. PICK o \in Nat : After(u, x, o, n)
  BY DEF Within
<1>3. /\ o + Len(x) <= Len(u) /\ Len(x) \in Nat
      /\ \A k \in DOMAIN x : o + k \in DOMAIN u /\ u[o + k] = x[k]
      /\ \A k \in DOMAIN u : k - o \in DOMAIN x \/ u[k] \in Leaves(n)
      /\ DOMAIN x = 1..Len(x)
  BY <1>2, LenProperties DEF After
<1>4. After(u \o v, x, o, n)
  <2> DEFINE w == u \o v
  <2>1. /\ w \in Seq(ListenerCalls) /\ Len(u) \in Nat /\ Len(v) \in Nat /\ Len(w) = Len(u) + Len(v)
        /\ \A k \in DOMAIN u : k \in DOMAIN w /\ w[k] = u[k]
        /\ \A k \in DOMAIN w :
             \/ k \in DOMAIN u /\ w[k] = u[k]
             \/ k - Len(u) \in DOMAIN v /\ w[k] = v[k - Len(u)]
    BY <1>1, Joined
  <2> HIDE DEF w
  <2>2. \A k \in DOMAIN w : k - o \in DOMAIN x \/ w[k] \in Leaves(n)
    BY <1>1, <1>3, <2>1
  <2>3. \A k \in DOMAIN x : o + k \in DOMAIN w /\ w[o + k] = x[k]
    BY <1>3, <2>1
  <2>4. o + Len(x) <= Len(w)
    BY <1>3, <2>1
  <2> QED
    BY <2>2, <2>3, <2>4 DEF After, w
<1>5. After(v \o u, x, Len(v) + o, n)
  <2> DEFINE w == v \o u
  <2>1. /\ w \in Seq(ListenerCalls) /\ Len(u) \in Nat /\ Len(v) \in Nat /\ Len(w) = Len(v) + Len(u)
        /\ \A k \in DOMAIN u : Len(v) + k \in DOMAIN w /\ w[Len(v) + k] = u[k]
        /\ \A k \in DOMAIN w :
             \/ k \in DOMAIN v /\ w[k] = v[k]
             \/ k - Len(v) \in DOMAIN u /\ w[k] = u[k - Len(v)]
        /\ DOMAIN w = 1..Len(w)
    BY <1>1, Joined, LenProperties
  <2> HIDE DEF w
  <2>2. ASSUME NEW k \in DOMAIN w PROVE k - (Len(v) + o) \in DOMAIN x \/ w[k] \in Leaves(n)
    <3>1. CASE k \in DOMAIN v /\ w[k] = v[k]
      BY <1>1, <3>1
    <3>2. CASE k - Len(v) \in DOMAIN u /\ w[k] = u[k - Len(v)]
      <4>1. (k - Len(v)) - o \in DOMAIN x \/ w[k] \in Leaves(n)
        BY <1>3, <3>2
      <4>2. (k - Len(v)) - o = k - (Len(v) + o)
        BY <2>1
      <4> QED
        BY <4>1, <4>2
    <3> QED
      BY <2>1, <3>1, <3>2
  <2>3. ASSUME NEW k \in DOMAIN x PROVE (Len(v) + o) + k \in DOMAIN w /\ w[(Len(v) + o) + k] = x[k]
    <3>1. o + k \in DOMAIN u /\ u[o + k] = x[k] /\ Len(v) + (o + k) = (Len(v) + o) + k
      BY <1>3, <2>1
    <3> QED
      BY <2>1, <3>1
  <2>4. Len(v) + o \in Nat /\ (Len(v) + o) + Len(x) <= Len(w)
    BY <1>3, <2>1
  <2> QED
    BY <2>2, <2>3, <2>4 DEF After, w
<1>6. Len(v) + o \in Nat /\ u \o v \in Seq(ListenerCalls) /\ v \o u \in Seq(ListenerCalls)
  BY <1>1, Joined
<1> QED
  BY <1>4, <1>5, <1>6 DEF Within

(* A list within such lists does to the logger what it does by itself.     *)
LEMMA WithinDoes ==
  ASSUME NEW n, NEW x \in Seq(ListenerCalls), NEW cs, Within(cs, x, n)
  PROVE  /\ cs \in Seq(ListenerCalls)
         /\ \A op \in Changes : \A k \in DOMAIN cs : On(cs[k], op, n) => \E j \in DOMAIN x : cs[k] = x[j]
         /\ \A op \in Changes : Has(cs, op, n) <=> Has(x, op, n)
         /\ \A ads, e, m : Due(x, n, ads, e, m) => \E f \in 0..Len(cs) : Due(cs, n, ads, f, m)
<1>1. PICK o \in Nat : After(cs, x, o, n)
  BY DEF Within
<1>2. /\ cs \in Seq(ListenerCalls) /\ o + Len(x) <= Len(cs)
      /\ \A k \in DOMAIN x : o + k \in DOMAIN cs /\ cs[o + k] = x[k]
      /\ \A k \in DOMAIN cs : k - o \in DOMAIN x \/ cs[k] \in Leaves(n)
      /\ DOMAIN x = 1..Len(x) /\ DOMAIN cs = 1..Len(cs) /\ Len(x) \in Nat /\ Len(cs) \in Nat
  BY <1>1, LenProperties DEF After, Within
<1>3. ASSUME NEW op \in Changes, NEW k \in DOMAIN cs, On(cs[k], op, n)
      PROVE  k - o \in DOMAIN x /\ cs[k] = x[k - o]
  <2>1. cs[k] \notin Leaves(n)
    BY <1>3 DEF On, Leaves
  <2>2. k - o \in DOMAIN x /\ o + (k - o) = k
    BY <1>2, <2>1
  <2>3. cs[o + (k - o)] = x[k - o]
    BY <1>2, <2>2
  <2> QED
    BY <2>2, <2>3
<1>4. ASSUME NEW op \in Changes PROVE Has(cs, op, n) <=> Has(x, op, n)
  <2>1. Has(cs, op, n) => Has(x, op, n)
    BY <1>3 DEF Has
  <2>2. Has(x, op, n) => Has(cs, op, n)
    BY <1>2 DEF Has
  <2> QED
    BY <2>1, <2>2
<1>5. ASSUME NEW ads, NEW e, NEW m, Due(x, n, ads, e, m) PROVE o + e \in 0..Len(cs) /\ Due(cs, n, ads, o + e, m)
  <2>1. /\ e \in Nat /\ m \in 0..Len(ads) /\ e + m <= Len(x)
        /\ \A k \in DOMAIN x : On(x[k], "addAppender", n) => e < k /\ k <= e + m
        /\ \A i \in 1..m : x[e + i] = AddNew(n, ads[Len(ads) - m + i])
        /\ \A k \in DOMAIN x : On(x[k], "clearAppenders", n) => k <= e /\ m = Len(ads)
    BY <1>5 DEF Due
  <2>2. m \in Nat
    BY <2>1
  <2>3. ASSUME NEW k \in DOMAIN cs, On(cs[k], "addAppender", n) PROVE o + e < k /\ k <= o + e + m
    <3>1. k - o \in DOMAIN x /\ cs[k] = x[k - o]
      BY <1>3, <2>3 DEF Changes
    <3>2. e < k - o /\ k - o <= e + m
      BY <2>1, <2>3, <3>1
    <3> QED
      BY <1>2, <2>1, <2>2, <3>2
  <2>4. ASSUME NEW i \in 1..m PROVE cs[o + e + i] = AddNew(n, ads[Len(ads) - m + i])
    <3>1. e + i \in DOMAIN x /\ o + (e + i) = o + e + i
      BY <1>2, <2>1, <2>2
    <3>2. cs[o + (e + i)] = x[e + i]
      BY <1>2, <3>1
    <3> QED
      BY <2>1, <3>1, <3>2
  <2>5. ASSUME NEW k \in DOMAIN cs, On(cs[k], "clearAppenders", n) PROVE k <= o + e /\ m = Len(ads)
    <3>1. k - o \in DOMAIN x /\ cs[k] = x[k - o]
      BY <1>3, <2>5 DEF Changes
    <3>2. k - o <= e /\ m = Len(ads)
      BY <2>1, <2>5, <3>1
    <3> QED
      BY <1>2, <2>1, <3>2
  <2>6. o + e \in Nat /\ o + e \in 0..Len(cs) /\ o + e + m <= Len(cs)
    BY <1>2, <2>1, <2>2
  <2> QED
    BY <2>1, <2>3, <2>4, <2>5, <2>6 DEF Due
<1> QED
  BY <1>2, <1>3, <1>4, <1>5

(* One list among those that leave a logger alone.                         *)
LEMMA FlattenWithin ==
  ASSUME NEW n, NEW s \in Seq(Seq(ListenerCalls)), NEW j \in DOMAIN s, \A i \in DOMAIN s : i # j => s[i] \in Clean(n)
  PROVE  Within(FlattenSeq(s), s[j], n)
<1> DEFINE x == s[j]
<1>1. Len(s) \in Nat /\ DOMAIN s = 1..Len(s) /\ x \in Seq(ListenerCalls) /\ s # <<>>
  BY ElementOfSeq, LenProperties
<1>2. PICK f : FlattenSeq(s) = f[Len(s)] /\ f[1] = s[1] /\ \A k \in 2..Len(s) : f[k] = f[k - 1] \o s[k]
  BY <1>1, FlattenSteps
<1> DEFINE Good(k) == (k < j => f[k] \in Clean(n)) /\ (k >= j => Within(f[k], x, n))
           T == {k \in Nat : k \in 1..Len(s) /\ ~Good(k)}
<1>3. Within(x, x, n)
  <2>1. Len(x) \in Nat /\ DOMAIN x = 1..Len(x)
    BY <1>1, LenProperties
  <2>2. After(x, x, 0, n)
    <3> HIDE DEF x
    <3> QED
      BY <2>1 DEF After
  <2> QED
    BY <1>1, <2>2 DEF Within
<1>4. ASSUME NEW u \in Clean(n), NEW v \in Clean(n) PROVE u \o v \in Clean(n)
  BY ConcatProperties DEF Clean
<1> HIDE DEF x
<1>5. ASSUME NEW u, Within(u, x, n), NEW v \in Clean(n) PROVE Within(u \o v, x, n) /\ Within(v \o u, x, n)
  BY <1>1, <1>5, WithinMore
<1>6. ASSUME NEW m \in 1..Len(s), \A k \in 1..Len(s) : k < m => Good(k) PROVE Good(m)
  <2>1. j \in 1..Len(s) /\ \A i \in 1..Len(s) : i # j => s[i] \in Clean(n)
    BY <1>1
  <2>2. CASE m = 1
    <3>1. f[m] = s[m] /\ (m = j => f[m] = x) /\ (m # j => f[m] \in Clean(n))
      BY <1>2, <2>1, <2>2 DEF x
    <3>2. m < j \/ m = j
      BY <2>1, <2>2
    <3>3. m = j => Within(f[m], x, n)
      BY <1>3, <3>1
    <3> QED
      BY <2>1, <2>2, <3>1, <3>2, <3>3
  <2>3. CASE m # 1
    <3>1. m - 1 \in 1..Len(s) /\ m - 1 < m /\ m \in 2..Len(s)
      BY <1>1, <2>3
    <3>2. Good(m - 1) /\ f[m] = f[m - 1] \o s[m]
      <4> HIDE DEF Good
      <4> QED
        BY <1>2, <1>6, <3>1
    <3>3. CASE m < j
      <4>1. f[m - 1] \in Clean(n) /\ s[m] \in Clean(n)
        BY <2>1, <3>1, <3>2, <3>3
      <4>2. f[m] \in Clean(n)
        BY <1>4, <3>2, <4>1
      <4> QED
        BY <2>1, <3>3, <4>2
    <3>4. CASE m = j
      <4>1. f[m - 1] \in Clean(n) /\ s[m] = x
        BY <2>1, <3>1, <3>2, <3>4 DEF x
      <4>2. Within(f[m], x, n)
        BY <1>3, <1>5, <3>2, <4>1
      <4> QED
        BY <2>1, <3>4, <4>2
    <3>5. CASE m > j
      <4>1. Within(f[m - 1], x, n)
        BY <2>1, <3>1, <3>2, <3>5
      <4>2. s[m] \in Clean(n)
        BY <2>1, <3>5
      <4>3. Within(f[m], x, n)
        BY <1>5, <3>2, <4>1, <4>2
      <4> QED
        BY <2>1, <3>5, <4>3
    <3> QED
      BY <2>1, <3>3, <3>4, <3>5
  <2> QED
    BY <2>2, <2>3
<1>7. Good(Len(s))
  <2> HIDE DEF Good
  <2>1. T \in SUBSET Nat
    OBVIOUS
  <2>2. ASSUME T # {} PROVE FALSE
    <3>1. PICK m \in T : \A k \in T : m <= k
      <4> HIDE DEF T
      <4> QED
        BY <2>1, <2>2, LeastNat
    <3>2. \A k \in 1..Len(s) : k < m => Good(k)
      BY <1>1, <3>1
    <3> QED
      BY <1>6, <3>1, <3>2
  <2>3. Len(s) \in 1..Len(s)
    BY <1>1, EmptySeq
  <2>4. Len(s) \notin T
    <3> HIDE DEF T
    <3> QED
      BY <2>2
  <2> QED
    BY <1>1, <2>3, <2>4
<1>8. Within(FlattenSeq(s), x, n)
  BY <1>1, <1>2, <1>7
<1> QED
  BY <1>8 DEF x

(* What is in two lists together.                                          *)
LEMMA JoinedSet ==
  ASSUME NEW S, NEW s \in Seq(S), NEW u \in Seq(S)
  PROVE  ToSet(s \o u) = ToSet(s) \cup ToSet(u)
<1> DEFINE w == s \o u
<1>1. /\ \A k \in DOMAIN s : k \in DOMAIN w /\ w[k] = s[k]
      /\ \A k \in DOMAIN u : Len(s) + k \in DOMAIN w /\ w[Len(s) + k] = u[k]
      /\ \A k \in DOMAIN w :
           (k \in DOMAIN s /\ w[k] = s[k]) \/ (k - Len(s) \in DOMAIN u /\ w[k] = u[k - Len(s)])
  BY Joined
<1> HIDE DEF w
<1>2. ToSet(s) \subseteq ToSet(w) /\ ToSet(u) \subseteq ToSet(w)
  BY <1>1 DEF ToSet
<1>3. ToSet(w) \subseteq ToSet(s) \cup ToSet(u)
  BY <1>1 DEF ToSet
<1> QED
  BY <1>2, <1>3 DEF w

(* What is still to be done for a definition, by the list x of its calls.  *)
Applies(x, d) ==
  /\ x \in Seq(CallsOn(d.name))
  /\ Has(x, "setLevel", d.name) /\ Has(x, "clearAppenders", d.name)
  /\ d.formatter # NoFormat => Has(x, "setFormatter", d.name)
  /\ \A k \in DOMAIN x : On(x[k], "setLevel", d.name) => x[k].level = d.level
  /\ \A k \in DOMAIN x : On(x[k], "setFormatter", d.name) => x[k].formatter = d.formatter
  /\ \E e \in Nat : Due(x, d.name, d.appenders, e, Len(d.appenders))

(* Apply() does all that a definition says, in the order that keeps it.    *)
LEMMA ApplyShape ==
  ASSUME NEW d \in Definitions
  PROVE  Applies(Apply(d), d)
<1> DEFINE n == d.name
           q == d.appenders
           C == CallsOn(n)
           g == GetLogger(n)
           v == SetLevel(n, d.level)
           f == SetFormatter(n, d.formatter)
           c == ClearAppenders(n)
           s1 == <<g, v>>
           s2 == IF d.formatter = NoFormat THEN <<>> ELSE <<f>>
           s3 == <<c>>
           s4 == [k \in DOMAIN q |-> AddNew(n, q[k])]
           P == {g, v, c} \cup (IF d.formatter = NoFormat THEN {} ELSE {f})
<1>1. /\ n \in Named /\ d.level \in Levels /\ d.formatter \in Formats \cup {NoFormat}
      /\ q \in Seq(AppenderDefs)
  BY DefinitionFields
<1>2. g \in C /\ v \in C /\ c \in C
  BY <1>1 DEF CallsOn, ListenerCalls, NamedOps, GetLogger, SetLevel, ClearAppenders
<1>3. d.formatter # NoFormat => f \in C
  BY <1>1 DEF CallsOn, ListenerCalls, SetFormatter
<1>4. \A ad \in AppenderDefs : AddNew(n, ad) \in C
  BY <1>1 DEF CallsOn, ListenerCalls, AddNew
<1>5. /\ g.op = "getLogger"
      /\ v.op = "setLevel" /\ v.name = n /\ v.level = d.level
      /\ c.op = "clearAppenders" /\ c.name = n
      /\ f.op = "setFormatter" /\ f.name = n /\ f.formatter = d.formatter
  BY DEF GetLogger, SetLevel, SetFormatter, ClearAppenders
<1>6. Len(q) \in Nat /\ DOMAIN q = 1..Len(q) /\ \A k \in DOMAIN q : q[k] \in AppenderDefs
  BY <1>1, ElementOfSeq, LenProperties
<1>7. s4 \in Seq(C) /\ DOMAIN s4 = 1..Len(q) /\ \A k \in 1..Len(q) : s4[k] = AddNew(n, q[k]) /\ s4[k].op = "addAppender"
  <2>1. s4 \in [1..Len(q) -> C]
    BY <1>4, <1>6
  <2>2. \A k \in 1..Len(q) : AddNew(n, q[k]).op = "addAppender"
    BY DEF AddNew
  <2>3. s4 \in Seq(C)
    <3> HIDE DEF s4, C
    <3> QED
      BY <1>6, <2>1, SeqDef
  <2> QED
    BY <1>6, <2>2, <2>3
<1>8. Apply(d) = s1 \o s2 \o s3 \o s4
  BY DEF Apply
<1>9. /\ s1 \in Seq(C) /\ s2 \in Seq(C) /\ s3 \in Seq(C)
      /\ ToSet(s1) = {g, v} /\ ToSet(s3) = {c}
      /\ ToSet(s2) = IF d.formatter = NoFormat THEN {} ELSE {f}
  <2> HIDE DEF g, v, f, c, C
  <2>1. <<g, v>> \in Seq(C) /\ <<c>> \in Seq(C) /\ (d.formatter # NoFormat => <<f>> \in Seq(C)) /\ <<>> \in Seq(C)
    BY <1>2, <1>3
  <2>2. ToSet(<<g, v>>) = {g, v} /\ ToSet(<<c>>) = {c} /\ ToSet(<<f>>) = {f}
    BY DEF ToSet
  <2>3. ToSet(<<>>) = {}
    BY DEF ToSet
  <2> QED
    BY <2>1, <2>2, <2>3
<1> DEFINE w1 == s1 \o s2
           w == w1 \o s3
           x == w \o s4
<1> HIDE DEF s1, s2, s3, s4, g, v, f, c, C
<1>10. w1 \in Seq(C) /\ ToSet(w1) = ToSet(s1) \cup ToSet(s2)
  BY <1>9, JoinedSet, Joined
<1> HIDE DEF w1
<1>11. w \in Seq(C) /\ ToSet(w) = P
  <2>1. w \in Seq(C)
    BY <1>9, <1>10, Joined
  <2>2. ToSet(w) = ToSet(w1) \cup ToSet(s3)
    <3> HIDE DEF P
    <3> QED
      BY <1>9, <1>10, JoinedSet
  <2> HIDE DEF w
  <2> QED
    BY <1>9, <1>10, <2>1, <2>2
<1> HIDE DEF w
<1>12. /\ x \in Seq(C) /\ Len(w) \in Nat /\ Len(x) = Len(w) + Len(s4) /\ Len(s4) = Len(q) /\ DOMAIN x = 1..Len(x)
       /\ \A k \in DOMAIN w : k \in DOMAIN x /\ x[k] = w[k]
       /\ \A k \in DOMAIN s4 : Len(w) + k \in DOMAIN x /\ x[Len(w) + k] = s4[k]
       /\ \A k \in DOMAIN x :
            (k \in DOMAIN w /\ x[k] = w[k]) \/ (k - Len(w) \in DOMAIN s4 /\ x[k] = s4[k - Len(w)])
       /\ DOMAIN w = 1..Len(w)
  <2>1. Len(s4) = Len(q)
    BY <1>6, <1>7, LenProperties
  <2> QED
    <3> HIDE DEF P
    <3>1. w \in Seq(C) /\ s4 \in Seq(C)
      BY <1>7, <1>11
    <3>2. DOMAIN w = 1..Len(w) /\ x \in Seq(C)
      BY <3>1, Joined, LenProperties
    <3>3. DOMAIN x = 1..Len(x)
      <4> HIDE DEF x
      <4> QED
        BY <3>2, LenProperties
    <3>4. /\ Len(w) \in Nat /\ Len(x) = Len(w) + Len(s4)
          /\ \A k \in DOMAIN w : k \in DOMAIN x /\ x[k] = w[k]
          /\ \A k \in DOMAIN s4 : Len(w) + k \in DOMAIN x /\ x[Len(w) + k] = s4[k]
      BY <3>1, Joined
    <3>5. \A k \in DOMAIN x :
            (k \in DOMAIN w /\ x[k] = w[k]) \/ (k - Len(w) \in DOMAIN s4 /\ x[k] = s4[k - Len(w)])
      BY <3>1, Joined
    <3> HIDE DEF x
    <3> QED
      BY <2>1, <3>1, <3>2, <3>3, <3>4, <3>5
<1>13. x = Apply(d)
  BY <1>8 DEF x, w, w1
<1> HIDE DEF x
<1>14. \A k \in DOMAIN w : w[k] \in P
  BY <1>11 DEF ToSet
<1>15. \A y \in P : \E k \in DOMAIN x : x[k] = y
  <2> HIDE DEF P
  <2>1. ASSUME NEW y \in P PROVE \E k \in DOMAIN x : x[k] = y
    <3>1. PICK k \in DOMAIN w : w[k] = y
      BY <1>11, <2>1 DEF ToSet
    <3> QED
      BY <1>12, <3>1
  <2> QED
    BY <2>1
<1>16. \A y \in P : y.op # "addAppender" /\ (y.op = "setLevel" => y = v) /\ (y.op = "setFormatter" => y = f)
  BY <1>5
<1>17. ASSUME NEW k \in DOMAIN x
       PROVE  \/ k <= Len(w) /\ x[k] \in P
              \/ Len(w) < k /\ k - Len(w) \in 1..Len(q) /\ x[k] = AddNew(n, q[k - Len(w)]) /\ x[k].op = "addAppender"
  BY <1>7, <1>12, <1>14
<1>18. Has(x, "setLevel", n) /\ Has(x, "clearAppenders", n) /\ (d.formatter # NoFormat => Has(x, "setFormatter", n))
  <2>1. v \in P /\ c \in P /\ (d.formatter # NoFormat => f \in P)
    OBVIOUS
  <2> HIDE DEF P
  <2> QED
    BY <1>5, <1>15, <2>1 DEF Has, On
<1> HIDE DEF P
<1>19. /\ \A k \in DOMAIN x : On(x[k], "setLevel", n) => x[k].level = d.level
       /\ \A k \in DOMAIN x : On(x[k], "setFormatter", n) => x[k].formatter = d.formatter
  BY <1>5, <1>16, <1>17 DEF On
<1>20. Due(x, n, q, Len(w), Len(q))
  <2>1. Len(w) \in Nat /\ Len(q) \in 0..Len(q) /\ Len(w) + Len(q) <= Len(x)
    BY <1>6, <1>12
  <2>2. ASSUME NEW k \in DOMAIN x, On(x[k], "addAppender", n) PROVE Len(w) < k /\ k <= Len(w) + Len(q)
    BY <1>6, <1>12, <1>16, <1>17, <2>2 DEF On
  <2>3. ASSUME NEW i \in 1..Len(q) PROVE x[Len(w) + i] = AddNew(n, q[Len(q) - Len(q) + i])
    <3>1. x[Len(w) + i] = AddNew(n, q[i])
      BY <1>7, <1>12
    <3>2. Len(q) - Len(q) + i = i
      BY <1>6
    <3> QED
      BY <3>1, <3>2
  <2>4. ASSUME NEW k \in DOMAIN x, On(x[k], "clearAppenders", n) PROVE k <= Len(w) /\ Len(q) = Len(q)
    BY <1>17, <2>4 DEF On
  <2> QED
    BY <2>1, <2>2, <2>3, <2>4 DEF Due
<1>21. Applies(x, d)
  BY <1>12, <1>18, <1>19, <1>20 DEF Applies, C
<1> QED
  BY <1>13, <1>21

(* What a removal does.                                                    *)
LEMMA RetireShape ==
  ASSUME NEW n \in Named
  PROVE  /\ Retire(n) \in Seq(CallsOn(n)) /\ Has(Retire(n), "clearAppenders", n)
         /\ Due(Retire(n), n, <<>>, 3, 0)
<1> DEFINE g == GetLogger(n)
           v == SetLevel(n, 0)
           c == ClearAppenders(n)
<1>1. g \in CallsOn(n) /\ v \in CallsOn(n) /\ c \in CallsOn(n)
  BY Constants DEF CallsOn, ListenerCalls, NamedOps, GetLogger, SetLevel, ClearAppenders
<1>2. /\ g.op # "addAppender" /\ v.op # "addAppender" /\ c.op = "clearAppenders" /\ c.name = n
  BY DEF GetLogger, SetLevel, ClearAppenders
<1> HIDE DEF g, v, c
<1>3. Retire(n) = <<g, v, c>>
  BY DEF Retire, g, v, c
<1> DEFINE x == <<g, v, c>>
<1>4. x \in Seq(CallsOn(n)) /\ DOMAIN x = 1..3 /\ Len(x) = 3 /\ x[1] = g /\ x[2] = v /\ x[3] = c
  BY <1>1
<1> HIDE DEF x
<1>5. Has(x, "clearAppenders", n)
  BY <1>2, <1>4 DEF Has, On
<1>6. Due(x, n, <<>>, 3, 0)
  <2>1. \A k \in DOMAIN x : x[k].op # "addAppender" /\ k <= 3
    BY <1>2, <1>4
  <2>2. Len(<<>>) = 0
    OBVIOUS
  <2> QED
    BY <1>4, <2>1, <2>2 DEF Due, On
<1> QED
  BY <1>3, <1>4, <1>5, <1>6 DEF x

(* Calls on one logger leave the others alone, and so do those that log;   *)
(* a list around nothing leaves the logger alone.                          *)
LEMMA LeftAlone ==
  ASSUME NEW n
  PROVE  /\ <<>> \in Clean(n) /\ <<>> \in Seq(ListenerCalls)
         /\ \A v \in {INFO, ERROR} : <<LogTo(Root, v)>> \in Clean(n)
         /\ \A m : m # n => Seq(CallsOn(m)) \subseteq Clean(n)
         /\ \A m : Seq(CallsOn(m)) \subseteq Seq(ListenerCalls)
         /\ \A cs : cs \in Clean(n) => Within(cs, <<>>, n)
<1>1. ASSUME NEW v \in {INFO, ERROR} PROVE <<LogTo(Root, v)>> \in Clean(n)
  <2> DEFINE c == LogTo(Root, v)
  <2>1. c \in ListenerCalls /\ c.op \notin Changes
    BY DEF ListenerCalls, LogTo, Changes
  <2> HIDE DEF c
  <2>2. c \in Leaves(n)
    BY <2>1 DEF Leaves
  <2>3. <<c>> \in Seq(Leaves(n))
    BY <2>2
  <2> QED
    BY <2>3 DEF Clean, c
<1>2. ASSUME NEW m, m # n PROVE Seq(CallsOn(m)) \subseteq Clean(n)
  <2>1. CallsOn(m) \subseteq Leaves(n)
    BY <1>2 DEF CallsOn, Leaves, Changes, NamedOps
  <2> QED
    BY <2>1, SeqMonotonic DEF Clean
<1>3. ASSUME NEW m PROVE Seq(CallsOn(m)) \subseteq Seq(ListenerCalls)
  <2>1. CallsOn(m) \subseteq ListenerCalls
    BY DEF CallsOn
  <2> QED
    BY <2>1, SeqMonotonic
<1>4. ASSUME NEW cs \in Clean(n) PROVE Within(cs, <<>>, n)
  <2>1. cs \in Seq(Leaves(n)) /\ Leaves(n) \subseteq ListenerCalls
    BY DEF Clean, Leaves
  <2>2. cs \in Seq(ListenerCalls)
    BY <2>1, SeqMonotonic
  <2>3. Len(cs) \in Nat /\ \A k \in DOMAIN cs : cs[k] \in Leaves(n)
    BY <2>1, ElementOfSeq, LenProperties
  <2>4. Len(<<>>) = 0 /\ DOMAIN <<>> = {}
    OBVIOUS
  <2>5. After(cs, <<>>, 0, n)
    BY <2>3, <2>4 DEF After
  <2> QED
    BY <2>2, <2>5 DEF Within
<1>5. <<>> \in Clean(n) /\ <<>> \in Seq(ListenerCalls)
  BY DEF Clean
<1> QED
  BY <1>1, <1>2, <1>3, <1>4, <1>5

(* A list around nothing leaves the logger alone.                          *)
LEMMA AroundNothing ==
  ASSUME NEW n, NEW cs, Within(cs, <<>>, n)
  PROVE  cs \in Clean(n)
<1>1. PICK o \in Nat : After(cs, <<>>, o, n)
  BY DEF Within
<1>2. DOMAIN <<>> = {} /\ cs \in Seq(ListenerCalls)
  BY DEF Within
<1>3. \A k \in DOMAIN cs : cs[k] \in Leaves(n)
  BY <1>1, <1>2 DEF After
<1>4. Len(cs) \in Nat /\ DOMAIN cs = 1..Len(cs) /\ cs \in [1..Len(cs) -> ListenerCalls]
  BY <1>2, LenProperties
<1>5. cs \in [1..Len(cs) -> Leaves(n)]
  BY <1>3, <1>4
<1> QED
  BY <1>4, <1>5, SeqDef DEF Clean

(* What the listener does to a logger: what its definition says, what a    *)
(* removal does, or nothing.                                               *)
LEMMA ListenerWithin ==
  ASSUME NEW old \in SUBSET Definitions, NEW new \in SUBSET Definitions,
         \A x, y \in new : x.name = y.name => x = y, NEW n \in Named
  PROVE  /\ \A d \in new \ old : d.name = n => Within(Listener(old, new), Apply(d), n)
         /\ n \in NamesOf(old) \ NamesOf(new) => Within(Listener(old, new), Retire(n), n)
         /\ n \notin NamesOf(new \ old) \cup (NamesOf(old) \ NamesOf(new)) => Listener(old, new) \in Clean(n)
<1> DEFINE A == Seq(ListenerCalls)
           ToApply(m) == LET ds == {x \in new \ old : x.name = m}
                         IN IF ds = {} THEN <<>> ELSE Apply(CHOOSE x \in ds : TRUE)
           ToRetire(m) == IF m \in NamesOf(old) \ NamesOf(new) THEN Retire(m) ELSE <<>>
           s1 == <<LogTo(Root, INFO)>>
           s2 == [k \in DOMAIN NameOrder |-> ToApply(NameOrder[k])]
           s3 == [k \in DOMAIN NameOrder |-> ToRetire(NameOrder[k])]
<1>1. Listener(old, new) = s1 \o FlattenSeq(s2) \o FlattenSeq(s3)
  BY Zenon DEF Listener
<1>2. PICK j \in DOMAIN NameOrder : NameOrder[j] = n
  BY NamedApart
<1>3. /\ Len(NameOrder) \in Nat /\ DOMAIN NameOrder = 1..Len(NameOrder)
      /\ \A k \in DOMAIN NameOrder : NameOrder[k] \in Named /\ (k # j => NameOrder[k] # n)
  BY <1>2, NamedApart, ElementOfSeq, LenProperties
<1>4. ASSUME NEW m \in Named
      PROVE  /\ ToApply(m) \in Seq(CallsOn(m)) /\ ToRetire(m) \in Seq(CallsOn(m))
             /\ \A d \in new \ old : d.name = m => ToApply(m) = Apply(d)
             /\ m \notin NamesOf(new \ old) => ToApply(m) = <<>>
  <2> DEFINE ds == {x \in new \ old : x.name = m}
  <2>1. ASSUME NEW d \in ds PROVE ToApply(m) = Apply(d) /\ Apply(d) \in Seq(CallsOn(m))
    <3>1. \A x \in ds : x = d
      OBVIOUS
    <3>2. (CHOOSE x \in ds : TRUE) = d
      BY <2>1, <3>1
    <3>3. Applies(Apply(d), d) /\ d.name = m
      BY <2>1, ApplyShape
    <3> QED
      BY <3>2, <3>3 DEF Applies
  <2>2. ds = {} => ToApply(m) = <<>>
    OBVIOUS
  <2>3. <<>> \in Seq(CallsOn(m))
    OBVIOUS
  <2>4. ToRetire(m) \in Seq(CallsOn(m))
    BY <1>4, <2>3, RetireShape
  <2>5. m \notin NamesOf(new \ old) => ds = {}
    BY DEF NamesOf
  <2> HIDE DEF ToApply, ToRetire
  <2> QED
    BY <2>1, <2>2, <2>3, <2>4, <2>5
<1>5. n \in NamesOf(old) \ NamesOf(new) => ToRetire(n) = Retire(n) /\ n \notin NamesOf(new \ old)
  BY DEF NamesOf
<1>6. n \notin NamesOf(old) \ NamesOf(new) => ToRetire(n) = <<>>
  OBVIOUS
<1>7. \A d \in new \ old : d.name = n => n \notin NamesOf(old) \ NamesOf(new)
  BY DEF NamesOf
<1> HIDE DEF ToApply, ToRetire
<1>8. /\ s2 \in Seq(A) /\ DOMAIN s2 = DOMAIN NameOrder /\ s2[j] = ToApply(n)
      /\ \A i \in DOMAIN s2 : i # j => s2[i] \in Clean(n)
  <2>1. ASSUME NEW k \in DOMAIN NameOrder
        PROVE  ToApply(NameOrder[k]) \in A /\ (k # j => ToApply(NameOrder[k]) \in Clean(n))
    BY <1>3, <1>4, LeftAlone
  <2>2. s2 \in [1..Len(NameOrder) -> A]
    BY <1>3, <2>1
  <2>3. s2 \in Seq(A)
    <3> HIDE DEF s2, A
    <3> QED
      BY <1>3, <2>2, SeqDef
  <2> QED
    BY <1>2, <2>1, <2>3
<1>9. /\ s3 \in Seq(A) /\ DOMAIN s3 = DOMAIN NameOrder /\ s3[j] = ToRetire(n)
      /\ \A i \in DOMAIN s3 : i # j => s3[i] \in Clean(n)
  <2>1. ASSUME NEW k \in DOMAIN NameOrder
        PROVE  ToRetire(NameOrder[k]) \in A /\ (k # j => ToRetire(NameOrder[k]) \in Clean(n))
    BY <1>3, <1>4, LeftAlone
  <2>2. s3 \in [1..Len(NameOrder) -> A]
    BY <1>3, <2>1
  <2>3. s3 \in Seq(A)
    <3> HIDE DEF s3, A
    <3> QED
      BY <1>3, <2>2, SeqDef
  <2> QED
    BY <1>2, <2>1, <2>3
<1>10. s1 \in Clean(n)
  BY LeftAlone
<1> DEFINE u == FlattenSeq(s2)
           v == FlattenSeq(s3)
           a == ToApply(n)
           r == ToRetire(n)
<1> HIDE DEF s1, s2, s3, A
<1>11. Within(u, a, n) /\ Within(v, r, n)
  BY <1>8, <1>9, FlattenWithin DEF A
<1>12. a \in Seq(ListenerCalls) /\ r \in Seq(ListenerCalls)
  BY <1>4, LeftAlone
<1> HIDE DEF u, v, a, r
<1>13. Within(s1 \o u, a, n)
  BY <1>10, <1>11, <1>12, WithinMore
<1>14. r = <<>> => Within(s1 \o u \o v, a, n)
  BY <1>11, <1>12, <1>13, AroundNothing, WithinMore
<1>15. a = <<>> => Within(s1 \o u \o v, r, n)
  BY <1>11, <1>12, <1>13, AroundNothing, WithinMore
<1>16. Listener(old, new) = s1 \o u \o v
  BY <1>1 DEF u, v
<1>17. ASSUME NEW d \in new \ old, d.name = n PROVE Within(Listener(old, new), Apply(d), n)
  BY <1>4, <1>6, <1>7, <1>14, <1>16, <1>17 DEF a, r
<1>18. ASSUME n \in NamesOf(old) \ NamesOf(new) PROVE Within(Listener(old, new), Retire(n), n)
  BY <1>4, <1>5, <1>15, <1>16, <1>18 DEF a, r
<1>19. ASSUME n \notin NamesOf(new \ old) \cup (NamesOf(old) \ NamesOf(new)) PROVE Listener(old, new) \in Clean(n)
  BY <1>4, <1>6, <1>15, <1>16, <1>19, AroundNothing DEF a, r
<1> QED
  BY <1>17, <1>18, <1>19

(* Between loads, the appenders are there.                                 *)
LEMMA Settled ==
  ASSUME calls[Loader] = <<>>, NEW n, NEW T, NEW ads \in Seq(T), AppendersDue(n, ads)
  PROVE  Shows(n, ads, Len(ads))
<1>1. PICK e \in 0..Len(calls[Loader]), m \in 0..Len(ads) :
        /\ Due(calls[Loader], n, ads, e, m)
        /\ Has(calls[Loader], "clearAppenders", n) \/ Shows(n, ads, Len(ads) - m)
  BY DEF AppendersDue
<1>2. Len(calls[Loader]) = 0 /\ DOMAIN calls[Loader] = {} /\ Len(ads) \in Nat
  BY LenProperties
<1>3. e = 0 /\ m = 0
  BY <1>1, <1>2 DEF Due
<1>4. ~Has(calls[Loader], "clearAppenders", n)
  BY <1>2 DEF Has
<1>5. Shows(n, ads, Len(ads) - 0)
  BY <1>1, <1>3, <1>4
<1>6. Len(ads) - 0 = Len(ads)
  BY <1>2
<1> QED
  BY <1>5, <1>6

(* A list that leaves a logger alone leaves nothing to be done there.      *)
LEMMA NothingDue ==
  ASSUME NEW n, NEW cs \in Clean(n)
  PROVE  /\ \A op \in Changes : ~Has(cs, op, n) /\ \A k \in DOMAIN cs : ~On(cs[k], op, n)
         /\ \A ads : Len(ads) \in Nat => 0 \in 0..Len(cs) /\ 0 \in 0..Len(ads) /\ Due(cs, n, ads, 0, 0)
<1>1. cs \in Seq(Leaves(n)) /\ Len(cs) \in Nat /\ \A k \in DOMAIN cs : cs[k] \in Leaves(n)
  BY ElementOfSeq, LenProperties DEF Clean
<1>2. ASSUME NEW op \in Changes PROVE ~Has(cs, op, n) /\ \A k \in DOMAIN cs : ~On(cs[k], op, n)
  BY <1>1 DEF Has, On, Leaves
<1>3. ASSUME NEW ads, Len(ads) \in Nat PROVE 0 \in 0..Len(cs) /\ 0 \in 0..Len(ads) /\ Due(cs, n, ads, 0, 0)
  BY <1>1, <1>2, <1>3 DEF Due, Changes
<1> QED
  BY <1>2, <1>3

(* A load that leaves a logger alone keeps what is said of it,             *)
LEMMA DueKept ==
  ASSUME calls[Loader] = <<>>, logger' = logger, appender' = appender, NEW n, calls'[Loader] \in Clean(n)
  PROVE  /\ \A d \in Definitions : d.name = n =>
              /\ LevelDue(d) => LevelDue(d)'
              /\ FormatterDue(d) => FormatterDue(d)'
              /\ AppendersDue(n, d.appenders) => AppendersDue(n, d.appenders)'
         /\ AppendersDue(n, <<>>) => AppendersDue(n, <<>>)'
<1> DEFINE cs == calls'[Loader]
<1>1. /\ \A op \in Changes : ~Has(cs, op, n) /\ \A k \in DOMAIN cs : ~On(cs[k], op, n)
      /\ \A ads : Len(ads) \in Nat => 0 \in 0..Len(cs) /\ 0 \in 0..Len(ads) /\ Due(cs, n, ads, 0, 0)
  BY NothingDue
<1>2. \A op : ~Has(calls[Loader], op, n)
  BY DEF Has
<1>3. ASSUME NEW T, NEW ads \in Seq(T), AppendersDue(n, ads) PROVE AppendersDue(n, ads)'
  <2>1. Shows(n, ads, Len(ads)) /\ Len(ads) \in Nat
    BY <1>3, Settled, LenProperties
  <2>2. Len(ads) - 0 = Len(ads)
    BY <2>1
  <2>3. Shows(n, ads, Len(ads) - 0)'
    BY <2>1, <2>2 DEF Shows
  <2> QED
    BY <1>1, <2>1, <2>3 DEF AppendersDue
<1>4. ASSUME NEW d \in Definitions, d.name = n, LevelDue(d) PROVE LevelDue(d)'
  BY <1>1, <1>2, <1>4 DEF LevelDue, Changes
<1>5. ASSUME NEW d \in Definitions, d.name = n, FormatterDue(d) PROVE FormatterDue(d)'
  BY <1>1, <1>2, <1>5 DEF FormatterDue, Changes
<1>6. ASSUME NEW d \in Definitions, AppendersDue(n, d.appenders) PROVE AppendersDue(n, d.appenders)'
  BY <1>3, <1>6, DefinitionFields
<1>7. <<>> \in Seq({})
  OBVIOUS
<1> QED
  BY <1>3, <1>4, <1>5, <1>6, <1>7

(* one that applies a definition is to do all that it says,                *)
LEMMA DueApplied ==
  ASSUME NEW d \in Definitions, Within(calls'[Loader], Apply(d), d.name)
  PROVE  LevelDue(d)' /\ FormatterDue(d)' /\ AppendersDue(d.name, d.appenders)'
<1> DEFINE cs == calls'[Loader]
           x == Apply(d)
           n == d.name
<1>1. Applies(x, d)
  BY ApplyShape
<1> HIDE DEF x
<1>2. x \in Seq(ListenerCalls)
  BY <1>1, LeftAlone DEF Applies
<1>3. /\ cs \in Seq(ListenerCalls)
      /\ \A op \in Changes : \A k \in DOMAIN cs : On(cs[k], op, n) => \E j \in DOMAIN x : cs[k] = x[j]
      /\ \A op \in Changes : Has(cs, op, n) <=> Has(x, op, n)
      /\ \A ads, e, m : Due(x, n, ads, e, m) => \E f \in 0..Len(cs) : Due(cs, n, ads, f, m)
  <2>1. Within(cs, x, n)
    BY DEF x
  <2> QED
    BY <1>2, <2>1, WithinDoes
<1>4. LevelDue(d)'
  <2>1. Has(cs, "setLevel", n)
    BY <1>1, <1>3 DEF Applies, Changes
  <2>2. ASSUME NEW k \in DOMAIN cs, On(cs[k], "setLevel", n) PROVE cs[k].level = d.level
    <3>1. PICK j \in DOMAIN x : cs[k] = x[j]
      BY <1>3, <2>2 DEF Changes
    <3> QED
      BY <1>1, <2>2, <3>1 DEF Applies
  <2> QED
    BY <2>1, <2>2 DEF LevelDue
<1>5. FormatterDue(d)'
  <2>1. d.formatter # NoFormat => Has(cs, "setFormatter", n)
    BY <1>1, <1>3 DEF Applies, Changes
  <2>2. ASSUME NEW k \in DOMAIN cs, On(cs[k], "setFormatter", n) PROVE cs[k].formatter = d.formatter
    <3>1. PICK j \in DOMAIN x : cs[k] = x[j]
      BY <1>3, <2>2 DEF Changes
    <3> QED
      BY <1>1, <2>2, <3>1 DEF Applies
  <2> QED
    BY <2>1, <2>2 DEF FormatterDue
<1>6. AppendersDue(n, d.appenders)'
  <2>1. PICK e \in Nat : Due(x, n, d.appenders, e, Len(d.appenders))
    BY <1>1 DEF Applies
  <2>2. PICK f \in 0..Len(cs) : Due(cs, n, d.appenders, f, Len(d.appenders))
    BY <1>3, <2>1
  <2>3. Len(d.appenders) \in 0..Len(d.appenders)
    BY DefinitionFields, LenProperties
  <2>4. Has(cs, "clearAppenders", n)
    BY <1>1, <1>3 DEF Applies, Changes
  <2> QED
    BY <2>2, <2>3, <2>4 DEF AppendersDue
<1> QED
  BY <1>4, <1>5, <1>6

(* and one that removes it is to clear its appenders.                      *)
LEMMA DueRetired ==
  ASSUME NEW n \in Named, Within(calls'[Loader], Retire(n), n)
  PROVE  AppendersDue(n, <<>>)'
<1> DEFINE cs == calls'[Loader]
           x == Retire(n)
<1>1. x \in Seq(CallsOn(n)) /\ Has(x, "clearAppenders", n) /\ Due(x, n, <<>>, 3, 0)
  BY RetireShape
<1> HIDE DEF x
<1>2. x \in Seq(ListenerCalls)
  BY <1>1, LeftAlone
<1>3. /\ \A op \in Changes : Has(cs, op, n) <=> Has(x, op, n)
      /\ \A ads, e, m : Due(x, n, ads, e, m) => \E f \in 0..Len(cs) : Due(cs, n, ads, f, m)
  <2>1. Within(cs, x, n)
    BY DEF x
  <2> QED
    BY <1>2, <2>1, WithinDoes
<1>4. PICK f \in 0..Len(cs) : Due(cs, n, <<>>, f, 0)
  BY <1>1, <1>3
<1>5. Has(cs, "clearAppenders", n)
  BY <1>1, <1>3 DEF Changes
<1>6. 0 \in 0..Len(<<>>)
  OBVIOUS
<1> QED
  BY <1>4, <1>5, <1>6 DEF AppendersDue

(* A load leaves to do what its document says.                             *)
LEMMA DuesLoad ==
  ASSUME CoreInv, DuesInv, NEW doc \in Documents, Load(doc)
  PROVE  DuesInv'
<1> DEFINE new == {ToDefine(node) : node \in doc}
           fails == \E node \in doc : Throws(node)
           old == defines
<1>1. /\ defines' = IF fails THEN old ELSE new
      /\ calls' = [calls EXCEPT ![Loader] = IF fails THEN <<LogTo(Root, ERROR)>>
                                            ELSE IF new = old THEN <<>> ELSE Listener(old, new)]
      /\ calls[Loader] = <<>> /\ logger' = logger /\ appender' = appender
  BY DEF Load
<1>2. /\ calls \in [Actors -> Seq(AnyCall)] /\ Loader \in Actors /\ old \subseteq Definitions
      /\ defines' \subseteq Definitions
  BY LoadCalls, Constants DEF Load, CoreInv, TypeInv, CallsTyped, DataTyped
<1>3. \A x, y \in new : x.name = y.name => x = y
  <2>1. \A node \in doc : ToDefine(node).name = node.name
    BY DEF ToDefine
  <2>2. \A x, y \in doc : x.name = y.name => x = y
    BY LogAssumption
  <2> QED
    BY <2>1, <2>2
<1>4. /\ \A d \in old : LevelDue(d) /\ FormatterDue(d) /\ AppendersDue(d.name, d.appenders)
      /\ \A n \in Managed \ NamesOf(old) : AppendersDue(n, <<>>)
  BY DEF DuesInv
<1> HIDE DEF new, fails
<1>5. calls'[Loader] = IF fails THEN <<LogTo(Root, ERROR)>> ELSE IF new = old THEN <<>> ELSE Listener(old, new)
  BY <1>1, <1>2
<1>6. CASE fails \/ new = old
  <2>1. defines' = old
    BY <1>1, <1>6
  <2>2. \A n : calls'[Loader] \in Clean(n)
    BY <1>5, <1>6, LeftAlone
  <2>3. ASSUME NEW d \in old PROVE LevelDue(d)' /\ FormatterDue(d)' /\ AppendersDue(d.name, d.appenders)'
    BY <1>1, <1>2, <1>4, <2>2, DueKept
  <2>4. ASSUME NEW n \in Managed \ NamesOf(old) PROVE AppendersDue(n, <<>>)'
    BY <1>1, <1>4, <2>2, DueKept
  <2> QED
    BY <2>1, <2>3, <2>4 DEF DuesInv, NamesOf
<1>7. CASE ~fails /\ new # old
  <2>1. defines' = new /\ calls'[Loader] = Listener(old, new) /\ new \subseteq Definitions
    BY <1>1, <1>2, <1>5, <1>7
  <2>2. ASSUME NEW n \in Named
        PROVE  /\ \A d \in new \ old : d.name = n => Within(Listener(old, new), Apply(d), n)
               /\ n \in NamesOf(old) \ NamesOf(new) => Within(Listener(old, new), Retire(n), n)
               /\ n \notin NamesOf(new \ old) \cup (NamesOf(old) \ NamesOf(new)) => Listener(old, new) \in Clean(n)
    BY <1>2, <1>3, <2>1, ListenerWithin
  <2>3. ASSUME NEW d \in new PROVE LevelDue(d)' /\ FormatterDue(d)' /\ AppendersDue(d.name, d.appenders)'
    <3>1. d \in Definitions /\ d.name \in Named
      BY <2>1, DefinitionFields
    <3>2. CASE d \notin old
      BY <2>1, <2>2, <3>1, <3>2, DueApplied
    <3>3. CASE d \in old
      <4>1. d.name \notin NamesOf(new \ old) \cup (NamesOf(old) \ NamesOf(new))
        BY <1>3, <3>3 DEF NamesOf
      <4>2. calls'[Loader] \in Clean(d.name)
        BY <2>1, <2>2, <3>1, <4>1
      <4> QED
        BY <1>1, <1>4, <3>1, <3>3, <4>2, DueKept
    <3> QED
      BY <3>2, <3>3
  <2>4. ASSUME NEW n \in Managed \ NamesOf(new) PROVE AppendersDue(n, <<>>)'
    <3>1. n \in Named
      BY NamedApart
    <3>2. CASE n \in NamesOf(old)
      BY <2>1, <2>2, <3>1, <3>2, DueRetired
    <3>3. CASE n \notin NamesOf(old)
      <4>1. n \notin NamesOf(new \ old)
        BY DEF NamesOf
      <4>2. calls'[Loader] \in Clean(n)
        BY <2>1, <2>2, <3>1, <3>3, <4>1
      <4> QED
        BY <1>1, <1>4, <3>3, <4>2, DueKept
    <3> QED
      BY <3>2, <3>3
  <2> QED
    BY <2>1, <2>3, <2>4 DEF DuesInv, NamesOf
<1> QED
  BY <1>6, <1>7

(* The parts are kept by every step within a call,                         *)
LEMMA ListenerStep ==
  ASSUME CoreInv, CoreInv', OwnerInv, PlaceInv, ListenerInv, NEW t \in Actors, Step(t)
  PROVE  ListenerInv'
<1>1. FreshInv' /\ SpareInv' /\ PushDue'
  BY FreshStep, SpareStep, PushStep DEF ListenerInv
<1>2. defines' = defines /\ defines \subseteq Definitions
  BY DEF CoreInv, TypeInv, DataTyped, Step, Lookup, YamlBegin, YamlLogger, Macro, Recheck, Enter, RootCheck,
     RootEnter, Deliver, Leave, SetLevelOf, SetFormatterOf, Clear, Del, AddBegin, AddEnd, SetOwn
<1>3. ASSUME NEW d \in defines PROVE LevelDue(d)' /\ FormatterDue(d)' /\ AppendersDue(d.name, d.appenders)'
  <2>1. d \in Definitions /\ d.name \in Named /\ d.appenders \in Seq(AppenderDefs)
    BY <1>2, DefinitionFields
  <2>2. LevelDue(d) /\ FormatterDue(d) /\ AppendersDue(d.name, d.appenders)
    BY DEF ListenerInv, DuesInv
  <2> QED
    BY <2>1, <2>2, LevelStep, FormatterStep, AppendersStep DEF ListenerInv
<1>4. ASSUME NEW n \in Managed \ NamesOf(defines) PROVE AppendersDue(n, <<>>)'
  <2>1. n \in Named /\ <<>> \in Seq({})
    BY NamedApart
  <2>2. AppendersDue(n, <<>>)
    BY DEF ListenerInv, DuesInv
  <2> QED
    BY <2>1, <2>2, AppendersStep DEF ListenerInv
<1> QED
  BY <1>1, <1>2, <1>3, <1>4 DEF ListenerInv, DuesInv, NamesOf

(* by every step,                                                          *)
LEMMA ListenerNext == CoreInv /\ OwnerInv /\ PlaceInv /\ ListenerInv /\ [Next]_vars => ListenerInv'
<1> SUFFICES ASSUME CoreInv, OwnerInv, PlaceInv, ListenerInv, [Next]_vars PROVE ListenerInv'
  OBVIOUS
<1>1. CoreInv' /\ TypeInv
  BY CoreNext DEF CoreInv
<1>2. ASSUME known' = known, logger' = logger PROVE FreshInv' /\ SpareInv'
  BY <1>2 DEF ListenerInv, FreshInv, SpareInv, In
<1>3. ASSUME calls'[Loader] = calls[Loader], logger' = logger, appender' = appender, defines' = defines
      PROVE  DuesInv'
  BY <1>3 DEF ListenerInv, DuesInv, LevelDue, FormatterDue, AppendersDue, Shows, NamesOf
<1>4. CASE UNCHANGED vars
  <2>1. PushDue'
    BY <1>4 DEF vars, ListenerInv, PushDue
  <2> QED
    BY <1>2, <1>3, <1>4, <2>1 DEF vars, ListenerInv
<1>5. ASSUME NEW t \in Users, Begin(t), Beginning(t) PROVE ListenerInv'
  <2>1. /\ known' = known /\ logger' = logger /\ appender' = appender /\ at' = at
        /\ calls'[Loader] = calls[Loader] /\ defines' = defines
    BY <1>5, Constants DEF Beginning, Begin
  <2>2. PushDue'
    BY <2>1 DEF ListenerInv, PushDue
  <2> QED
    BY <1>2, <1>3, <2>1, <2>2 DEF ListenerInv
<1>6. ASSUME NEW doc \in Documents, Load(doc), Beginning(Loader) PROVE ListenerInv'
  <2>1. known' = known /\ logger' = logger /\ at' = at /\ calls[Loader] = <<>>
    BY <1>6 DEF Beginning
  <2>2. at'[Loader].step = "start"
    BY <2>1, AtRest, Constants
  <2>3. PushDue'
    BY <2>2 DEF PushDue
  <2>4. DuesInv'
    BY <1>6, DuesLoad DEF ListenerInv
  <2> QED
    BY <1>2, <2>1, <2>3, <2>4 DEF ListenerInv
<1> QED
  BY <1>1, <1>4, <1>5, <1>6, Beginnings, ListenerStep

(* and hold in the beginning: nothing is defined.                          *)
LEMMA ListenerInit == Init => ListenerInv
<1> SUFFICES ASSUME Init PROVE ListenerInv
  OBVIOUS
<1> DEFINE l == [NewLogger EXCEPT !.appenders = <<1>>]
<1>1. l.appenders = <<1>> /\ NewLogger.appenders = <<>>
  BY DEF NewLogger
<1>2. /\ logger = [n \in Loggers |-> IF n = Root THEN l ELSE NewLogger]
      /\ known = {Root} /\ defines = {} /\ calls[Loader] = <<>> /\ at[Loader].step = "start"
  BY Constants DEF Init, AtStart
<1> HIDE DEF l
<1>3. logger[Root].appenders = <<1>> /\ \A n \in Loggers : n # Root => logger[n] = NewLogger
  BY <1>1, <1>2, Constants
<1>4. FreshInv
  BY <1>2, <1>3 DEF FreshInv
<1>5. SpareInv
  <2>1. ASSUME NEW n \in Named, NEW a, In(n, a) PROVE a = 1
    BY <1>1, <1>3, <2>1, NamedApart DEF In, ToSet
  <2> QED
    BY <2>1, Constants DEF SpareInv
<1>6. PushDue
  BY <1>2 DEF PushDue
<1>7. ASSUME NEW n \in Managed PROVE AppendersDue(n, <<>>)
  <2>1. logger[n].appenders = <<>>
    BY <1>1, <1>3, NamedApart
  <2>2. Shows(n, <<>>, Len(<<>>) - 0)
    BY <2>1 DEF Shows
  <2>3. <<>> \in Clean(n) /\ Len(<<>>) \in Nat
    BY LeftAlone
  <2>4. 0 \in 0..Len(calls[Loader]) /\ 0 \in 0..Len(<<>>) /\ Due(calls[Loader], n, <<>>, 0, 0)
    BY <1>2, <2>3, NothingDue
  <2> QED
    BY <2>2, <2>4 DEF AppendersDue
<1>8. DuesInv
  BY <1>2, <1>7 DEF DuesInv
<1> QED
  BY <1>4, <1>5, <1>6, <1>8 DEF ListenerInv

(* With nothing left to be done, all is as the definitions say.            *)
LEMMA AllDone == CoreInv /\ OwnerInv /\ ListenerInv /\ Inherits => DefinesApplied
<1> SUFFICES ASSUME CoreInv, OwnerInv, ListenerInv, Inherits, calls[Loader] = <<>>
             PROVE  /\ \A d \in defines :
                         /\ logger[d.name].level = d.level
                         /\ Len(logger[d.name].appenders) = Len(d.appenders)
                         /\ d.formatter # NoFormat /\ ~IsError(d.formatter) => logger[d.name].formatter = d.formatter
                         /\ \A k \in DOMAIN d.appenders :
                              LET a == appender[logger[d.name].appenders[k]]
                                  f == d.appenders[k].formatter
                              IN  /\ a.type = d.appenders[k].type
                                  /\ a.formatter = IF f # NoFormat /\ ~IsError(f) THEN f ELSE logger[d.name].formatter
                    /\ \A n \in Managed \ NamesOf(defines) : logger[n].appenders = <<>>
  BY DEF DefinesApplied
<1>0. TypeInv /\ defines \subseteq Definitions /\ \A op, n : ~Has(calls[Loader], op, n)
  BY DEF CoreInv, TypeInv, DataTyped, Has
<1>1. ASSUME NEW d \in defines
      PROVE  /\ logger[d.name].level = d.level
             /\ d.formatter # NoFormat /\ ~IsError(d.formatter) => logger[d.name].formatter = d.formatter
  BY <1>0 DEF ListenerInv, DuesInv, LevelDue, FormatterDue
<1>2. ASSUME NEW d \in defines PROVE Shows(d.name, d.appenders, Len(d.appenders))
  <2>1. AppendersDue(d.name, d.appenders)
    BY DEF ListenerInv, DuesInv
  <2> QED
    BY <1>0, <2>1, DefinitionFields, Settled
<1>3. ASSUME NEW d \in defines, NEW k \in DOMAIN d.appenders
      PROVE  LET a == appender[logger[d.name].appenders[k]]
                 f == d.appenders[k].formatter
             IN  /\ a.type = d.appenders[k].type
                 /\ a.formatter = IF f # NoFormat /\ ~IsError(f) THEN f ELSE logger[d.name].formatter
  <2> DEFINE b == logger[d.name].appenders[k]
  <2>1. k \in 1..Len(d.appenders)
    BY <1>0, DefinitionFields, LenProperties
  <2>2. MadeFor(appender[b], d.appenders[k]) /\ Len(logger[d.name].appenders) = Len(d.appenders)
    BY <1>2, <2>1 DEF Shows
  <2>3. d.name \in Loggers /\ logger[d.name].appenders \in Seq(AppenderIds)
    BY <1>0, DefinitionFields, NamedApart, LoggerFields
  <2>4. b \in ToSet(logger[d.name].appenders)
    BY <2>1, <2>2, <2>3, LenProperties DEF ToSet
  <2>5. ~appender[b].own => appender[b].formatter = logger[d.name].formatter
    <3>1. d.name \in Named /\ b \in AppenderIds
      BY <1>0, <2>1, <2>2, <2>3, DefinitionFields, LenProperties
    <3>2. adds[b] <= 1
      BY <2>4, <3>1 DEF OwnerInv, ListenerInv, SpareInv, In
    <3> QED
      BY <2>3, <2>4, <3>2 DEF Inherits
  <2> HIDE DEF b
  <2>6. /\ appender[b].type = d.appenders[k].type
        /\ appender[b].formatter = IF d.appenders[k].formatter # NoFormat /\ ~IsError(d.appenders[k].formatter)
                                   THEN d.appenders[k].formatter ELSE logger[d.name].formatter
    BY <2>2, <2>5 DEF MadeFor
  <2> QED
    BY <2>6 DEF b
<1>4. ASSUME NEW n \in Managed \ NamesOf(defines) PROVE logger[n].appenders = <<>>
  <2>1. AppendersDue(n, <<>>) /\ <<>> \in Seq({})
    BY DEF ListenerInv, DuesInv
  <2>2. Shows(n, <<>>, Len(<<>>)) /\ Len(<<>>) = 0
    BY <2>1, Settled
  <2>3. logger[n].appenders \in Seq(AppenderIds)
    BY <1>0, NamedApart, LoggerFields
  <2> QED
    BY <2>2, <2>3, EmptySeq DEF Shows
<1>5. \A d \in defines : Len(logger[d.name].appenders) = Len(d.appenders)
  BY <1>2 DEF Shows
<1> QED
  BY <1>1, <1>3, <1>4, <1>5

(* What the cast writes of an appender is read as this appender.           *)
LEMMA AppenderReload ==
  ASSUME NEW an, Usable(an)
  PROVE  ReadAppender(FromAppender(ToAppender(an))) = <<ToAppender(an)>>
<1> DEFINE a == ToAppender(an)
           b == FromAppender(a)
<1>1. /\ a = [type |-> an.type, level |-> 0, formatter |-> a.formatter, file |-> a.file]
      /\ a.file = (IF an.type = "FileLogAppender" THEN an.file ELSE Absent)
  BY DEF ToAppender
<1>2. /\ b.type = an.type /\ b.file = a.file
      /\ b.formatter = IF a.formatter = NoFormat THEN Absent ELSE a.formatter
  BY <1>1 DEF FromAppender, Unless
<1>3. a.formatter = NoFormat \/ a.formatter # Absent
  BY DEF ToAppender, Given
<1>4. Usable(b)
  BY <1>1, <1>2 DEF Usable
<1>5. Given(b.formatter, NoFormat) = a.formatter
  BY <1>2, <1>3 DEF Given
<1>6. ToAppender(b) = [type |-> an.type, level |-> 0, formatter |-> a.formatter, file |-> a.file]
  BY <1>1, <1>2, <1>5 DEF ToAppender
<1> QED
  BY <1>1, <1>4, <1>6 DEF ReadAppender

(* What the cast writes of a level is read as this level.                  *)
LEMMA LevelReload ==
  ASSUME NEW v \in 0..5
  PROVE  FromString(Given(Unless(v, 0, LevelName(v)), "")) = v
<1>1. v # 0 => LevelName(v) # Absent
  BY NodesAssumption DEF LevelName, ToSet, LevelNames
<1>2. CASE v = 0
  BY <1>2 DEF Given, Unless, FromString, LevelNames, LowerNames
<1>3. CASE v # 0
  <2>1. Given(Unless(v, 0, LevelName(v)), "") = LevelNames[v]
    <3>1. LevelName(v) = LevelNames[v]
      BY <1>3 DEF LevelName
    <3>2. Unless(v, 0, LevelName(v)) = LevelName(v)
      BY <1>3 DEF Unless
    <3> QED
      BY <1>1, <1>3, <3>1, <3>2 DEF Given
  <2>2. \A u \in 1..5 : LevelNames[v] \in {LevelNames[u], LowerNames[u]} <=> u = v
    BY <1>3 DEF LevelNames, LowerNames
  <2>3. v \in 1..5
    BY <1>3
  <2> QED
    BY <2>1, <2>2, <2>3 DEF FromString
<1> QED
  BY <1>2, <1>3

(* What the cast writes of a list of appenders is read as this list.       *)
LEMMA AppendersReload ==
  ASSUME NEW node \in Nodes
  PROVE  ReadAppenders(Given(FromDefine(ToDefine(node)).appenders, <<>>)) = ToDefine(node).appenders
<1> DEFINE list == Given(node.appenders, <<>>)
           U == {x \in ToSet(list) : Usable(x)}
           A == ToDefine(node).appenders
           W == [k \in DOMAIN A |-> FromAppender(A[k])]
           e == FromDefine(ToDefine(node)).appenders
<1>1. A \in Seq({ToAppender(an) : an \in U})
  BY NodesAssumption, DefineAppenders
<1>2. e = IF A = <<>> THEN Absent ELSE W
  BY DEF FromDefine, Unless
<1>3. {FromAppender(ToAppender(an)) : an \in U} \subseteq Written
  BY DEF Written
<1> HIDE DEF A, e, U
<1>4. Len(A) \in Nat /\ DOMAIN A = 1..Len(A) /\ \A k \in DOMAIN A : \E an \in U : A[k] = ToAppender(an)
  BY <1>1, LenProperties
<1>5. W \in Seq(Written) /\ Len(W) = Len(A)
  BY <1>3, <1>4
<1>6. Given(e, <<>>) = W
  <2>1. CASE A = <<>>
    <3>1. W = <<>>
      BY <1>4, <1>5, <2>1, EmptySeq
    <3> QED
      BY <1>2, <2>1, <3>1 DEF Given
  <2>2. CASE A # <<>>
    <3> HIDE DEF W
    <3> QED
      BY <1>2, <1>5, <2>2, NodesAssumption DEF Given
  <2> QED
    BY <2>1, <2>2
<1>7. \A k \in DOMAIN A : ReadAppender(W[k]) = <<A[k]>>
  BY <1>4, AppenderReload DEF U
<1>8. DOMAIN W = DOMAIN A
  OBVIOUS
<1> HIDE DEF W
<1>9. ReadAppenders(W) = FlattenSeq([k \in DOMAIN A |-> <<A[k]>>])
  BY <1>7, <1>8 DEF ReadAppenders
<1>10. FlattenSeq([k \in DOMAIN A |-> <<A[k]>>]) = A
  BY <1>1, FlattenSingles
<1> QED
  BY <1>6, <1>9, <1>10 DEF A, e

(* A definition that the configuration has read, by LexicalCast from a     *)
(* node, is the same when the other LexicalCast has written it out and it  *)
(* is read again, whatever the node says and leaves out: no level, format, *)
(* type or file is lost, and no appender is added, dropped or moved.       *)
THEOREM DefinitionsReload == Spec => []DefinesReload
<1>1. ASSUME NEW node \in Nodes PROVE ToDefine(FromDefine(ToDefine(node))) = ToDefine(node)
  <2> DEFINE d == ToDefine(node)
             e == FromDefine(d)
  <2>1. d.level \in 0..5
    <3> DEFINE w == Given(node.level, "")
               F(v) == w \in {LevelNames[v], LowerNames[v]}
    <3>1. FromString(w) = IF \E v \in 1..5 : F(v) THEN CHOOSE v \in 1..5 : F(v) ELSE 0
      BY DEF FromString
    <3> HIDE DEF F, w
    <3>2. FromString(w) \in 0..5
      BY <3>1
    <3> QED
      BY <3>2 DEF ToDefine, w
  <2>2. d.formatter = NoFormat \/ d.formatter # Absent
    BY DEF ToDefine, Given
  <2>3. ReadAppenders(Given(e.appenders, <<>>)) = d.appenders
    BY AppendersReload
  <2>4. d = [name |-> d.name, level |-> d.level, formatter |-> d.formatter, appenders |-> d.appenders]
    BY DEF ToDefine
  <2> HIDE DEF d
  <2>5. /\ e.name = d.name /\ e.level = Unless(d.level, 0, LevelName(d.level))
        /\ e.formatter = Unless(d.formatter, NoFormat, d.formatter)
    BY DEF FromDefine
  <2> HIDE DEF e
  <2>6. FromString(Given(e.level, "")) = d.level
    BY <2>1, <2>5, LevelReload
  <2>7. Given(e.formatter, NoFormat) = d.formatter
    BY <2>2, <2>5 DEF Given, Unless
  <2>8. ToDefine(e) = d
    BY <2>3, <2>4, <2>5, <2>6, <2>7 DEF ToDefine
  <2> QED
    BY <2>8 DEF d, e
<1>2. DefinesReload
  BY <1>1 DEF DefinesReload, Reloadable
<1> QED
  BY <1>2, PTL

(* LogIniter's listener has brought every logger in line with its          *)
(* definition when it returns: level, appenders and formatters are the     *)
(* defined ones, and stay so until the next load, for any documents and    *)
(* whatever the users log, change and write out meanwhile.                 *)
THEOREM DefinitionsApplied == Spec => []DefinesApplied
<1>1. Init => CoreInv /\ OwnerInv /\ PlaceInv /\ Inherits /\ ListenerInv
  BY CoreInit, OwnerInit, InheritsInit, ListenerInit
<1>2. CoreInv /\ OwnerInv /\ PlaceInv /\ Inherits /\ ListenerInv /\ [Next]_vars
      => CoreInv' /\ OwnerInv' /\ PlaceInv' /\ Inherits' /\ ListenerInv'
  BY CoreNext, OwnerNext, InheritsNext, ListenerNext
<1> QED
  BY <1>1, <1>2, AllDone, PTL DEF Spec
=============================================================================
