--------------------------------- MODULE Log ---------------------------------
(***************************************************************************)
(* Class Logger and class LoggerManager: threads that log events and that  *)
(* change loggers and appenders, and the listener of the `logs' argument,  *)
(* which brings all loggers in line with a new configuration while the     *)
(* others log.                                                             *)
(*                                                                         *)
(* A thread works through a list of calls.  A call that holds a logger's   *)
(* lock, or the manager's, from its first to its last access is one step;  *)
(* Logger::log(), which keeps the lock while it goes from appender to      *)
(* appender and into the root, addAppender(), which takes the appender's   *)
(* lock twice, and toYamlString(), which takes one lock after the other,   *)
(* are several.  Levels are read and written without a lock.  The lock of  *)
(* an appender is the innermost one and never kept from step to step.      *)
(***************************************************************************)
EXTENDS LogFormat, LogDefines

CONSTANTS
  Users,         \* the threads that log and change loggers
  Loader,        \* the thread that loads the configuration
  Root,          \* the logger that all others fall back to
  Managed,       \* the names of loggers that the configuration may define
  Manual,        \* the names of loggers that only the users change
  Documents,     \* the documents for `logs' that may be loaded: sets of nodes
  NameOrder,     \* the names in the order of a set of LogDefines
  Formats,       \* the patterns that the users choose from
  DefaultFormat, \* the pattern of a new logger
  Spare,         \* the number of appenders that the users have made
  MaxAppenders,  \* bound: the number of appenders that are ever made
  MaxCalls,      \* bound: the number of calls of each user
  MaxLoads,      \* bound: the number of times that the configuration changes
  Nobody         \* a lock that is free

Loggers == {Root} \cup Managed \cup Manual
Actors == Users \cup {Loader}
AppenderIds == 1..MaxAppenders
Levels == 0..5
DEBUG == 1
INFO == 2
ERROR == 4

ASSUME LogAssumption ==
  /\ Loader \notin Users /\ Nobody \notin Actors
  /\ NoFormat \notin Formats \cup {Absent} /\ DefaultFormat \in Formats /\ ~IsError(DefaultFormat)
  /\ Spare \in Nat /\ MaxAppenders \in Nat /\ Spare < MaxAppenders
  /\ Root \notin Managed /\ Manual \cap ({Root} \cup Managed) = {}
  /\ NameOrder \in Seq({Root} \cup Managed) /\ ToSet(NameOrder) = {Root} \cup Managed
  /\ \A j, k \in DOMAIN NameOrder : NameOrder[j] = NameOrder[k] => j = k
  /\ \A doc \in Documents : \A x, y \in doc : x.name = y.name => x = y

(* The definitions that the documents make.                                *)
Definitions == {ToDefine(node) : node \in {x \in UNION Documents : ~Throws(x)}}

ASSUME DocumentAssumption ==
  /\ \A node \in UNION Documents : HasList(node)
  /\ \A d \in Definitions :
       /\ d.name \in {Root} \cup Managed /\ d.formatter \in Formats \cup {NoFormat}
       /\ \A ad \in ToSet(d.appenders) : ad.formatter \in Formats \cup {NoFormat}

VARIABLES
  known,    \* the names in LoggerManager::m_loggers
  logger,   \* m_level, m_formatter, m_appenders of each Logger, and whether
            \* m_root is set
  appender, \* m_level, m_formatter, m_hasFormatter of each LogAppender
  made,     \* how many appenders have been made
  adds,     \* history: how often each appender was given to addAppender()
  lock,     \* who holds the m_mutex of each Logger
  manager,  \* who holds LoggerManager::m_mutex
  defines,  \* the value of `logs'
  calls,    \* the calls that each thread has still to make
  at,       \* how far each thread is in the first of them
  budget    \* how many calls, or loads, each thread may still begin

vars == <<known, logger, appender, made, adds, lock, manager, defines, calls, at, budget>>

NewLogger == [level |-> DEBUG, formatter |-> DefaultFormat, appenders |-> <<>>, root |-> FALSE]
NewAppender == [level |-> DEBUG, formatter |-> NoFormat, own |-> FALSE, type |-> "StdoutLogAppender"]
AtStart == [step |-> "start"]

(* The root has an appender of its own, the first one.                     *)
Init ==
  /\ known = {Root}
  /\ logger = [n \in Loggers |-> IF n = Root THEN [NewLogger EXCEPT !.appenders = <<1>>]
                                 ELSE NewLogger]
  /\ appender = [a \in AppenderIds |-> IF a = 1 THEN [NewAppender EXCEPT !.formatter = DefaultFormat]
                                       ELSE NewAppender]
  /\ made = 1 + Spare
  /\ adds = [a \in AppenderIds |-> IF a = 1 THEN 1 ELSE 0]
  /\ lock = [n \in Loggers |-> Nobody]
  /\ manager = Nobody
  /\ defines = {}
  /\ calls = [t \in Actors |-> <<>>]
  /\ at = [t \in Actors |-> AtStart]
  /\ budget = [t \in Actors |-> IF t = Loader THEN MaxLoads ELSE MaxCalls]

-----------------------------------------------------------------------------
(* The calls, and the listener as a list of calls.                         *)

GetLogger(n) == [op |-> "getLogger", name |-> n]
LogTo(n, v) == [op |-> "log", name |-> n, level |-> v]
SetLevel(n, v) == [op |-> "setLevel", name |-> n, level |-> v]
SetFormatter(n, f) == [op |-> "setFormatter", name |-> n, formatter |-> f]
ClearAppenders(n) == [op |-> "clearAppenders", name |-> n]
AddNew(n, ad) == [op |-> "addAppender", name |-> n, new |-> <<ad>>, a |-> 0]
AddAppender(n, a) == [op |-> "addAppender", name |-> n, new |-> <<>>, a |-> a]
DelAppender(n, a) == [op |-> "delAppender", name |-> n, a |-> a]
SetOwnFormatter(a, f) == [op |-> "appender", a |-> a, formatter |-> f]
ToYaml == [op |-> "toYamlString"]

(* The calls for a logger that is new or has changed.                      *)
Apply(d) ==
  <<GetLogger(d.name), SetLevel(d.name, d.level)>>
  \o (IF d.formatter = NoFormat THEN <<>> ELSE <<SetFormatter(d.name, d.formatter)>>)
  \o <<ClearAppenders(d.name)>>
  \o [k \in DOMAIN d.appenders |-> AddNew(d.name, d.appenders[k])]

(* The calls for a logger that is no longer defined.                       *)
Retire(n) == <<GetLogger(n), SetLevel(n, 0), ClearAppenders(n)>>

NamesOf(ds) == {d.name : d \in ds}

(* Mutant: the calls add to the appenders that are there.                  *)
Listener_KeepsAppenders(old, new) ==
  LET ToApply(n) ==
        LET ds == {x \in new \ old : x.name = n}
        IN IF ds = {} THEN <<>>
           ELSE SelectSeq(Apply(CHOOSE x \in ds : TRUE), LAMBDA c : c.op # "clearAppenders")
  IN FlattenSeq([k \in DOMAIN NameOrder |-> ToApply(NameOrder[k])])

(* LogIniter's listener: it says so in the root, applies what is new or    *)
(* differs, in the order of the names, and retires what is gone.           *)
Listener(old, new) ==
  LET ToApply(n) ==
        LET ds == {x \in new \ old : x.name = n}
        IN IF ds = {} THEN <<>> ELSE Apply(CHOOSE x \in ds : TRUE)
      ToRetire(n) == IF n \in NamesOf(old) \ NamesOf(new) THEN Retire(n) ELSE <<>>
  IN <<LogTo(Root, INFO)>>
     \o FlattenSeq([k \in DOMAIN NameOrder |-> ToApply(NameOrder[k])])
     \o FlattenSeq([k \in DOMAIN NameOrder |-> ToRetire(NameOrder[k])])

(* A document for `logs': one that has a node without a name is refused    *)
(* with an error in the root, one that changes nothing calls no listener.  *)
Load(doc) ==
  /\ calls[Loader] = <<>> /\ budget[Loader] > 0
  /\ LET new == {ToDefine(node) : node \in doc}
         fails == \E node \in doc : Throws(node)
     IN  /\ defines' = IF fails THEN defines ELSE new
         /\ calls' = [calls EXCEPT ![Loader] = IF fails THEN <<LogTo(Root, ERROR)>>
                                               ELSE IF new = defines THEN <<>>
                                               ELSE Listener(defines, new)]
  /\ budget' = [budget EXCEPT ![Loader] = @ - 1]
  /\ UNCHANGED <<known, logger, appender, made, adds, lock, manager, at>>

(* What a user may call, on a logger that it asks the manager for.         *)
LoggerCalls ==
  {LogTo(n, v) : n \in Loggers, v \in {DEBUG, INFO}}
  \cup {SetFormatter(n, f) : n \in Manual, f \in Formats}
  \cup {ClearAppenders(n) : n \in Manual}
  \cup {AddAppender(n, a) : n \in Manual, a \in 2..1 + Spare}
  \cup {DelAppender(n, a) : n \in Manual, a \in 2..1 + Spare}

UserCalls ==
  {<<GetLogger(c.name), c>> : c \in LoggerCalls}
  \cup {<<SetOwnFormatter(a, f)>> : a \in 2..1 + Spare, f \in {x \in Formats : ~IsError(x)}}
  \cup {<<ToYaml>>}

Begin(t) ==
  /\ calls[t] = <<>> /\ budget[t] > 0
  /\ \E cs \in UserCalls : calls' = [calls EXCEPT ![t] = cs]
  /\ budget' = [budget EXCEPT ![t] = @ - 1]
  /\ UNCHANGED <<known, logger, appender, made, adds, lock, manager, defines, at>>

Calling(t, op, step) == calls[t] # <<>> /\ Head(calls[t]).op = op /\ at[t].step = step

(* The thread goes on within the call, or returns from it.                 *)
Goes(t, where) == at' = [at EXCEPT ![t] = where] /\ UNCHANGED calls
Returns(t) == calls' = [calls EXCEPT ![t] = Tail(@)] /\ at' = [at EXCEPT ![t] = AtStart]

-----------------------------------------------------------------------------
(* LoggerManager.                                                          *)

(* Mutant: a new logger does not get the root.                             *)
Lookup_NoRoot(t) ==
  /\ Calling(t, "getLogger", "start") /\ manager = Nobody
  /\ known' = known \cup {Head(calls[t]).name}
  /\ Returns(t)
  /\ UNCHANGED <<logger, appender, made, adds, lock, manager, defines, budget>>

(* getLogger(): finds the logger, or makes it with the root to fall back   *)
(* to.                                                                     *)
Lookup(t) ==
  /\ Calling(t, "getLogger", "start") /\ manager = Nobody
  /\ LET n == Head(calls[t]).name
     IN IF n \in known THEN UNCHANGED <<known, logger>>
        ELSE /\ known' = known \cup {n}
             /\ logger' = [logger EXCEPT ![n] = [NewLogger EXCEPT !.root = TRUE]]
  /\ Returns(t)
  /\ UNCHANGED <<appender, made, adds, lock, manager, defines, budget>>

(* toYamlString() of the manager locks every logger in turn.               *)
YamlBegin(t) ==
  /\ Calling(t, "toYamlString", "start") /\ manager = Nobody
  /\ manager' = t
  /\ Goes(t, [step |-> "loggers", rest |-> known])
  /\ UNCHANGED <<known, logger, appender, made, adds, lock, defines, budget>>

YamlLogger(t) ==
  /\ Calling(t, "toYamlString", "loggers")
  /\ IF at[t].rest = {} THEN manager' = Nobody /\ Returns(t)
     ELSE /\ \E n \in at[t].rest : lock[n] = Nobody /\ Goes(t, [at[t] EXCEPT !.rest = @ \ {n}])
          /\ UNCHANGED manager
  /\ UNCHANGED <<known, logger, appender, made, adds, lock, defines, budget>>

-----------------------------------------------------------------------------
(* Logger::log().  The macro asks for the level before it makes the event, *)
(* log() asks again.                                                       *)
Macro(t) ==
  /\ Calling(t, "log", "start")
  /\ LET c == Head(calls[t])
     IN IF logger[c.name].level <= c.level THEN Goes(t, [step |-> "log"]) ELSE Returns(t)
  /\ UNCHANGED <<known, logger, appender, made, adds, lock, manager, defines, budget>>

Recheck(t) ==
  /\ Calling(t, "log", "log")
  /\ LET c == Head(calls[t])
     IN IF c.level >= logger[c.name].level THEN Goes(t, [step |-> "lock"]) ELSE Returns(t)
  /\ UNCHANGED <<known, logger, appender, made, adds, lock, manager, defines, budget>>

(* Where log() goes once it has the lock of n.  "list" is the list that it *)
(* goes through, "to" the appenders that have written the event.           *)
Inside(n) ==
  IF logger[n].appenders # <<>>
  THEN [step |-> "walk", via |-> n, list |-> logger[n].appenders, next |-> 1, to |-> {}]
  ELSE [step |-> IF logger[n].root THEN "root" ELSE "unlock", via |-> n, refused |-> FALSE, to |-> {}]

Enter(t) ==
  /\ Calling(t, "log", "lock")
  /\ LET n == Head(calls[t]).name
     IN  /\ lock[n] = Nobody
         /\ lock' = [lock EXCEPT ![n] = t]
         /\ Goes(t, Inside(n))
  /\ UNCHANGED <<known, logger, appender, made, adds, manager, defines, budget>>

(* m_root->log(): the root's level, then its lock.                         *)
RootCheck(t) ==
  /\ Calling(t, "log", "root")
  /\ IF Head(calls[t]).level >= logger[Root].level
     THEN Goes(t, [at[t] EXCEPT !.step = "rootLock"])
     ELSE Goes(t, [at[t] EXCEPT !.step = "unlock", !.refused = TRUE])
  /\ UNCHANGED <<known, logger, appender, made, adds, lock, manager, defines, budget>>

RootEnter(t) ==
  /\ Calling(t, "log", "rootLock")
  /\ lock[Root] = Nobody
  /\ lock' = [lock EXCEPT ![Root] = t]
  /\ Goes(t, Inside(Root))
  /\ UNCHANGED <<known, logger, appender, made, adds, manager, defines, budget>>

(* LogAppender::log() of the next appender of the list.                    *)
Deliver(t) ==
  /\ Calling(t, "log", "walk")
  /\ LET w == at[t]
         a == w.list[w.next]
     IN Goes(t, [w EXCEPT !.to = IF Head(calls[t]).level >= appender[a].level THEN @ \cup {a} ELSE @,
                          !.next = @ + 1,
                          !.step = IF w.next = Len(w.list) THEN "walked" ELSE "walk"])
  /\ UNCHANGED <<known, logger, appender, made, adds, lock, manager, defines, budget>>

(* Mutant: only the lock of the logger itself is given back.               *)
Leave_KeepsRoot(t) ==
  /\ at[t].step \in {"walked", "unlock", "left"}
  /\ lock' = [lock EXCEPT ![Head(calls[t]).name] = Nobody]
  /\ Returns(t)
  /\ UNCHANGED <<known, logger, appender, made, adds, manager, defines, budget>>

(* The locks are given back, the root's first.                             *)
Leave(t) ==
  /\ at[t].step \in {"walked", "unlock", "left"}
  /\ LET n == Head(calls[t]).name
     IN IF lock[Root] = t /\ n # Root
        THEN lock' = [lock EXCEPT ![Root] = Nobody] /\ Goes(t, [step |-> "left"])
        ELSE lock' = [lock EXCEPT ![n] = Nobody] /\ Returns(t)
  /\ UNCHANGED <<known, logger, appender, made, adds, manager, defines, budget>>

-----------------------------------------------------------------------------
(* The calls that change a logger or an appender.                          *)
SetLevelOf(t) ==
  /\ Calling(t, "setLevel", "start")
  /\ logger' = [logger EXCEPT ![Head(calls[t]).name].level = Head(calls[t]).level]
  /\ Returns(t)
  /\ UNCHANGED <<known, appender, made, adds, lock, manager, defines, budget>>

(* Mutant: the appenders keep what they have.                              *)
PassOn_LoggerOnly(n, f) ==
  /\ logger' = [logger EXCEPT ![n].formatter = f]
  /\ UNCHANGED appender

(* A new formatter, also for the appenders that have none of their own.    *)
PassOn(n, f) ==
  /\ logger' = [logger EXCEPT ![n].formatter = f]
  /\ appender' = [a \in AppenderIds |->
       IF a \in ToSet(logger[n].appenders) /\ ~appender[a].own
       THEN [appender[a] EXCEPT !.formatter = f] ELSE appender[a]]

(* An erroneous pattern is refused before the lock is taken.               *)
SetFormatterOf(t) ==
  /\ Calling(t, "setFormatter", "start")
  /\ LET c == Head(calls[t])
     IN IF IsError(c.formatter) THEN UNCHANGED <<logger, appender>>
        ELSE lock[c.name] = Nobody /\ PassOn(c.name, c.formatter)
  /\ Returns(t)
  /\ UNCHANGED <<known, made, adds, lock, manager, defines, budget>>

SetAppenders(n, as) == logger' = [logger EXCEPT ![n].appenders = as]

(* Mutant: the list is emptied without the lock.                           *)
Clear_Unlocked(t) ==
  /\ Calling(t, "clearAppenders", "start")
  /\ SetAppenders(Head(calls[t]).name, <<>>)
  /\ Returns(t)
  /\ UNCHANGED <<known, appender, made, adds, lock, manager, defines, budget>>

Clear(t) ==
  /\ Calling(t, "clearAppenders", "start")
  /\ lock[Head(calls[t]).name] = Nobody
  /\ SetAppenders(Head(calls[t]).name, <<>>)
  /\ Returns(t)
  /\ UNCHANGED <<known, appender, made, adds, lock, manager, defines, budget>>

Del(t) ==
  /\ Calling(t, "delAppender", "start")
  /\ lock[Head(calls[t]).name] = Nobody
  /\ LET n == Head(calls[t]).name IN SetAppenders(n, RemoveFirst(logger[n].appenders, Head(calls[t]).a))
  /\ Returns(t)
  /\ UNCHANGED <<known, appender, made, adds, lock, manager, defines, budget>>

(* Mutant: a pattern in error counts as the appender's own.                *)
Made_OwnInError(ad) ==
  [level |-> ad.level, type |-> ad.type, own |-> ad.formatter # NoFormat,
   formatter |-> IF ad.formatter # NoFormat /\ ~IsError(ad.formatter) THEN ad.formatter ELSE NoFormat]

(* The appender that the listener makes for a definition.                  *)
Made(ad) ==
  LET own == ad.formatter # NoFormat /\ ~IsError(ad.formatter)
  IN [level |-> ad.level, type |-> ad.type, own |-> own,
      formatter |-> IF own THEN ad.formatter ELSE NoFormat]

(* addAppender() looks whether the appender has a formatter and gives up   *)
(* the appender's lock; the listener has made the appender just before, if *)
(* MaxAppenders allows.                                                    *)
AddBegin(t) ==
  /\ Calling(t, "addAppender", "start")
  /\ LET c == Head(calls[t])
         a == IF c.new = <<>> THEN c.a ELSE made + 1
     IN  /\ lock[c.name] = Nobody /\ a <= MaxAppenders
         /\ lock' = [lock EXCEPT ![c.name] = t]
         /\ IF c.new = <<>> THEN UNCHANGED <<appender, made>>
            ELSE made' = a /\ appender' = [appender EXCEPT ![a] = Made(c.new[1])]
         /\ adds' = [adds EXCEPT ![a] = @ + 1]
         /\ Goes(t, [step |-> "push", a |-> a, bare |-> appender'[a].formatter = NoFormat])
  /\ UNCHANGED <<known, logger, manager, defines, budget>>

AddEnd(t) ==
  /\ Calling(t, "addAppender", "push")
  /\ LET n == Head(calls[t]).name
     IN  /\ appender' = IF at[t].bare
                        THEN [appender EXCEPT ![at[t].a].formatter = logger[n].formatter]
                        ELSE appender
         /\ SetAppenders(n, Append(logger[n].appenders, at[t].a))
         /\ lock' = [lock EXCEPT ![n] = Nobody]
  /\ Returns(t)
  /\ UNCHANGED <<known, made, adds, manager, defines, budget>>

(* LogAppender::setFormatter().                                            *)
SetOwn(t) ==
  /\ Calling(t, "appender", "start")
  /\ LET c == Head(calls[t])
     IN appender' = [appender EXCEPT ![c.a].formatter = c.formatter, ![c.a].own = TRUE]
  /\ Returns(t)
  /\ UNCHANGED <<known, logger, made, adds, lock, manager, defines, budget>>

-----------------------------------------------------------------------------
Step(t) ==
  \/ Lookup(t) \/ YamlBegin(t) \/ YamlLogger(t)
  \/ Macro(t) \/ Recheck(t) \/ Enter(t) \/ RootCheck(t) \/ RootEnter(t) \/ Deliver(t) \/ Leave(t)
  \/ SetLevelOf(t) \/ SetFormatterOf(t) \/ Clear(t) \/ Del(t) \/ AddBegin(t) \/ AddEnd(t) \/ SetOwn(t)

(* All is done.                                                            *)
Idle == (\A t \in Actors : calls[t] = <<>> /\ budget[t] = 0) /\ UNCHANGED vars

Next ==
  \/ \E t \in Users : Begin(t)
  \/ \E doc \in Documents : Load(doc)
  \/ \E t \in Actors : Step(t)
  \/ Idle

Spec == Init /\ [][Next]_vars

-----------------------------------------------------------------------------
(* What must hold.                                                         *)

(* Every variable has its type: above all, no logger and no appender has a *)
(* formatter in error, and an appender that has one of its own has one.    *)
Sound == {f \in Formats : ~IsError(f)}
TypeOK ==
  /\ known \subseteq Loggers
  /\ logger \in [Loggers -> [level : Levels, formatter : Sound, appenders : Seq(AppenderIds), root : BOOLEAN]]
  /\ \A a \in AppenderIds : appender[a].own => appender[a].formatter # NoFormat
  /\ \A a \in AppenderIds : appender[a].level \in Levels /\ appender[a].formatter \in Sound \cup {NoFormat}
  /\ made \in AppenderIds
  /\ lock \in [Loggers -> Actors \cup {Nobody}]
  /\ manager \in Actors \cup {Nobody}

(* Nobody changes the list that Logger::log() goes through.                *)
WalkStable ==
  \A t \in Actors : at[t].step \in {"walk", "walked"} => logger[at[t].via].appenders = at[t].list

(* An event that its logger has let through is written, by the logger's    *)
(* own appenders or by the root's, whatever the listener does meanwhile;   *)
(* only the root may refuse it, by its level or without any appender.      *)
NoEventLost ==
  \A t \in Actors : at[t].step = "unlock" /\ at[t].to = {} =>
    \/ at[t].refused
    \/ /\ logger[Head(calls[t]).name].appenders = <<>>
       /\ logger[Root].appenders = <<>>

(* Between loads every logger is as its definition says: level, appenders  *)
(* in order, formatters unless they are in error; what is no longer        *)
(* defined has no appender.                                                *)
DefinesApplied ==
  calls[Loader] = <<>> =>
    /\ \A d \in defines :
         LET l == logger[d.name]
         IN  /\ l.level = d.level
             /\ Len(l.appenders) = Len(d.appenders)
             /\ d.formatter # NoFormat /\ ~IsError(d.formatter) => l.formatter = d.formatter
             /\ \A k \in DOMAIN d.appenders :
                  LET a == appender[l.appenders[k]]
                      f == d.appenders[k].formatter
                  IN  /\ a.type = d.appenders[k].type
                      /\ a.formatter = IF f # NoFormat /\ ~IsError(f) THEN f ELSE l.formatter
    /\ \A n \in Managed \ NamesOf(defines) : logger[n].appenders = <<>>

(* What the README says: a logger without appenders writes by the root.     *)
(* An event that both levels let through is written.                       *)
AlwaysWritten == \A t \in Actors : at[t].step = "unlock" /\ at[t].to = {} => at[t].refused

(* An appender without a formatter of its own has its logger's, once it    *)
(* was given to addAppender() and never again.  One that is given again,   *)
(* to the same logger or another, keeps what it inherited the first time   *)
(* (log.cpp:305), whatever the logger's formatter is by then.              *)
Inherits ==
  \A n \in Loggers : \A a \in ToSet(logger[n].appenders) :
    adds[a] <= 1 /\ ~appender[a].own => appender[a].formatter = logger[n].formatter

(* What the comments at log.cpp:271 and 303 say: an appender without a     *)
(* formatter of its own is given its logger's, however often it is added.  *)
AlwaysInherits ==
  \A n \in Loggers : \A a \in ToSet(logger[n].appenders) :
    ~appender[a].own => appender[a].formatter = logger[n].formatter

(* The lock that a thread waits for, as its holder; Nobody if it can go on. *)
WaitsFor(t) ==
  IF calls[t] = <<>> THEN Nobody
  ELSE CASE at[t].step = "rootLock" -> lock[Root]
         [] at[t].step = "lock" -> lock[Head(calls[t]).name]
         [] at[t].step = "start" /\ Head(calls[t]).op \in {"clearAppenders", "addAppender", "delAppender", "setFormatter"}
              -> lock[Head(calls[t]).name]
         [] at[t].step = "start" /\ Head(calls[t]).op \in {"getLogger", "toYamlString"} -> manager
         [] at[t].step = "loggers" /\ Cardinality(at[t].rest) = 1 -> lock[CHOOSE n \in at[t].rest : TRUE]
         [] OTHER -> Nobody

(* No threads wait for one another, or for one that has returned with the  *)
(* lock: a spinlock would never be given back.                             *)
NoDeadlock ==
  /\ \A S \in SUBSET Actors : S # {} => \E t \in S : WaitsFor(t) \notin S
  /\ \A t \in Actors : calls[t] = <<>> => t # manager /\ \A n \in Loggers : lock[n] # t

(* The parser of patterns and the grammar agree, and definitions can be    *)
(* written and read again: compared once, no step can change it.           *)
FormatterParses == Init => AcceptsGrammar
DefinesReload == Init => Reloadable
=============================================================================
