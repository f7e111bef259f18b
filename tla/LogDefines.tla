----------------------------- MODULE LogDefines -----------------------------
(***************************************************************************)
(* LogDefine, the definition of one logger in the configuration, and the   *)
(* two LexicalCasts between it and a YAML node.  A node is a record whose  *)
(* fields may be absent.                                                   *)
(***************************************************************************)
EXTENDS Integers, Sequences, SequencesExt

CONSTANTS
  Nodes,     \* the nodes that are written out and read again
  Absent,    \* a field that a node does not have
  NoFormat   \* an empty string for a pattern

LevelNames == <<"DEBUG", "INFO", "WARN", "ERROR", "FATAL">>
LowerNames == <<"debug", "info", "warn", "error", "fatal">>

(* LogLevel::FromString(); any other word is UNKNOWN, 0.                   *)
FromString(s) ==
  IF \E v \in 1..5 : s \in {LevelNames[v], LowerNames[v]}
  THEN CHOOSE v \in 1..5 : s \in {LevelNames[v], LowerNames[v]} ELSE 0

(* LogLevel::ToString().                                                   *)
LevelName(v) == IF v \in 1..5 THEN LevelNames[v] ELSE "UNKNOWN"

Given(field, default) == IF field = Absent THEN default ELSE field

(* An appender without a known type, or a file appender without a file, is *)
(* left out.                                                               *)
Usable(an) ==
  \/ an.type = "FileLogAppender" /\ an.file # Absent
  \/ an.type = "StdoutLogAppender"

(* The level of an appender is not read: it stays UNKNOWN.                 *)
ToAppender(an) ==
  [type |-> an.type, level |-> 0, formatter |-> Given(an.formatter, NoFormat),
   file |-> IF an.type = "FileLogAppender" THEN an.file ELSE Absent]

(* The cast from a node throws when the node has no name.                  *)
Throws(node) == node.name = Absent

(* One appender of the list: nothing is added for one that is left out.    *)
ReadAppender(an) == IF Usable(an) THEN <<ToAppender(an)>> ELSE <<>>

ReadAppenders(list) == FlattenSeq([k \in DOMAIN list |-> ReadAppender(list[k])])

ToDefine(node) ==
  [name |-> node.name,
   level |-> FromString(Given(node.level, "")),
   formatter |-> Given(node.formatter, NoFormat),
   appenders |-> ReadAppenders(Given(node.appenders, <<>>))]

(* A field that would say nothing is not written.                          *)
Unless(value, nothing, text) == IF value = nothing THEN Absent ELSE text

FromAppender(a) ==
  [type |-> a.type, file |-> a.file,
   level |-> Unless(a.level, 0, LevelName(a.level)),
   formatter |-> Unless(a.formatter, NoFormat, a.formatter)]

(* Mutant: the appenders are written only where there is a formatter.      *)
FromDefine_NeedsFormatter(d) ==
  [name |-> d.name,
   level |-> Unless(d.level, 0, LevelName(d.level)),
   formatter |-> Unless(d.formatter, NoFormat, d.formatter),
   appenders |-> Unless(d.formatter, NoFormat, [k \in DOMAIN d.appenders |-> FromAppender(d.appenders[k])])]

(* The cast to a node.                                                     *)
FromDefine(d) ==
  [name |-> d.name,
   level |-> Unless(d.level, 0, LevelName(d.level)),
   formatter |-> Unless(d.formatter, NoFormat, d.formatter),
   appenders |-> Unless(d.appenders, <<>>, [k \in DOMAIN d.appenders |-> FromAppender(d.appenders[k])])]

(* The appenders of a node are a list, where it has any.                   *)
HasList(node) == Given(node.appenders, <<>>) \in Seq(ToSet(Given(node.appenders, <<>>)))

Written == UNION {{FromAppender(ToAppender(an)) :
                     an \in {x \in ToSet(Given(node.appenders, <<>>)) : Usable(x)}} : node \in Nodes}

ASSUME NodesAssumption ==
  /\ \A node \in Nodes : HasList(node)
  /\ Absent \notin ToSet(LevelNames) /\ Absent \notin Seq(Written)

(* A definition that the configuration has read can be written out and     *)
(* read again, and is the same.                                            *)
Reloadable ==
  \A node \in Nodes : ~Throws(node) => ToDefine(FromDefine(ToDefine(node))) = ToDefine(node)
=============================================================================
