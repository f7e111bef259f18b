-------------------------------- MODULE MCLog --------------------------------
(* Instances of the loggers for TLC.                                       *)
EXTENDS Log

CONSTANTS u1, u2, loader, root, web, db

Good == <<"%", "m">>
Other == <<"%", "m", ".">>
Broken == <<"%", "m", "{">>
MCFormats == {Good, Other, Broken}
MCNameOrder == <<web, root>>

Stdout(f) == [type |-> "StdoutLogAppender", file |-> Absent, level |-> Absent, formatter |-> f]
File(path, f) == [type |-> "FileLogAppender", file |-> path, level |-> "info", formatter |-> f]
Node(name, level, f, as) == [name |-> name, level |-> level, formatter |-> f, appenders |-> as]

(* Nothing; a logger with two appenders and one that is of no use; that    *)
(* logger with other formats, and a definition of the root; one without a  *)
(* name.                                                                   *)
MCDocuments ==
  { {},
    {Node(web, Absent, Other, <<Stdout(Absent), File(Absent, Good), File("log.txt", Good)>>)},
    {Node(web, "debug", Broken, <<File("log.txt", Broken)>>),
     Node(root, "INFO", Absent, <<Stdout(Other)>>)},
    {Node(Absent, "debug", Good, Absent)} }

(* All nodes of a few values, with up to two appenders.                    *)
MCNodes ==
  LET As == [type : {Absent, "StdoutLogAppender", "FileLogAppender", "Other"}, file : {Absent, "log.txt"},
             level : {Absent, "info"}, formatter : {Absent, Good}]
  IN [name : {Absent, web}, level : {Absent, "info", "FATAL", "loud"}, formatter : {Absent, Other},
      appenders : {Absent} \cup BoundedSeq(As, 2)]

(* bin/config/config.yaml: its loggers have a key `appender'.              *)
RepositoryDocuments ==
  { {Node(root, "info", Good, Absent), Node(web, "debug", Good, Absent)} }
=============================================================================
