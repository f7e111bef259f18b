------------------------------ MODULE MCConfig ------------------------------
(* An instance of the configuration for TLC.                               *)
EXTENDS Config

CONSTANTS t1, t2, port, logs, int, set, v1, v2, one, two, also, junk

(* A name that is declared twice, once with another type.            *)
MCDeclared ==
  {[name |-> port, type |-> int, value |-> v1],
   [name |-> port, type |-> set, value |-> v1],
   [name |-> logs, type |-> set, value |-> v1]}

(* Two texts are the same set, as when their order differs.                *)
MCConverts ==
  [c \in {<<int, one>>, <<int, two>>, <<set, one>>, <<set, two>>, <<set, also>>} |->
     IF c[2] = two THEN v2 ELSE v1]

MCSetters == {<<t2, port>>}

Node(n, x, ok) == [name |-> n, text |-> x, valid |-> ok]

(* Documents that set a name twice, have text that does not convert, and   *)
(* a name with a character that is not allowed.                            *)
MCDocuments ==
  {<<Node(port, two, TRUE), Node(port, junk, TRUE), Node(logs, two, TRUE)>>,
   <<Node(logs, junk, TRUE), Node(logs, also, TRUE), Node(port, two, FALSE), Node(port, one, TRUE)>>}
=============================================================================
