----------------------------- MODULE MCBrowser -----------------------------
(***************************************************************************)
(* An instance of Browser for TLC: the share has the file f and the        *)
(* directory d, which other users fill and empty.                          *)
(***************************************************************************)
EXTENDS Browser, TLC

Files == {"f", "d"}
Dirs == {"d"}
Somebody == [auth |-> TRUE, perms |-> {"upload", "modify"}]
Nobody == [auth |-> FALSE, perms |-> {}]
Answers == {Somebody, Nobody}
Names(p) == IF p = Root THEN {{"d"}, {"f", "d"}} ELSE {{"f"}}

Symmetric == Permutations(Task)
=============================================================================
