----------------------------- MODULE MCFileApi -----------------------------
(***************************************************************************)
(* Instances of FileApi for TLC.  The share starts as                      *)
(*                                                                         *)
(*     /f        file s1            /d        directory                    *)
(*                                                                         *)
(* and requests name /f, /d, /d/g (whose parent other requests may move or *)
(* delete), /e (which does not exist) and the root.                        *)
(***************************************************************************)
EXTENDS FileApiProps

CONSTANTS s1

Names == {"f", "d", "e", "g", ".Trash", "unnamed", ".."}
Dots == {".Trash", ".."}

F == << Plain("f") >>
D == << Plain("d") >>
E == << Plain("e") >>
DG == D \o << Plain("g") >>
EG == E \o << Plain("g") >>

Share == [p \in {F, D} |-> IF p = F THEN s1 ELSE Dir]

Inodes == Req \union {s1}
SeedFiles == {s1}
AllPerms == {{"l", "r", "u", "m"}}
SomePerms == {{"l", "r", "u", "m", "S"}, {"l"}}

NoRange == {Idle.hdr}
Ranges == NoRange \union {[form |-> "open", a |-> 2, b |-> 0],
                          [form |-> "suffix", a |-> 0, b |-> 1]}

Faults == {"stream", "io", "drop", "crash"}
NoFaults == {}

AllOps == {"list", "file", "upload", "mkdir", "rename", "delete"}
UploadOps == {"upload", "rename", "delete"}
DownloadOps == {"upload", "file", "delete"}
UploadDelete == {"upload", "delete"}

UploadTargets == {F, D, DG}
FileTarget == {F}
AllTargets == {Root, F, D, EG, << Plain("..") >>}

Symmetric == Permutations(Req) \union Permutations(Suffix)
=============================================================================
