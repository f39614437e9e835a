----------------------------- MODULE ShareTree -----------------------------
(***************************************************************************)
(* The namespace below `cfg.root`, as the handlers in flyo/src see it      *)
(* through std::fs.  A tree is a function from the paths that exist (the   *)
(* root is the empty path and always exists) to either the constant Dir or *)
(* an inode.  The operators below are the POSIX calls the code makes, each *)
(* one atomic: fs::symlink_metadata, Path::exists, mkdir(2), rename(2),    *)
(* unlink(2), open(O_CREAT|O_TRUNC).  There are no symbolic links and no   *)
(* hard links.                                                             *)
(*                                                                         *)
(* A name is a record rather than a string: `base` is what the user typed, *)
(* `tmp` the random suffix that upload() appends ("flyo-tmp-xxxxxxxx",     *)
(* NoSuffix if none), `stamps` the ".{stamp:x}." prefixes that             *)
(* delete_to_trash() put in front, newest first.                           *)
(***************************************************************************)
EXTENDS Naturals, SequencesExt

CONSTANTS BaseName,   \* names a user can type, with ".Trash" among them
          DotName,    \* those of them that start with a dot
          Suffix,     \* what rand_suffix() can draw
          NoSuffix,   \* the name carries no temporary suffix
          Ino,        \* inode numbers of regular files
          Dir         \* the mark of a directory

ASSUME TreeAssumption ==
  /\ ".Trash" \in DotName /\ "unnamed" \in BaseName
  /\ DotName \subseteq BaseName
  /\ NoSuffix \notin Suffix
  /\ Dir \notin Ino

Name == [base : BaseName, tmp : Suffix \union {NoSuffix}, stamps : Seq(Nat)]
Path == Seq(Name)
Root == << >>

Plain(b) == [base |-> b, tmp |-> NoSuffix, stamps |-> << >>]
TrashPath == << Plain(".Trash") >>

IsTemp(n) == n.tmp # NoSuffix
Hidden(n) == n.stamps # << >> \/ n.base \in DotName

(* Mutation of TmpSibling: upload() streams into the file itself.          *)
InPlace(p, s) == p

(* abs.with_extension("{ext}.flyo-tmp-{rand}"): a sibling of p.            *)
TmpSibling(p, s) == [p EXCEPT ![Len(p)].tmp = s]

(* root/.Trash/.{stamp:x}.{basename}.  For the root any name does: it      *)
(* cannot move below itself.                                               *)
TrashTarget(p, stamp) ==
  LET n == IF p = Root THEN Plain("unnamed") ELSE Last(p)
  IN  Append(TrashPath, [n EXCEPT !.stamps = << stamp >> \o @])

-----------------------------------------------------------------------------
(* Queries.                                                                *)

Exists(t, p) == p = Root \/ p \in DOMAIN t
IsDir(t, p)  == p = Root \/ (p \in DOMAIN t /\ t[p] = Dir)
IsFile(t, p) == p \in DOMAIN t /\ t[p] # Dir

(* A file stands where the path needs a directory (ENOTDIR).               *)
Blocked(t, p) == \E k \in 1 .. Len(p) - 1 : IsFile(t, SubSeq(p, 1, k))

Children(t, p) == {q \in DOMAIN t : Len(q) = Len(p) + 1 /\ IsPrefix(p, q)}

(* Every entry lies in a directory, all the way from the root.             *)
WellFormed(t) ==
  \A p \in DOMAIN t :
     /\ p # Root
     /\ \A k \in 1 .. Len(p) - 1 : SubSeq(p, 1, k) \in DOMAIN t
                                   /\ t[SubSeq(p, 1, k)] = Dir

-----------------------------------------------------------------------------
(* Updates.                                                                *)

(* mkdir(2) or open(2) with O_CREAT of a path that does not exist.         *)
Link(t, p, v) == [q \in DOMAIN t \union {p} |-> IF q = p THEN v ELSE t[q]]

Unlink(t, p) == [q \in DOMAIN t \ {p} |-> t[q]]

(* The path that p, at or below a, gets when a becomes b.                  *)
Rebase(p, a, b) == b \o SubSeq(p, Len(a) + 1, Len(p))

(* rename(2): the destination may be absent, a file replaced by a file, or *)
(* an empty directory replaced by a directory; nothing moves below itself  *)
(* and the root does not move.                                             *)
CanRename(t, a, b) ==
  /\ a \in DOMAIN t /\ b # Root
  /\ IsDir(t, Front(b))
  /\ a # b => ~IsPrefix(a, b)
  /\ \/ b \notin DOMAIN t
     \/ a = b
     \/ t[a] # Dir /\ t[b] # Dir
     \/ t[a] = Dir /\ t[b] = Dir /\ Children(t, b) = {}

Rename(t, a, b) ==
  LET stay == {p \in DOMAIN t : ~IsPrefix(a, p) /\ p # b}
      move == {Rebase(p, a, b) : p \in {q \in DOMAIN t : IsPrefix(a, q)}}
  IN  [p \in stay \union move |-> IF p \in move THEN t[Rebase(p, b, a)]
                                               ELSE t[p]]

(* fs::create_dir_all(p): one mkdir per level.  The first step makes the   *)
(* shallowest missing directory, each later step the one below the last it *)
(* made (level n, 0 before the first).                                     *)
Missing(t, p) == {k \in 1 .. Len(p) : SubSeq(p, 1, k) \notin DOMAIN t}
IsNextLevel(t, p, n, k) ==
  IF n > 0 THEN k = n + 1
  ELSE k \in Missing(t, p) /\ k - 1 \notin Missing(t, p)
=============================================================================
