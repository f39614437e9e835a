---------------------------- MODULE FileApiProps ----------------------------
(***************************************************************************)
(* What the handlers of FileApi guarantee, what they implement, and what   *)
(* the documentation says of them.                                         *)
(***************************************************************************)
EXTENDS FileApi

Label == {"idle", "done", "gone", "mkdirs", "u_parent", "u_create", "u_stream",
          "u_rename", "u_clean", "f_stat", "f_open", "f_body", "l_stat",
          "l_read", "l_meta", "m_check", "r_check", "r_parent", "r_rename",
          "d_check", "d_stamp", "d_rename"}
Chunk == Ino \X Nat
Handler ==
  [pc : Label, op : Op \union {"none"}, perms : PermSet \union {{}},
   path : Path, to : Path, size : Nat, sent : Nat, fd : Ino \union {Dir},
   lvl : Nat,
   hdr : Header, total : Nat, start : Nat, want : Nat, got : Seq(Chunk),
   todo : SUBSET Name, names : SUBSET Name, status : Nat]

(* Types; and every entry of the share lies in a directory of the share.   *)
TypeOK ==
  /\ DOMAIN tree \subseteq Path
  /\ \A p \in DOMAIN tree : tree[p] \in Ino \union {Dir}
  /\ WellFormed(tree)
  /\ disk \in [Ino -> Seq(Chunk)]
  /\ now \in 0 .. MaxTime
  /\ h \in [Req -> Handler]

Files(t) == {t[p] : p \in DOMAIN t} \ {Dir}
TempNamed(p) == IsTemp(Last(p))

(* Half-uploaded content is never reachable under a name without the       *)
(* temporary suffix, wherever renames, deletes and failures have taken the *)
(* file ("Stream body into a temp sibling, then atomic rename").           *)
WholeFiles ==
  \A p \in DOMAIN tree :
     IsFile(tree, p) /\ ~TempNamed(p) => disk[tree[p]] = Whole(tree[p])

(* The 200 of an upload means that at that moment the path it named holds  *)
(* its whole body, whatever other handlers did meanwhile.                  *)
CommitStoresUpload ==
  [][\A r \in Req :
       h[r].op = "upload" /\ h[r].status # 200 /\ h'[r].status = 200
       => /\ IsFile(tree', h[r].path)
          /\ disk'[tree'[h[r].path]] = Whole(r)]_vars

(* No file disappears from the share except by being replaced at its own   *)
(* path, or as a temporary file removed by the upload that failed: delete  *)
(* moves to the trash, and clean-up never removes anyone else's file.      *)
FilesOnlyReplaced ==
  [][\A p \in DOMAIN tree :
       tree[p] \in Files(tree) \ Files(tree')
       => \/ p \in DOMAIN tree' /\ tree'[p] \in Ino
          \/ TempNamed(p) /\ At(tree[p], "u_clean")]_vars

(* A download hands out consecutive bytes of one complete upload, from the *)
(* position its Range asked for, even while the path is replaced, moved or *)
(* deleted under it.                                                       *)
DownloadUntorn ==
  \A r \in Req :
     h[r].got # << >> =>
       LET first == Min(Asked(h[r].hdr, h[r].total) \union {h[r].total})
       IN  h[r].got = SubSeq(Whole(h[r].fd), first + 1, first + Len(h[r].got))

(* No upload is answered before its temporary file has been dealt with: it *)
(* is committed, or removed, or removing it was tried and failed. The      *)
(* error of remove_file is dropped (handlers.rs:252, 257, 263, 269), so    *)
(* only then a temporary file stays at its path; the share is then as it   *)
(* was, and the answer is the error that led to the clean-up.              *)
ReplyAfterCleanUp ==
  [][\A r \in Req :
       h[r].op = "upload" /\ h[r].pc # "done" /\ h'[r].pc = "done"
       => \/ h[r].to = Root \/ h[r].to \notin DOMAIN tree'
          \/ /\ At(r, "u_clean") /\ "io" \in Fault /\ tree' = tree
             /\ h'[r].status \in {400, 500}]_vars

(* The store a client sees: everything but the temporary files.            *)
Seen == {p \in DOMAIN tree : ~TempNamed(p)}
Visible == [p \in Seen |-> IF tree[p] = Dir THEN Dir ELSE disk[tree[p]]]
AtStart == [p \in DOMAIN InitTree |-> IF InitTree[p] = Dir THEN Dir
                                      ELSE Body(InitTree[p], 2)]
Bodies == {Body(r, n) : r \in Req, n \in Size}
Store == INSTANCE AtomicStore WITH store <- Visible, Initial <- AtStart,
                                   Content <- Bodies

(* The handlers implement the store in which uploads, renames and deletes  *)
(* are atomic.                                                             *)
ImplementsStore == Store!Spec

(* Every handler answers once its client has sent the body and the disk is *)
(* done: no handler waits for another one, and none goes on for ever.      *)
ServerTurn(r) ==
  /\ Live(r) /\ ~At(r, "f_body")
  /\ At(r, "u_stream") => h[r].sent = h[r].size
AnswersOrWaits == \A r \in Req : ServerTurn(r) ~> ~ServerTurn(r)

-----------------------------------------------------------------------------
(* What the documentation, the comments and the tests say of the handlers; *)
(* the runs named Doc* check them one at a time.                           *)

Answers(r, op, code) ==
  h[r].op = op /\ h[r].pc # "done" /\ h'[r].pc = "done" /\ h'[r].status = code

(* "prefixing the name with a timestamp so concurrent deletes can't clash" *)
(* (fs_ops.rs:145): a delete never finds its trash name taken.             *)
DeletesNeverClash ==
  [][\A r \in Req :
       Answers(r, "delete", 200) => h[r].to \notin DOMAIN tree]_vars

(* "GET full body matches" (test_api.ps1:89): a download without a Range   *)
(* that delivers all it announced has delivered the whole file.            *)
FullDownloadIsWhole ==
  \A r \in Req :
     /\ h[r].op = "file" /\ h[r].pc = "done" /\ h[r].status = 200
     /\ h[r].fd # Dir /\ Len(h[r].got) = h[r].want
     => h[r].got = Whole(h[r].fd)
=============================================================================
