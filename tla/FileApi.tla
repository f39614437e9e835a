------------------------------ MODULE FileApi ------------------------------
(***************************************************************************)
(* The file API of flyo: the six handlers of flyo/src/handlers.rs with the *)
(* functions of flyo/src/fs_ops.rs they call, run concurrently over one    *)
(* share.  Each request has a handler of its own; a handler is a sequence  *)
(* of file-system calls and any two handlers interleave between calls.     *)
(*                                                                         *)
(* Only upload() and file() suspend (`.await`); list, mkdir, rename and    *)
(* delete make blocking calls inside one poll, but on a multi-threaded     *)
(* runtime, so their calls interleave with those of other handlers too.    *)
(***************************************************************************)
EXTENDS ShareTree, RangeMath

CONSTANTS Req,        \* one handler per request
          Seed,       \* the files the share holds at start
          InitTree,   \* the tree at start
          Op,         \* which endpoints are called
          Target,     \* the virtual paths clients name in ?path=, ?from=, ?to=
          PermSet,    \* the permission sets a request may run with
          Size,       \* body lengths of uploads, in chunks
          RangeHdr,   \* the Range headers of downloads
          Fault,      \* which of "stream", "io", "drop", "crash" may happen
          MaxTime     \* bound on the clock, in seconds

VARIABLES tree,   \* the namespace below cfg.root
          disk,   \* disk[i]: the chunks in inode i, << writer, position >>
          now,    \* SystemTime::now(), whole seconds
          h       \* h[r]: where handler r stands and its local variables

vars == << tree, disk, now, h >>

PlainPath(p) == \A k \in 1 .. Len(p) : ~IsTemp(p[k])

ASSUME FileApiAssumption ==
  /\ Ino = Req \union Seed /\ Req \intersect Seed = {}
  /\ Op \subseteq {"list", "file", "upload", "mkdir", "rename", "delete"}
  /\ Target \subseteq Path /\ \A p \in Target : PlainPath(p)
  /\ Size \subseteq Nat /\ RangeHdr \subseteq Header /\ MaxTime \in Nat
  /\ DOMAIN InitTree \subseteq Path /\ WellFormed(InitTree)
  /\ \A p \in DOMAIN InitTree : /\ PlainPath(p) /\ p # Root
                                /\ InitTree[p] \in Seed \union {Dir}
  /\ \A p, q \in DOMAIN InitTree :
       InitTree[p] = InitTree[q] /\ InitTree[p] # Dir => p = q
  /\ Dir \notin Seq(Ino \X Nat)   \* what a file holds is not mistaken for it

(* Local variables of a handler before its request arrives.  `to` is the   *)
(* rename destination, the temporary file of an upload or the trash entry  *)
(* of a delete; `lvl` is the progress of create_dir_all; start and want    *)
(* are where a download starts and the Content-Length it announced; todo   *)
(* are directory entries read whose metadata is still to be fetched.       *)
Idle == [pc |-> "idle", op |-> "none", perms |-> {}, path |-> Root,
         to |-> Root, size |-> 0, sent |-> 0, fd |-> Dir, lvl |-> 0,
         hdr |-> [form |-> "absent", a |-> 0, b |-> 0], total |-> 0,
         start |-> 0, want |-> 0, got |-> << >>, todo |-> {}, names |-> {},
         status |-> 0]

(* The content of n chunks that writer u gives a file, and the content of  *)
(* the file it writes: its whole body.  A seed file has two chunks.        *)
Body(u, n) == [k \in 1 .. n |-> << u, k >>]
Whole(u) == Body(u, IF u \in Seed THEN 2 ELSE h[u].size)

Init ==
  /\ tree = InitTree
  /\ disk = [i \in Ino |-> IF i \in Seed THEN Body(i, 2) ELSE << >>]
  /\ now = 0
  /\ h = [r \in Req |-> Idle]

Go(r, label) == h' = [h EXCEPT ![r].pc = label]
Reply(r, code) == h' = [h EXCEPT ![r].pc = "done", ![r].status = code]
At(r, label) == h[r].pc = label

-----------------------------------------------------------------------------
(* A request arrives: the CurrentUser extractor has fixed its permissions, *)
(* the handler's gate compares them and resolve() rejects "..".            *)

Need == [list |-> "l", file |-> "r", upload |-> "u",
         mkdir |-> "u", rename |-> "m", delete |-> "m"]

FirstCall == [list |-> "l_stat", file |-> "f_stat", upload |-> "u_parent",
              mkdir |-> "m_check", rename |-> "r_check", delete |-> "d_check"]

Resolves(p) == \A k \in 1 .. Len(p) : p[k].base # ".."

Gate(op, perms, p, q) ==
  IF Need[op] \notin perms THEN 403
  ELSE IF ~(Resolves(p) /\ Resolves(q)) THEN 400 ELSE 0

Arrive(r) ==
  /\ At(r, "idle")
  /\ \E op \in Op, perms \in PermSet, p \in Target :
     \E q \in IF op = "rename" THEN Target ELSE {Root},
        n \in IF op = "upload" THEN Size ELSE {0},
        g \in IF op = "file" THEN RangeHdr ELSE {Idle.hdr} :
       /\ op = "upload" => p # Root
       /\ LET code == Gate(op, perms, p, q)
          IN  h' = [h EXCEPT ![r] =
                [Idle EXCEPT !.pc = IF code = 0 THEN FirstCall[op] ELSE "done",
                             !.op = op, !.perms = perms, !.path = p, !.to = q,
                             !.size = n, !.hdr = g, !.status = code]]
  /\ UNCHANGED << tree, disk, now >>

-----------------------------------------------------------------------------
(* fs::create_dir_all, as upload, mkdir, rename and delete use it.         *)

Wanted(r) == CASE h[r].op = "upload" -> Front(h[r].path)
               [] h[r].op = "mkdir"  -> h[r].path
               [] h[r].op = "rename" -> Front(h[r].to)
               [] h[r].op = "delete" -> TrashPath

(* What the caller does once the directory is there.                       *)
AfterDirs(r) ==
  CASE h[r].op = "upload" -> Go(r, "u_create")
    [] h[r].op = "mkdir"  -> Reply(r, 200)
    [] h[r].op = "rename" -> Go(r, "r_rename")
    [] h[r].op = "delete" -> Go(r, "d_stamp")

(* There is nothing to make.                                               *)
DirsThere(r) ==
  /\ At(r, "mkdirs") /\ h[r].lvl = 0 /\ Missing(tree, Wanted(r)) = {}
  /\ IF IsDir(tree, Wanted(r)) THEN AfterDirs(r) ELSE Reply(r, 500)
  /\ UNCHANGED << tree, disk, now >>

(* One mkdir(2).  A directory that is already there is no error, a file in *)
(* the way or a parent that has gone is.                                   *)
MakeDir(r) ==
  /\ At(r, "mkdirs")
  /\ UNCHANGED << disk, now >>
  /\ \E k \in 1 .. Len(Wanted(r)) :
       LET d == SubSeq(Wanted(r), 1, k)
       IN  /\ IsNextLevel(tree, Wanted(r), h[r].lvl, k)
           /\ IF IsFile(tree, d) \/ ~IsDir(tree, Front(d))
              THEN Reply(r, 500) /\ UNCHANGED tree
              ELSE /\ tree' = IF d \in DOMAIN tree THEN tree
                                                   ELSE Link(tree, d, Dir)
                   /\ IF k = Len(Wanted(r)) THEN AfterDirs(r)
                      ELSE h' = [h EXCEPT ![r].lvl = k]

-----------------------------------------------------------------------------
(* upload()                                                                *)

UploadParent(r) ==
  /\ At(r, "u_parent")
  /\ Go(r, IF Exists(tree, Front(h[r].path)) THEN "u_create" ELSE "mkdirs")
  /\ UNCHANGED << tree, disk, now >>

(* Mutation of FreshSuffix: two uploads may draw the same suffix.          *)
AnySuffix == Suffix

(* rand_suffix() draws 8 of 36 characters: draws do not repeat.            *)
Drawn == {Last(h[q].to).tmp : q \in {x \in Req : h[x].op = "upload"
                                                 /\ h[x].to # Root}}
FreshSuffix == Suffix \ Drawn

(* Mutation of UploadCreate: the directory that u_parent found, or mkdirs  *)
(* made, is taken to be there still when the file is created.              *)
ParentStillThere(r) ==
  /\ At(r, "u_create")
  /\ UNCHANGED now
  /\ \E s \in FreshSuffix :
       LET tmp == TmpSibling(h[r].path, s)
       IN  /\ tree' = Link(tree, tmp, r)
           /\ disk' = [disk EXCEPT ![r] = << >>]
           /\ h' = [h EXCEPT ![r].pc = "u_stream", ![r].to = tmp, ![r].fd = r]

(* File::create(tmp): truncates a file that is already there.  `label` is  *)
(* what becomes of the handler.                                            *)
CreateTemp(r, label) ==
  \E s \in FreshSuffix :
    LET tmp == TmpSibling(h[r].path, s)
        fd  == IF tmp \in DOMAIN tree THEN tree[tmp] ELSE r
    IN  /\ IsDir(tree, Front(tmp)) /\ ~IsDir(tree, tmp)
        /\ tree' = Link(tree, tmp, fd)
        /\ disk' = [disk EXCEPT ![fd] = << >>]
        /\ h' = [h EXCEPT ![r].pc = label, ![r].to = tmp, ![r].fd = fd]

UploadCreate(r) ==
  /\ At(r, "u_create")
  /\ UNCHANGED now
  /\ \/ CreateTemp(r, "u_stream")
     \/ /\ \E s \in FreshSuffix :
             LET tmp == TmpSibling(h[r].path, s)
             IN  \/ ~IsDir(tree, Front(tmp)) \/ IsDir(tree, tmp)
                 \/ "io" \in Fault
        /\ Reply(r, 500) /\ UNCHANGED << tree, disk >>

(* write_all of chunk k by upload u at the handle's own offset.            *)
WriteAt(data, k, u) ==
  IF k <= Len(data) THEN [data EXCEPT ![k] = << u, k >>]
                    ELSE Append(data, << u, k >>)

UploadChunk(r) ==
  /\ At(r, "u_stream") /\ h[r].sent < h[r].size
  /\ disk' = [disk EXCEPT ![h[r].fd] = WriteAt(@, h[r].sent + 1, r)]
  /\ h' = [h EXCEPT ![r].sent = @ + 1]
  /\ UNCHANGED << tree, now >>

(* Mutation of UploadBroken: an error of the stream taken for its end.     *)
BrokenIsEnd(r) ==
  /\ "stream" \in Fault
  /\ At(r, "u_stream") /\ h[r].sent < h[r].size
  /\ Go(r, "u_rename")
  /\ UNCHANGED << tree, disk, now >>

(* Mutation of UploadBroken: the reply leaves the temporary file behind.   *)
BrokenKeepsTemp(r) ==
  /\ "stream" \in Fault
  /\ At(r, "u_stream") /\ h[r].sent < h[r].size
  /\ Reply(r, 400)
  /\ UNCHANGED << tree, disk, now >>

(* The body stream yields an error: the connection broke.                  *)
UploadBroken(r) ==
  /\ "stream" \in Fault
  /\ At(r, "u_stream") /\ h[r].sent < h[r].size
  /\ h' = [h EXCEPT ![r].pc = "u_clean", ![r].status = 400]
  /\ UNCHANGED << tree, disk, now >>

(* write_all or flush fails, e.g. the disk is full.                        *)
UploadWriteFails(r) ==
  /\ "io" \in Fault
  /\ At(r, "u_stream")
  /\ h' = [h EXCEPT ![r].pc = "u_clean", ![r].status = 500]
  /\ UNCHANGED << tree, disk, now >>

UploadFlush(r) ==
  /\ At(r, "u_stream") /\ h[r].sent = h[r].size
  /\ Go(r, "u_rename")
  /\ UNCHANGED << tree, disk, now >>

(* Mutation of UploadRename: a rename that fails is tried again.           *)
RenameRetries(r) ==
  /\ At(r, "u_rename")
  /\ UNCHANGED << disk, now >>
  /\ IF CanRename(tree, h[r].to, h[r].path)
     THEN tree' = Rename(tree, h[r].to, h[r].path) /\ Reply(r, 200)
     ELSE UNCHANGED << tree, h >>

UploadRename(r) ==
  /\ At(r, "u_rename")
  /\ UNCHANGED << disk, now >>
  /\ IF CanRename(tree, h[r].to, h[r].path)
     THEN tree' = Rename(tree, h[r].to, h[r].path) /\ Reply(r, 200)
     ELSE /\ h' = [h EXCEPT ![r].pc = "u_clean", ![r].status = 500]
          /\ UNCHANGED tree

(* Mutation of UploadClean: it removes the file that was asked for.        *)
CleanTarget(r) ==
  /\ At(r, "u_clean")
  /\ tree' = IF IsFile(tree, h[r].path) THEN Unlink(tree, h[r].path) ELSE tree
  /\ Go(r, "done")
  /\ UNCHANGED << disk, now >>

(* remove_file(path) of a file the disk lets go, or of what is not there.  *)
(* An I/O error leaves the share as it was.                                *)
RemoveFile(path) ==
  \/ tree' = IF IsFile(tree, path) THEN Unlink(tree, path) ELSE tree
  \/ "io" \in Fault /\ UNCHANGED tree

(* let _ = remove_file(tmp): whatever comes of it, the reply is sent.      *)
UploadClean(r) ==
  /\ At(r, "u_clean")
  /\ RemoveFile(h[r].to)
  /\ Go(r, "done")
  /\ UNCHANGED << disk, now >>

(* The client goes away once its whole body is in, or the stream has       *)
(* yielded the error that it went away before: the server drops the        *)
(* handler's future at the await it is suspended in, and nothing cleans up.*)
(* A call already handed to the blocking pool still runs: create_dir_all   *)
(* to its end, which leaves the handler at "u_create", then File::create,  *)
(* the last write, the rename or the removal.                              *)
UploadDropped(r) ==
  /\ "drop" \in Fault /\ (h[r].sent + 1 >= h[r].size \/ h[r].status = 400)
  /\ UNCHANGED now
  /\ \/ At(r, "u_create") /\ CreateTemp(r, "gone")
     \/ /\ Go(r, "gone") /\ UNCHANGED disk
        /\ \/ h[r].pc \in {"u_create", "u_stream"} /\ UNCHANGED tree
           \/ /\ At(r, "u_rename")
              /\ tree' = IF CanRename(tree, h[r].to, h[r].path)
                         THEN Rename(tree, h[r].to, h[r].path) ELSE tree
           \/ At(r, "u_clean") /\ RemoveFile(h[r].to)

-----------------------------------------------------------------------------
(* file()                                                                  *)

FileStat(r) ==
  /\ At(r, "f_stat")
  /\ LET p == h[r].path
     IN  IF IsFile(tree, p)
         THEN h' = [h EXCEPT ![r].pc = "f_open",
                             ![r].total = Len(disk[tree[p]])]
         ELSE Reply(r, IF Blocked(tree, p) THEN 500
                       ELSE IF Exists(tree, p) THEN 400 ELSE 404)
  /\ UNCHANGED << tree, disk, now >>

(* open(2) by name, a second time: the entry may be another file by now,   *)
(* or a directory, which opens but cannot be read.                         *)
FileOpen(r) ==
  /\ At(r, "f_open")
  /\ LET p == h[r].path
         reply == Plan(h[r].hdr, h[r].total)
     IN  IF ~Exists(tree, p) THEN Reply(r, 500)
         ELSE IF reply.status = 416 THEN Reply(r, 416)
         ELSE h' = [h EXCEPT ![r].pc = "f_body", ![r].status = reply.status,
                             ![r].fd = IF IsFile(tree, p) THEN tree[p]
                                                          ELSE Dir,
                             ![r].start = reply.start,
                             ![r].want = reply.length]
  /\ UNCHANGED << tree, disk, now >>

(* Mutation of FileBody: each read opens the path again.                   *)
BodyByName(r) ==
  /\ At(r, "f_body")
  /\ LET p == h[r].path
         k == h[r].start + Len(h[r].got) + 1
     IN  IF /\ Len(h[r].got) < h[r].want /\ IsFile(tree, p)
            /\ k <= Len(disk[tree[p]])
         THEN h' = [h EXCEPT ![r].got = Append(@, disk[tree[p]][k])]
         ELSE Go(r, "done")
  /\ UNCHANGED << tree, disk, now >>

(* ReaderStream over file.take(length): one read per chunk until the limit *)
(* or the end of the file.                                                 *)
FileBody(r) ==
  /\ At(r, "f_body")
  /\ LET k == h[r].start + Len(h[r].got) + 1
     IN  IF Len(h[r].got) < h[r].want /\ h[r].fd # Dir
            /\ k <= Len(disk[h[r].fd])
         THEN h' = [h EXCEPT ![r].got = Append(@, disk[h[r].fd][k])]
         ELSE Go(r, "done")
  /\ UNCHANGED << tree, disk, now >>

-----------------------------------------------------------------------------
(* list(): symlink_metadata, read_dir, then entry.metadata() of each entry.*)

ListStat(r) ==
  /\ At(r, "l_stat")
  /\ LET p == h[r].path
     IN  IF IsDir(tree, p) THEN Go(r, "l_read")
         ELSE Reply(r, IF Blocked(tree, p) THEN 500
                       ELSE IF Exists(tree, p) THEN 400 ELSE 404)
  /\ UNCHANGED << tree, disk, now >>

Listable(n, perms) == n # Plain(".Trash") /\ ("S" \in perms \/ ~Hidden(n))

ListRead(r) ==
  /\ At(r, "l_read")
  /\ IF IsDir(tree, h[r].path)
     THEN h' = [h EXCEPT ![r].pc = "l_meta",
                         ![r].todo =
            {n \in {Last(q) : q \in Children(tree, h[r].path)} :
               Listable(n, h[r].perms)}]
     ELSE Reply(r, 500)
  /\ UNCHANGED << tree, disk, now >>

(* An entry that has gone is skipped; one that only moved away with its    *)
(* directory is still found through the open directory, hence the choice.  *)
ListMeta(r) ==
  /\ At(r, "l_meta")
  /\ UNCHANGED << tree, disk, now >>
  /\ IF h[r].todo = {} THEN Reply(r, 200)
     ELSE \E n \in h[r].todo, found \in BOOLEAN :
            /\ Append(h[r].path, n) \in DOMAIN tree => found
            /\ h' = [h EXCEPT ![r].todo = @ \ {n},
                              ![r].names = IF found THEN @ \union {n} ELSE @]

-----------------------------------------------------------------------------
(* mkdir(), rename() and delete()                                          *)

MkdirCheck(r) ==
  /\ At(r, "m_check")
  /\ IF Exists(tree, h[r].path) THEN Reply(r, 409) ELSE Go(r, "mkdirs")
  /\ UNCHANGED << tree, disk, now >>

RenameCheck(r) ==
  /\ At(r, "r_check")
  /\ IF Exists(tree, h[r].path) THEN Go(r, "r_parent") ELSE Reply(r, 404)
  /\ UNCHANGED << tree, disk, now >>

(* Renaming onto the root: b.parent() lies above the share and exists.     *)
RenameParent(r) ==
  /\ At(r, "r_parent")
  /\ Go(r, IF h[r].to = Root \/ Exists(tree, Front(h[r].to))
           THEN "r_rename" ELSE "mkdirs")
  /\ UNCHANGED << tree, disk, now >>

DeleteCheck(r) ==
  /\ At(r, "d_check")
  /\ IF Exists(tree, h[r].path) THEN Go(r, "mkdirs") ELSE Reply(r, 404)
  /\ UNCHANGED << tree, disk, now >>

DeleteStamp(r) ==
  /\ At(r, "d_stamp")
  /\ h' = [h EXCEPT ![r].pc = "d_rename",
                    ![r].to = TrashTarget(h[r].path, now)]
  /\ UNCHANGED << tree, disk, now >>

(* fs::rename(a, b), the last call of rename() and of delete_to_trash().   *)
MoveEntry(r, label) ==
  /\ At(r, label)
  /\ UNCHANGED << disk, now >>
  /\ IF CanRename(tree, h[r].path, h[r].to)
     THEN tree' = Rename(tree, h[r].path, h[r].to) /\ Reply(r, 200)
     ELSE UNCHANGED tree /\ Reply(r, 500)

RenameMove(r) == MoveEntry(r, "r_rename")
DeleteMove(r) == MoveEntry(r, "d_rename")

-----------------------------------------------------------------------------
(* The clock, and the process: a panic aborts it, a restart serves the     *)
(* requests that have not arrived yet over the same share.                 *)

Tick == now < MaxTime /\ now' = now + 1 /\ UNCHANGED << tree, disk, h >>

Live(r) == h[r].pc \notin {"idle", "done", "gone"}

Crash ==
  /\ "crash" \in Fault
  /\ \E r \in Req : Live(r)
  /\ h' = [r \in Req |-> IF Live(r) THEN [h[r] EXCEPT !.pc = "gone"] ELSE h[r]]
  /\ UNCHANGED << tree, disk, now >>

(* The steps of the server's own code, whatever clients and disks do.      *)
ServerStep(r) ==
  \/ DirsThere(r) \/ MakeDir(r)
  \/ UploadParent(r) \/ UploadCreate(r) \/ UploadFlush(r)
  \/ UploadRename(r) \/ UploadClean(r)
  \/ FileStat(r) \/ FileOpen(r)
  \/ ListStat(r) \/ ListRead(r) \/ ListMeta(r)
  \/ MkdirCheck(r)
  \/ RenameCheck(r) \/ RenameParent(r) \/ RenameMove(r)
  \/ DeleteCheck(r) \/ DeleteStamp(r) \/ DeleteMove(r)

ClientStep(r) ==
  \/ Arrive(r) \/ UploadChunk(r) \/ UploadBroken(r) \/ UploadWriteFails(r)
  \/ UploadDropped(r) \/ FileBody(r)

(* Every request has been served: the server waits for more.               *)
AllServed == /\ \A r \in Req : h[r].pc \in {"done", "gone"}
             /\ UNCHANGED vars

Next ==
  \/ \E r \in Req : ServerStep(r) \/ ClientStep(r)
  \/ Tick
  \/ Crash
  \/ AllServed

Spec == Init /\ [][Next]_vars

(* The runtime keeps polling every handler that is ready; it owes nothing  *)
(* to a handler that waits for its client.                                 *)
FairSpec == Spec /\ \A r \in Req : WF_vars(ServerStep(r))
=============================================================================
