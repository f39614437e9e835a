---------------------------- MODULE StoreProofs ----------------------------
(***************************************************************************)
(* What the handlers of FileApi promise of the share, for any number of    *)
(* requests, any share and any faults: the action properties of            *)
(* FileApiProps, that the handlers implement AtomicStore, and that no      *)
(* download is torn.                                                       *)
(***************************************************************************)
EXTENDS FileApiProofs

-----------------------------------------------------------------------------
(* What a step may do to the share.                                        *)

(* Handler r, and no other, takes a step in the middle of its request.     *)
Inside(r) ==
  /\ h[r].pc \notin {"idle", "done", "gone"}
  /\ \A q \in Req \ {r} : h'[q] = h[q]
  /\ h'[r].op = h[r].op /\ h'[r].path = h[r].path /\ h'[r].size = h[r].size

(* An upload is not told that it is stored.                                *)
NotStored(r) ==
  h[r].op = "upload" /\ h'[r].status = 200 => h[r].status = 200

(* An upload is not answered once it has a temporary file.                 *)
NotAnswered(r) == h[r].op = "upload" /\ h'[r].pc = "done" => h[r].to = Root

Looks(r) == UNCHANGED << tree, disk >> /\ NotStored(r) /\ NotAnswered(r)

Makes(r) ==
  /\ NotStored(r) /\ NotAnswered(r) /\ disk' = disk
  /\ \E d \in Path :
       /\ d # Root /\ PlainPath(d) /\ d \notin DOMAIN tree
       /\ IsDir(tree, Front(d)) /\ tree' = Link(tree, d, Dir)

Creates(r) ==
  /\ At(r, "u_create") /\ NotStored(r) /\ NotAnswered(r)
  /\ disk' = [disk EXCEPT ![r] = << >>]
  /\ \E p \in Path :
       /\ p # Root /\ TempNamed(p) /\ p \notin DOMAIN tree
       /\ tree' = Link(tree, p, r)

Writes(r) ==
  /\ At(r, "u_stream") /\ NotStored(r) /\ NotAnswered(r) /\ tree' = tree
  /\ disk' = [disk EXCEPT ![r] = Body(r, h[r].sent + 1)]

(* The temporary file of upload r is its own, beside the file it was asked *)
(* for.                                                                    *)
OwnTemp(r) ==
  /\ h[r].op = "upload"
  /\ h[r].path \in Path /\ h[r].path # Root /\ PlainPath(h[r].path)
  /\ h[r].to \in Path /\ h[r].to # Root /\ TempNamed(h[r].to)
  /\ h[r].to \in DOMAIN tree => tree[h[r].to] = r

Commits(r) ==
  /\ At(r, "u_rename") /\ OwnTemp(r) /\ disk[r] = Body(r, h[r].size)
  /\ CanRename(tree, h[r].to, h[r].path)
  /\ tree' = Rename(tree, h[r].to, h[r].path) /\ disk' = disk

Cleans(r) ==
  /\ At(r, "u_clean") /\ OwnTemp(r) /\ NotStored(r) /\ disk' = disk
  /\ h'[r].status = h[r].status
  /\ \/ h[r].to \in DOMAIN tree /\ tree' = Unlink(tree, h[r].to)
     \/ h[r].to \notin DOMAIN tree /\ tree' = tree
     \/ "io" \in Fault /\ tree' = tree

Relocates(r) ==
  /\ h[r].op # "upload" /\ disk' = disk
  /\ \E a, b \in Path :
       /\ PlainPath(a) /\ PlainPath(b)
       /\ CanRename(tree, a, b) /\ tree' = Rename(tree, a, b)

Changes(r) == \/ Looks(r) \/ Makes(r) \/ Creates(r) \/ Writes(r)
              \/ Commits(r) \/ Cleans(r) \/ Relocates(r)

(* A request arrives.                                                      *)
Enters(r) ==
  /\ UNCHANGED << tree, disk >> /\ h[r].pc = "idle" /\ h[r].op = "none"
  /\ \A q \in Req \ {r} : h'[q] = h[q]
  /\ h'[r].op = "upload" => h'[r].size \in Size
  /\ h'[r].pc # "f_body" /\ h'[r].got = << >>

(* The clock ticks, nothing happens or the process ends.                   *)
Outside ==
  /\ UNCHANGED << tree, disk >>
  /\ \A r \in Req :
       \/ h'[r] = h[r]
       \/ /\ h[r].pc \notin {"idle", "done", "gone"}
          /\ h'[r] = [h[r] EXCEPT !.pc = "gone"]

-----------------------------------------------------------------------------
(* Every step is one of these.                                             *)

(* A handler that only moves to another label.                             *)
LEMMA GoShape ==
  ASSUME IInv, NEW r \in Req, h[r].pc \notin {"idle", "done", "gone"},
         NEW label, label = "done" => h[r].op # "upload",
         Go(r, label)
  PROVE  Inside(r) /\ NotStored(r) /\ NotAnswered(r)
BY LocalFacts DEF Handler, Go, Inside, NotStored, NotAnswered

(* A handler that replies, without a temporary file.                       *)
LEMMA ReplyShape ==
  ASSUME IInv, NEW r \in Req, h[r].pc \notin {"idle", "done", "gone"},
         NEW code, Reply(r, code),
         h[r].op = "upload" => code # 200 /\ h[r].to = Root
  PROVE  Inside(r) /\ NotStored(r) /\ NotAnswered(r)
BY LocalFacts DEF Handler, Reply, Inside, NotStored, NotAnswered

(* The steps that look at the share.                                       *)
LEMMA LookShape ==
  ASSUME IInv, NEW r \in Req,
         \/ DirsThere(r) \/ UploadParent(r) \/ UploadFlush(r)
         \/ FileStat(r) \/ FileOpen(r) \/ FileBody(r)
         \/ ListStat(r) \/ ListRead(r) \/ ListMeta(r)
         \/ MkdirCheck(r) \/ RenameCheck(r) \/ RenameParent(r)
         \/ DeleteCheck(r) \/ DeleteStamp(r)
         \/ UploadBroken(r) \/ UploadWriteFails(r)
  PROVE  Inside(r) /\ Looks(r)
<1>1. /\ h[r] \in Handler /\ Role(h[r]) /\ Stage(r, h[r], disk[r])
      /\ h \in [Req -> Handler]
  BY LocalFacts
<1>2. UNCHANGED << tree, disk >>
  BY DEF DirsThere, UploadParent, UploadFlush, FileStat, FileOpen, FileBody,
         ListStat, ListRead, ListMeta, MkdirCheck, RenameCheck, RenameParent,
         DeleteCheck, DeleteStamp, UploadBroken, UploadWriteFails
<1>3. CASE DirsThere(r)
  <2>1. h[r].pc = "mkdirs" /\ (AfterDirs(r) \/ Reply(r, 500))
    BY <1>3 DEF DirsThere, At
  <2>2. \/ h[r].op # "upload" /\ Reply(r, 200)
        \/ Reply(r, 500)
        \/ \E label : label # "done" /\ Go(r, label)
    BY <1>1, <2>1 DEF AfterDirs, Role
  <2> QED
    BY <1>1, <1>2, <2>1, <2>2, GoShape, ReplyShape DEF Looks, Stage
<1>4. CASE UploadParent(r) \/ UploadFlush(r) \/ RenameParent(r)
  <2>1. h[r].pc \in {"u_parent", "u_stream", "r_parent"}
        /\ \E label : label # "done" /\ Go(r, label)
    BY <1>4 DEF UploadParent, UploadFlush, RenameParent, At
  <2> QED
    BY <1>2, <2>1, GoShape DEF Looks
<1>5. CASE ListStat(r) \/ MkdirCheck(r) \/ RenameCheck(r) \/ DeleteCheck(r)
  <2>1. /\ h[r].pc \in {"l_stat", "m_check", "r_check", "d_check"}
        /\ h[r].op # "upload"
        /\ \/ \E code : Reply(r, code)
           \/ \E label : Go(r, label)
    BY <1>1, <1>5 DEF ListStat, MkdirCheck, RenameCheck, DeleteCheck, At, Role
  <2> QED
    BY <1>2, <2>1, GoShape, ReplyShape DEF Looks
<1>6. CASE FileStat(r) \/ FileOpen(r) \/ FileBody(r)
  <2>1. h[r].pc \in {"f_stat", "f_open", "f_body"} /\ h[r].op = "file"
    BY <1>1, <1>6 DEF FileStat, FileOpen, FileBody, At, Role
  <2>2. ASSUME FileStat(r)
        PROVE  \/ \E code : Reply(r, code)
               \/ \E n : h' = [h EXCEPT ![r].pc = "f_open", ![r].total = n]
    BY <2>2 DEF FileStat
  <2> DEFINE p == h[r].path
             reply == Plan(h[r].hdr, h[r].total)
             fd == IF IsFile(tree, p) THEN tree[p] ELSE Dir
  <2>3. ASSUME FileOpen(r)
        PROVE  \/ \E code : Reply(r, code)
               \/ h' = [h EXCEPT ![r].pc = "f_body",
                                 ![r].status = reply.status, ![r].fd = fd,
                                 ![r].start = reply.start,
                                 ![r].want = reply.length]
    BY <2>3 DEF FileOpen
  <2> HIDE DEF reply, fd, p
  <2>4. ASSUME FileBody(r)
        PROVE  \/ Go(r, "done")
               \/ \E g : h' = [h EXCEPT ![r].got = g]
    BY <2>4 DEF FileBody
  <2>5. ASSUME NEW code, Reply(r, code)
        PROVE  Inside(r)
    BY <2>1, <2>5, ReplyShape
  <2>6. ASSUME NEW n, h' = [h EXCEPT ![r].pc = "f_open", ![r].total = n]
        PROVE  Inside(r)
    BY <1>1, <2>1, <2>6 DEF Inside, Handler
  <2>7. ASSUME h' = [h EXCEPT ![r].pc = "f_body",
                              ![r].status = reply.status, ![r].fd = fd,
                              ![r].start = reply.start,
                              ![r].want = reply.length]
        PROVE  Inside(r)
    BY <1>1, <2>1, <2>7 DEF Inside, Handler
  <2>8. ASSUME NEW g, h' = [h EXCEPT ![r].got = g]
        PROVE  Inside(r)
    BY <1>1, <2>1, <2>8 DEF Inside, Handler
  <2>9. Go(r, "done") => Inside(r)
    BY <2>1, GoShape
  <2>10. Inside(r)
    <3>1. FileStat(r) => Inside(r)
      BY <2>2, <2>5, <2>6
    <3>2. FileOpen(r) => Inside(r)
      BY <2>3, <2>5, <2>7
    <3>3. FileBody(r) => Inside(r)
      BY <2>4, <2>8, <2>9
    <3> QED
      BY <1>6, <3>1, <3>2, <3>3
  <2> QED
    BY <1>2, <2>1, <2>10 DEF Looks, NotStored, NotAnswered
<1>7. CASE ListRead(r) \/ ListMeta(r)
  <2>1. h[r].pc \in {"l_read", "l_meta"} /\ h[r].op = "list"
    BY <1>1, <1>7 DEF ListRead, ListMeta, At, Role
  <2>2. \/ \E code : Reply(r, code)
        \/ \E s : h' = [h EXCEPT ![r].pc = "l_meta", ![r].todo = s]
        \/ \E s, t : h' = [h EXCEPT ![r].todo = s, ![r].names = t]
    BY <1>7 DEF ListRead, ListMeta
  <2>3. ASSUME NEW code, Reply(r, code)
        PROVE  Inside(r)
    BY <2>1, <2>3, ReplyShape
  <2>4. ASSUME NEW s, h' = [h EXCEPT ![r].pc = "l_meta", ![r].todo = s]
        PROVE  Inside(r)
    BY <1>1, <2>1, <2>4 DEF Inside, Handler
  <2>5. ASSUME NEW s, NEW t, h' = [h EXCEPT ![r].todo = s, ![r].names = t]
        PROVE  Inside(r)
    BY <1>1, <2>1, <2>5 DEF Inside, Handler
  <2>6. Inside(r)
    BY <2>2, <2>3, <2>4, <2>5
  <2> QED
    BY <1>2, <2>1, <2>6 DEF Looks, NotStored, NotAnswered
<1>8. CASE DeleteStamp(r)
  <2>1. h[r].pc = "d_stamp" /\ h[r].op = "delete"
    BY <1>1, <1>8 DEF DeleteStamp, At, Role
  <2>2. Inside(r)
    BY <1>1, <1>8, <2>1 DEF DeleteStamp, Inside, Handler
  <2> QED
    BY <1>2, <2>1, <2>2 DEF Looks, NotStored, NotAnswered
<1>9. CASE UploadBroken(r) \/ UploadWriteFails(r)
  <2>1. h[r].pc = "u_stream"
    BY <1>9 DEF UploadBroken, UploadWriteFails, At
  <2> QED
    BY <1>1, <1>2, <1>9, <2>1
       DEF UploadBroken, UploadWriteFails, Inside, Handler, Looks, NotStored,
           NotAnswered
<1> QED
  BY <1>3, <1>4, <1>5, <1>6, <1>7, <1>8, <1>9

(* create_dir_all: one level.                                              *)
LEMMA MakeDirShape ==
  ASSUME IInv, NEW r \in Req, MakeDir(r)
  PROVE  Inside(r) /\ (Looks(r) \/ Makes(r))
<1>1. /\ h[r] \in Handler /\ Role(h[r]) /\ Stage(r, h[r], disk[r])
      /\ h \in [Req -> Handler] /\ h[r].pc = "mkdirs" /\ disk' = disk
  BY LocalFacts DEF MakeDir, At
<1>2. PICK k \in 1 .. Len(Wanted(r)) :
        LET d == SubSeq(Wanted(r), 1, k)
        IN  IF IsFile(tree, d) \/ ~IsDir(tree, Front(d))
            THEN Reply(r, 500) /\ UNCHANGED tree
            ELSE /\ tree' = IF d \in DOMAIN tree THEN tree
                                                 ELSE Link(tree, d, Dir)
                 /\ IF k = Len(Wanted(r)) THEN AfterDirs(r)
                    ELSE h' = [h EXCEPT ![r].lvl = k]
  BY DEF MakeDir
<1> DEFINE d == SubSeq(Wanted(r), 1, k)
<1>3. d \in Path /\ d # Root /\ PlainPath(d)
  BY <1>1, WantedProperties, PlainPrefix
<1>4. \/ /\ Reply(r, 500) /\ tree' = tree
      \/ /\ AfterDirs(r) \/ h' = [h EXCEPT ![r].lvl = k]
         /\ \/ tree' = tree
            \/ /\ d \notin DOMAIN tree /\ IsDir(tree, Front(d))
               /\ tree' = Link(tree, d, Dir)
  BY <1>2
<1>5. \/ h[r].op # "upload" /\ Reply(r, 200)
      \/ Reply(r, 500)
      \/ \E label : label # "done" /\ Go(r, label)
      \/ h' = [h EXCEPT ![r].lvl = k]
  BY <1>1, <1>4 DEF AfterDirs, Role
<1>6. ASSUME h' = [h EXCEPT ![r].lvl = k]
      PROVE  Inside(r) /\ NotStored(r) /\ NotAnswered(r)
  BY <1>1, <1>6 DEF Inside, NotStored, NotAnswered, Handler
<1>7. Inside(r) /\ NotStored(r) /\ NotAnswered(r)
  BY <1>1, <1>5, <1>6, GoShape, ReplyShape DEF Stage
<1> HIDE DEF d
<1> QED
  BY <1>1, <1>3, <1>4, <1>7 DEF Looks, Makes

(* upload(): the temporary file is created, under a name nobody has.       *)
LEMMA CreateTempShape ==
  ASSUME IInv, NEW r \in Req, At(r, "u_create"),
         NEW label \in {"u_stream", "gone"}, CreateTemp(r, label)
  PROVE  Inside(r) /\ Creates(r)
<1>1. /\ h[r].pc = "u_create" /\ h[r].op = "upload"
      /\ h[r].path # Root /\ h[r].path \in Path
      /\ h \in [Req -> Handler] /\ h[r] \in Handler
  BY LocalFacts DEF At, Role, Naming, Handler
<1>2. PICK s \in FreshSuffix :
        LET tmp == TmpSibling(h[r].path, s)
            fd  == IF tmp \in DOMAIN tree THEN tree[tmp] ELSE r
        IN  /\ IsDir(tree, Front(tmp)) /\ ~IsDir(tree, tmp)
            /\ tree' = Link(tree, tmp, fd)
            /\ disk' = [disk EXCEPT ![fd] = << >>]
            /\ h' = [h EXCEPT ![r].pc = label, ![r].to = tmp, ![r].fd = fd]
  BY DEF CreateTemp
<1> DEFINE tmp == TmpSibling(h[r].path, s)
<1>3. /\ tmp \in Path /\ tmp # Root /\ TempNamed(tmp) /\ Last(tmp).tmp = s
      /\ s \in Suffix
  BY <1>1, TmpSiblingProperties DEF FreshSuffix
<1>4. \A q \in Req : Uploading(q) => SuffixOf(q) # s
  BY DEF FreshSuffix, Drawn, Uploading, SuffixOf
<1>5. tmp \notin DOMAIN tree
  BY <1>3, <1>4, TreeFacts DEF Entry, TempFile
<1>6. /\ tree' = Link(tree, tmp, r) /\ disk' = [disk EXCEPT ![r] = << >>]
      /\ h' = [h EXCEPT ![r].pc = label, ![r].to = tmp, ![r].fd = r]
  BY <1>2, <1>5
<1> HIDE DEF tmp
<1>7. Inside(r) /\ NotStored(r) /\ NotAnswered(r)
  BY <1>1, <1>6 DEF Inside, NotStored, NotAnswered, Handler
<1> QED
  BY <1>3, <1>5, <1>6, <1>7 DEF Creates

(* upload(): File::create.                                                 *)
LEMMA UploadCreateShape ==
  ASSUME IInv, NEW r \in Req, UploadCreate(r)
  PROVE  Inside(r) /\ (Looks(r) \/ Creates(r))
<1>1. /\ At(r, "u_create") /\ h[r].pc = "u_create" /\ h[r].to = Root
  BY LocalFacts DEF UploadCreate, At, Stage
<1>2. CASE CreateTemp(r, "u_stream")
  BY <1>1, <1>2, CreateTempShape
<1>3. CASE Reply(r, 500) /\ UNCHANGED << tree, disk >>
  BY <1>1, <1>3, ReplyShape DEF Looks
<1> QED
  BY <1>2, <1>3 DEF UploadCreate

(* upload(): one chunk.                                                    *)
LEMMA UploadChunkShape ==
  ASSUME IInv, NEW r \in Req, UploadChunk(r)
  PROVE  Inside(r) /\ Writes(r)
<1>1. /\ h[r].pc = "u_stream" /\ h[r].sent \in Nat /\ h[r].size \in Nat
      /\ h[r].sent < h[r].size /\ r \in Ino /\ h[r].fd = r
      /\ disk[r] = Body(r, h[r].sent)
      /\ h \in [Req -> Handler] /\ h[r] \in Handler
  BY LocalFacts DEF UploadChunk, At, Stage, Handler
<1>2. disk' = [disk EXCEPT ![r] = Body(r, h[r].sent + 1)] /\ tree' = tree
  BY <1>1, BodyGrows DEF UploadChunk
<1>3. h' = [h EXCEPT ![r].sent = h[r].sent + 1]
  BY <1>1 DEF UploadChunk
<1>4. Inside(r) /\ NotStored(r) /\ NotAnswered(r)
  BY <1>1, <1>3 DEF Inside, NotStored, NotAnswered, Handler
<1> QED
  BY <1>1, <1>2, <1>4 DEF Writes, At

(* What stands at the path of an upload's temporary file is its own.       *)
LEMMA OwnTempFacts ==
  ASSUME IInv, NEW r \in Req, h[r].pc \in {"u_rename", "u_clean"}
  PROVE  OwnTemp(r)
<1> DEFINE a == h[r].to
           b == h[r].path
<1>1. /\ h[r].op = "upload" /\ a # Root
      /\ b \in Path /\ b # Root /\ PlainPath(b)
  BY LocalFacts DEF Role, Stage, Handler, Naming
<1>2. PICK s \in Suffix : a = TmpSibling(b, s)
  BY <1>1, LocalFacts DEF Naming
<1>3. a \in Path /\ Last(a).tmp = s /\ TempNamed(a)
  BY <1>1, <1>2, TmpSiblingProperties
<1>4. ASSUME a \in DOMAIN tree
      PROVE  tree[a] = r
  <2>1. TempFile(tree[a], a)
    BY <1>3, <1>4, TreeFacts DEF Entry
  <2> QED
    BY <1>1, <2>1 DEF TempFile, IInv, HInv, OwnSuffix, Uploading, SuffixOf
<1> QED
  BY <1>1, <1>3, <1>4 DEF OwnTemp

(* upload(): the final rename.                                             *)
LEMMA UploadRenameShape ==
  ASSUME IInv, NEW r \in Req, UploadRename(r)
  PROVE  Inside(r) /\ (Looks(r) \/ Commits(r))
<1>1. /\ h[r].pc = "u_rename" /\ h[r].op = "upload"
      /\ disk' = disk /\ h \in [Req -> Handler] /\ h[r] \in Handler
      /\ disk[r] = Body(r, h[r].size)
  BY LocalFacts DEF UploadRename, At, Role, Stage
<1>2. \/ Reply(r, 200)
      \/ h' = [h EXCEPT ![r].pc = "u_clean", ![r].status = 500]
  BY DEF UploadRename
<1>3. Inside(r)
  BY <1>1, <1>2 DEF Inside, Handler, Reply
<1>4. CASE CanRename(tree, h[r].to, h[r].path)
  <2>1. tree' = Rename(tree, h[r].to, h[r].path)
    BY <1>4 DEF UploadRename
  <2> QED
    BY <1>1, <1>3, <1>4, <2>1, OwnTempFacts DEF Commits, At
<1>5. CASE ~CanRename(tree, h[r].to, h[r].path)
  <2>1. /\ tree' = tree
        /\ h' = [h EXCEPT ![r].pc = "u_clean", ![r].status = 500]
    BY <1>5 DEF UploadRename
  <2>2. NotStored(r) /\ NotAnswered(r)
    BY <1>1, <2>1 DEF NotStored, NotAnswered, Handler
  <2> QED
    BY <1>1, <1>3, <2>1, <2>2 DEF Looks
<1> QED
  BY <1>4, <1>5

(* upload(): the temporary file is removed, or stays because it cannot be. *)
LEMMA RemoveShape ==
  ASSUME IInv, NEW r \in Req, At(r, "u_clean"), RemoveFile(h[r].to),
         NEW label \in {"done", "gone"}, Go(r, label), disk' = disk
  PROVE  Inside(r) /\ Cleans(r)
<1>1. /\ h[r].pc = "u_clean" /\ h \in [Req -> Handler] /\ h[r] \in Handler
  BY LocalFacts DEF At
<1>2. \/ tree' = IF IsFile(tree, h[r].to) THEN Unlink(tree, h[r].to) ELSE tree
      \/ "io" \in Fault /\ tree' = tree
  BY DEF RemoveFile
<1>3. OwnTemp(r)
  BY <1>1, OwnTempFacts
<1>4. IsFile(tree, h[r].to) <=> h[r].to \in DOMAIN tree
  BY <1>3, FileApiAssumption, TreeAssumption DEF OwnTemp, IsFile
<1>5. Inside(r) /\ NotStored(r) /\ h'[r].status = h[r].status
  BY <1>1 DEF Inside, NotStored, Handler, Go
<1> QED
  BY <1>2, <1>3, <1>4, <1>5 DEF Cleans

(* upload(): its future is dropped.                                        *)
LEMMA UploadDroppedShape ==
  ASSUME IInv, NEW r \in Req, UploadDropped(r)
  PROVE  /\ Inside(r)
         /\ Looks(r) \/ Creates(r) \/ Commits(r) \/ Cleans(r)
<1>1. CASE At(r, "u_create") /\ CreateTemp(r, "gone")
  BY <1>1, CreateTempShape
<1>2. CASE /\ Go(r, "gone") /\ UNCHANGED disk
           /\ h[r].pc \in {"u_create", "u_stream"} /\ UNCHANGED tree
  BY <1>2, GoShape DEF Looks
<1>3. CASE /\ Go(r, "gone") /\ UNCHANGED disk /\ At(r, "u_rename")
           /\ tree' = IF CanRename(tree, h[r].to, h[r].path)
                      THEN Rename(tree, h[r].to, h[r].path) ELSE tree
  <2>1. h[r].pc = "u_rename" /\ disk[r] = Body(r, h[r].size)
    BY <1>3, LocalFacts DEF At, Stage
  <2>2. Inside(r) /\ NotStored(r) /\ NotAnswered(r)
    BY <1>3, <2>1, GoShape
  <2> QED
    BY <1>3, <2>1, <2>2, OwnTempFacts DEF Looks, Commits
<1>4. CASE /\ Go(r, "gone") /\ UNCHANGED disk /\ At(r, "u_clean")
           /\ RemoveFile(h[r].to)
  BY <1>4, RemoveShape
<1> QED
  BY <1>1, <1>2, <1>3, <1>4 DEF UploadDropped

(* rename and delete.                                                      *)
LEMMA MoveEntryShape ==
  ASSUME IInv, NEW r \in Req, RenameMove(r) \/ DeleteMove(r)
  PROVE  Inside(r) /\ (Looks(r) \/ Relocates(r))
<1>1. /\ h[r].pc \in {"r_rename", "d_rename"} /\ h[r].op # "upload"
      /\ disk' = disk
      /\ \/ /\ CanRename(tree, h[r].path, h[r].to) /\ Reply(r, 200)
            /\ tree' = Rename(tree, h[r].path, h[r].to)
         \/ tree' = tree /\ Reply(r, 500)
  BY LocalFacts DEF RenameMove, DeleteMove, MoveEntry, At, Role
<1>2. Inside(r) /\ NotStored(r) /\ NotAnswered(r)
  BY <1>1, ReplyShape
<1>3. /\ h[r].path \in Path /\ h[r].to \in Path
      /\ PlainPath(h[r].path) /\ PlainPath(h[r].to)
  BY <1>1, LocalFacts DEF Handler, Naming
<1> QED
  BY <1>1, <1>2, <1>3 DEF Looks, Relocates

(* The arrival of a request.                                               *)
LEMMA ArriveShape ==
  ASSUME IInv, NEW r \in Req, Arrive(r)
  PROVE  Enters(r)
<1>1. /\ h[r].pc = "idle" /\ h[r].op = "none" /\ UNCHANGED << tree, disk >>
      /\ h \in [Req -> Handler]
  BY LocalFacts DEF Arrive, At, Role
<1>2. PICK op \in Op, perms \in PermSet, p \in Target :
        \E q \in IF op = "rename" THEN Target ELSE {Root},
           n \in IF op = "upload" THEN Size ELSE {0},
           g \in IF op = "file" THEN RangeHdr ELSE {Idle.hdr} :
          /\ op = "upload" => p # Root
          /\ LET code == Gate(op, perms, p, q)
             IN  h' = [h EXCEPT ![r] =
                   [Idle EXCEPT
                      !.pc = IF code = 0 THEN FirstCall[op] ELSE "done",
                      !.op = op, !.perms = perms, !.path = p, !.to = q,
                      !.size = n, !.hdr = g, !.status = code]]
  BY DEF Arrive
<1>3. PICK q \in IF op = "rename" THEN Target ELSE {Root},
           n \in IF op = "upload" THEN Size ELSE {0},
           g \in IF op = "file" THEN RangeHdr ELSE {Idle.hdr} :
          h' = [h EXCEPT ![r] =
                  [Idle EXCEPT
                     !.pc = IF Gate(op, perms, p, q) = 0 THEN FirstCall[op]
                                                         ELSE "done",
                     !.op = op, !.perms = perms, !.path = p, !.to = q,
                     !.size = n, !.hdr = g,
                     !.status = Gate(op, perms, p, q)]]
  BY <1>2
<1> DEFINE code == Gate(op, perms, p, q)
           label == IF code = 0 THEN FirstCall[op] ELSE "done"
           x == [Idle EXCEPT !.pc = label, !.op = op, !.perms = perms,
                             !.path = p, !.to = q, !.size = n, !.hdr = g,
                             !.status = code]
<1>4. h' = [h EXCEPT ![r] = x]
  BY <1>3
<1>a. label # "f_body"
  BY FileApiAssumption DEF FirstCall
<1> HIDE DEF code, label
<1>5. x.op = op /\ x.size = n /\ x.pc = label /\ x.got = << >>
  BY DEF Idle
<1> HIDE DEF x
<1>6. h'[r] = x /\ \A y \in Req \ {r} : h'[y] = h[y]
  BY <1>1, <1>4
<1>7. op = "upload" => n \in Size
  BY <1>3
<1> QED
  BY <1>1, <1>5, <1>6, <1>7, <1>a DEF Enters

(* What any step of a handler does.                                        *)
LEMMA HandlerShape ==
  ASSUME IInv, NEW r \in Req, ServerStep(r) \/ ClientStep(r)
  PROVE  (Inside(r) /\ Changes(r)) \/ Enters(r)
<1>1. CASE ServerStep(r)
  <2>1. ASSUME UploadClean(r)
        PROVE  Inside(r) /\ Cleans(r)
    BY <2>1, RemoveShape DEF UploadClean
  <2> QED
    BY <1>1, <2>1, LookShape, MakeDirShape, UploadCreateShape,
       UploadRenameShape, MoveEntryShape DEF ServerStep, Changes
<1>2. CASE ClientStep(r)
  BY <1>2, LookShape, UploadChunkShape, UploadDroppedShape, ArriveShape
     DEF ClientStep, Changes
<1> QED
  BY <1>1, <1>2

(* What any step does.                                                     *)
LEMMA StepShape ==
  ASSUME IInv, [Next]_vars
  PROVE  \/ \E r \in Req : Inside(r) /\ Changes(r)
         \/ \E r \in Req : Enters(r)
         \/ Outside
<1>1. CASE \E r \in Req : ServerStep(r) \/ ClientStep(r)
  BY <1>1, HandlerShape
<1>2. CASE Tick
  BY <1>2 DEF Tick, Outside
<1>3. CASE Crash
  BY <1>3 DEF Crash, Outside, Live
<1>4. CASE AllServed \/ UNCHANGED vars
  BY <1>4 DEF AllServed, vars, Outside
<1> QED
  BY <1>1, <1>2, <1>3, <1>4 DEF Next

-----------------------------------------------------------------------------
(* The action properties.                                                  *)

(* The commit of an upload moves its own file, and nothing else, to the    *)
(* path that was asked for.                                                *)
LEMMA CommitFacts ==
  ASSUME IInv, NEW r \in Req, Commits(r)
  PROVE  /\ tree' = Link(Unlink(tree, h[r].to), h[r].path, r)
         /\ h[r].to \in DOMAIN tree /\ h[r].to # h[r].path
         /\ h[r].to \notin DOMAIN tree'
         /\ h[r].path \in DOMAIN tree' /\ tree'[h[r].path] = r
         /\ r \in Ino /\ r # Dir
<1>1. OwnTemp(r) /\ CanRename(tree, h[r].to, h[r].path)
      /\ tree' = Rename(tree, h[r].to, h[r].path)
  BY DEF Commits
<1>2. ~TempNamed(h[r].path) /\ TempNamed(h[r].to)
  BY <1>1, PlainLast DEF OwnTemp
<1>3. h[r].to # h[r].path
  BY <1>2
<1>4. h[r].to \in DOMAIN tree /\ tree[h[r].to] = r
  BY <1>1 DEF CanRename, OwnTemp
<1>5. r \in Ino /\ r # Dir
  BY FileApiAssumption, TreeAssumption
<1>6. tree' = Link(Unlink(tree, h[r].to), h[r].path, r)
  BY <1>1, <1>3, <1>4, <1>5, TreeFacts, FileRename DEF OwnTemp
<1>7. /\ DOMAIN tree' = (DOMAIN tree \ {h[r].to}) \union {h[r].path}
      /\ tree'[h[r].path] = r
  BY <1>6 DEF Link, Unlink
<1> QED
  BY <1>3, <1>4, <1>5, <1>6, <1>7

(* A handler that is killed has answered nothing.                          *)
LEMMA OutsideFacts ==
  ASSUME IInv, Outside, NEW r \in Req
  PROVE  \/ h'[r] = h[r]
         \/ /\ h[r].pc \notin {"idle", "done", "gone"} /\ h'[r].pc = "gone"
            /\ h'[r].status = h[r].status /\ h'[r].op = h[r].op
            /\ h'[r].size = h[r].size
<1>1. \/ h'[r] = h[r]
      \/ /\ h[r].pc \notin {"idle", "done", "gone"}
         /\ h'[r] = [h[r] EXCEPT !.pc = "gone"]
  BY DEF Outside
<1>2. h[r] \in Handler
  BY LocalFacts
<1> QED
  BY <1>1, <1>2 DEF Handler

CleanedUp(r) ==
  \/ h[r].to = Root \/ h[r].to \notin DOMAIN tree'
  \/ /\ At(r, "u_clean") /\ "io" \in Fault /\ tree' = tree
     /\ h'[r].status \in {400, 500}

(* The answer to an upload leaves no temporary file of it, or the disk     *)
(* refused to remove it.                                                   *)
LEMMA CleanedUpStep ==
  ASSUME IInv, [Next]_vars, NEW r \in Req,
         h[r].op = "upload", h[r].pc # "done", h'[r].pc = "done"
  PROVE  CleanedUp(r)
<1>1. ASSUME NEW q \in Req, Inside(q), Changes(q)
      PROVE  CleanedUp(r)
  <2>1. q = r
    BY <1>1 DEF Inside
  <2>2. CASE Looks(r) \/ Makes(r) \/ Creates(r) \/ Writes(r)
    BY <2>2 DEF Looks, Makes, Creates, Writes, NotAnswered, CleanedUp
  <2>3. CASE Commits(r)
    BY <2>3, CommitFacts DEF CleanedUp
  <2>4. CASE Cleans(r)
    <3>1. CASE h[r].to \notin DOMAIN tree /\ tree' = tree
      BY <3>1 DEF CleanedUp
    <3>2. CASE tree' = Unlink(tree, h[r].to)
      BY <3>2 DEF CleanedUp, Unlink
    <3>3. CASE "io" \in Fault /\ tree' = tree
      <4>1. h[r].status \in {400, 500}
        BY <2>4, LocalFacts DEF Cleans, At, Stage
      <4> QED
        BY <2>4, <3>3, <4>1 DEF Cleans, CleanedUp
    <3> QED
      BY <2>4, <3>1, <3>2, <3>3 DEF Cleans
  <2>5. ~Relocates(r)
    BY DEF Relocates
  <2> QED
    BY <1>1, <2>1, <2>2, <2>3, <2>4, <2>5 DEF Changes
<1>2. ASSUME NEW q \in Req, Enters(q)
      PROVE  FALSE
  BY <1>2 DEF Enters
<1>3. ~Outside
  BY OutsideFacts
<1> QED
  BY <1>1, <1>2, <1>3, StepShape

(* On every path through upload(), whether it succeeds, breaks off, finds  *)
(* the disk full or the directory gone, the reply is sent only after the   *)
(* temporary file is no longer at its path, or else after a call to remove *)
(* it that the disk refused; then the reply is an error.                   *)
THEOREM AnsweredAfterCleanUp == Spec => ReplyAfterCleanUp
<1>1. IInv /\ [Next]_vars =>
        \A r \in Req :
          h[r].op = "upload" /\ h[r].pc # "done" /\ h'[r].pc = "done"
          => \/ h[r].to = Root \/ h[r].to \notin DOMAIN tree'
             \/ /\ At(r, "u_clean") /\ "io" \in Fault /\ tree' = tree
                /\ h'[r].status \in {400, 500}
  BY CleanedUpStep DEF CleanedUp
<1> QED
  BY <1>1, InitInv, NextInv, PTL DEF Spec, ReplyAfterCleanUp

(* An upload that is told 200 has just put its whole body at its path.     *)
LEMMA CommitStep ==
  ASSUME IInv, [Next]_vars, NEW r \in Req,
         h[r].op = "upload", h[r].status # 200, h'[r].status = 200
  PROVE  /\ IsFile(tree', h[r].path)
         /\ disk'[tree'[h[r].path]] = Whole(r)
<1>1. ASSUME NEW q \in Req, Inside(q), Changes(q)
      PROVE  Commits(r)
  <2>1. q = r
    BY <1>1 DEF Inside
  <2>2. ~Looks(r) /\ ~Makes(r) /\ ~Creates(r) /\ ~Writes(r) /\ ~Cleans(r)
    BY DEF Looks, Makes, Creates, Writes, Cleans, NotStored
  <2>3. ~Relocates(r)
    BY DEF Relocates
  <2> QED
    BY <1>1, <2>1, <2>2, <2>3 DEF Changes
<1>2. ASSUME NEW q \in Req, Enters(q)
      PROVE  FALSE
  BY <1>2 DEF Enters
<1>3. ~Outside
  BY OutsideFacts
<1>4. Commits(r)
  BY <1>1, <1>2, <1>3, StepShape
<1>5. h[r].path \in DOMAIN tree' /\ tree'[h[r].path] = r /\ r # Dir
  BY <1>4, CommitFacts
<1>6. disk'[r] = Body(r, h[r].size)
  BY <1>4 DEF Commits
<1>7. Whole(r) = Body(r, h[r].size)
  BY FileApiAssumption DEF Whole
<1> QED
  BY <1>5, <1>6, <1>7 DEF IsFile

(* The 200 of an upload is true when it is given: the path it named holds  *)
(* its whole body, whatever was renamed, deleted or uploaded meanwhile.    *)
THEOREM StoredWhenAnswered == Spec => CommitStoresUpload
<1>1. IInv /\ [Next]_vars =>
        \A r \in Req :
          h[r].op = "upload" /\ h[r].status # 200 /\ h'[r].status = 200
          => /\ IsFile(tree', h[r].path)
             /\ disk'[tree'[h[r].path]] = Whole(r)
  BY CommitStep
<1> QED
  BY <1>1, InitInv, NextInv, PTL DEF Spec, CommitStoresUpload

(* What a rename leaves of the files: one may be replaced at its own path. *)
LEMMA RenameReplaces ==
  ASSUME NEW t, Tree(t), NEW a \in Path, NEW b \in Path, CanRename(t, a, b),
         NEW p \in DOMAIN t, t[p] # Dir
  PROVE  LET u == Rename(t, a, b)
         IN  \/ \E q \in DOMAIN u : u[q] = t[p]
             \/ p = b /\ b \in DOMAIN u /\ u[b] = t[a] /\ t[a] # Dir
<1>1. CASE IsPrefix(a, p)
  BY <1>1, RenameMoves
<1>2. CASE ~IsPrefix(a, p) /\ p # b
  BY <1>2, RenameStays
<1>3. CASE ~IsPrefix(a, p) /\ p = b
  <2>1. a \in DOMAIN t /\ IsPrefix(a, a) /\ Rebase(a, a, b) = b
    BY RebaseSelf DEF CanRename
  <2>2. b \in DOMAIN Rename(t, a, b) /\ Rename(t, a, b)[b] = t[a]
    BY <2>1, RenameMoves
  <2>3. t[a] # Dir
    BY <1>3, <2>1 DEF CanRename
  <2> QED
    BY <1>3, <2>2, <2>3
<1> QED
  BY <1>1, <1>2, <1>3

LostFile(p) ==
  tree[p] \in Files(tree) \ Files(tree')
  => \/ p \in DOMAIN tree' /\ tree'[p] \in Ino
     \/ TempNamed(p) /\ At(tree[p], "u_clean")

(* A file is lost to the share only in these two ways.                     *)
LEMMA LostFileStep ==
  ASSUME IInv, [Next]_vars, NEW p \in DOMAIN tree
  PROVE  LostFile(p)
<1> SUFFICES ASSUME tree[p] # Dir, tree[p] \notin Files(tree')
             PROVE  \/ p \in DOMAIN tree' /\ tree'[p] \in Ino
                    \/ TempNamed(p) /\ At(tree[p], "u_clean")
  BY DEF LostFile, Files
<1>1. \A q \in DOMAIN tree' : tree'[q] # tree[p]
  BY DEF Files
<1>2. tree' # tree
  BY <1>1
<1>3. ASSUME NEW r \in Req, Changes(r)
      PROVE  \/ p \in DOMAIN tree' /\ tree'[p] \in Ino
             \/ TempNamed(p) /\ At(tree[p], "u_clean")
  <2>1. ~Looks(r) /\ ~Writes(r)
    BY <1>2 DEF Looks, Writes
  <2>2. ASSUME NEW d, NEW v, d \notin DOMAIN tree, tree' = Link(tree, d, v)
        PROVE  FALSE
    <3>1. p \in DOMAIN tree' /\ tree'[p] = tree[p]
      BY <2>2 DEF Link
    <3> QED
      BY <1>1, <3>1
  <2>3. ~Makes(r) /\ ~Creates(r)
    BY <2>2 DEF Makes, Creates
  <2>4. ASSUME NEW a \in Path, NEW b \in Path, CanRename(tree, a, b),
               tree' = Rename(tree, a, b)
        PROVE  p \in DOMAIN tree' /\ tree'[p] \in Ino
    <3>1. \/ \E q \in DOMAIN tree' : tree'[q] = tree[p]
          \/ p = b /\ b \in DOMAIN tree' /\ tree'[b] = tree[a]
             /\ tree[a] # Dir
      BY <2>4, RenameReplaces, TreeFacts
    <3>2. tree[a] \in Ino \union {Dir}
      BY <2>4 DEF CanRename, IInv, TypeOK
    <3> QED
      BY <1>1, <3>1, <3>2
  <2>5. CASE Commits(r)
    BY <2>4, <2>5 DEF Commits, OwnTemp
  <2>6. CASE Relocates(r)
    BY <2>4, <2>6 DEF Relocates
  <2>7. CASE Cleans(r)
    <3>1. tree' = Unlink(tree, h[r].to) /\ h[r].to \in DOMAIN tree
      BY <1>2, <2>7 DEF Cleans
    <3>2. p = h[r].to
      <4>1. p # h[r].to => p \in DOMAIN tree' /\ tree'[p] = tree[p]
        BY <3>1 DEF Unlink
      <4> QED
        BY <1>1, <4>1
    <3> QED
      BY <2>7, <3>1, <3>2 DEF Cleans, OwnTemp
  <2> QED
    BY <1>3, <2>1, <2>3, <2>5, <2>6, <2>7 DEF Changes
<1>4. (\A r \in Req : ~Enters(r)) /\ ~Outside
  BY <1>2 DEF Enters, Outside
<1> QED
  BY <1>3, <1>4, StepShape

(* Nothing a client uploaded gets lost: a delete moves to the trash, a     *)
(* clean-up removes the temporary file of the upload that failed and never *)
(* anyone else's, and a rename replaces at most the file it lands on.      *)
THEOREM NothingLost == Spec => FilesOnlyReplaced
<1>1. IInv /\ [Next]_vars =>
        \A p \in DOMAIN tree :
          tree[p] \in Files(tree) \ Files(tree')
          => \/ p \in DOMAIN tree' /\ tree'[p] \in Ino
             \/ TempNamed(p) /\ At(tree[p], "u_clean")
  BY LostFileStep DEF LostFile
<1> QED
  BY <1>1, InitInv, NextInv, PTL DEF Spec, FilesOnlyReplaced

-----------------------------------------------------------------------------
(* What a client sees never changes under a name.                          *)

(* The content of a settled file is never written again.                   *)
LEMMA SettledKept ==
  ASSUME IInv, [Next]_vars, NEW i \in Ino, Settled(i)
  PROVE  disk'[i] = disk[i] /\ Whole(i)' = Whole(i) /\ Settled(i)'
<1>1. i \in Req => h[i].pc \in {"done", "gone"}
  BY DEF Settled
<1>2. (disk'[i] = disk[i]) /\ (i \in Req => h'[i] = h[i])
  <2>1. ASSUME NEW r \in Req, Inside(r), Changes(r)
        PROVE  (disk'[i] = disk[i]) /\ (i \in Req => h'[i] = h[i])
    <3>1. i # r
      BY <1>1, <2>1 DEF Inside
    <3>2. i \in Req => h'[i] = h[i]
      BY <2>1, <3>1 DEF Inside
    <3>3. disk'[i] = disk[i]
      BY <2>1, <3>1, TreeFacts DEF Changes, Looks, Makes, Creates, Writes,
         Commits, Cleans, Relocates
    <3> QED
      BY <3>2, <3>3
  <2>2. ASSUME NEW r \in Req, Enters(r)
        PROVE  (disk'[i] = disk[i]) /\ (i \in Req => h'[i] = h[i])
    BY <1>1, <2>2 DEF Enters
  <2>3. ASSUME Outside
        PROVE  (disk'[i] = disk[i]) /\ (i \in Req => h'[i] = h[i])
    BY <1>1, <2>3 DEF Outside
  <2> QED
    BY <2>1, <2>2, <2>3, StepShape
<1>3. Whole(i)' = Whole(i)
  BY <1>2, FileApiAssumption DEF Whole, Body
<1> QED
  BY <1>1, <1>2, <1>3 DEF Settled

(* The operators of AtomicStore are those of the share.                    *)
LEMMA StoreOperators ==
  ASSUME NEW t, NEW p, NEW q, NEW v
  PROVE  /\ Store!IsDir(t, p) <=> IsDir(t, p)
         /\ Store!Front(p) = Front(p)
         /\ Store!Link(t, p, v) = Link(t, p, v)
         /\ Store!CanRename(t, p, q) <=> CanRename(t, p, q)
         /\ Store!Rename(t, p, q) = Rename(t, p, q)
<1>1. \A a, b : (Store!IsPrefix(a, b) <=> IsPrefix(a, b))
  BY DEF Store!IsPrefix, IsPrefix
<1>2. \A a, b, c : Store!Rebase(a, b, c) = Rebase(a, b, c)
  BY DEF Store!Rebase, Rebase
<1>3. /\ Store!Front(p) = Front(p) /\ Store!Front(q) = Front(q)
      /\ Store!Root = Root
  BY DEF Store!Front, Front, Store!Root, Root
<1>4. \A x : (Store!IsDir(t, x) <=> IsDir(t, x))
  BY <1>3 DEF Store!IsDir, IsDir
<1>5. Store!Link(t, p, v) = Link(t, p, v)
  BY DEF Store!Link, Link
<1>6. Store!Children(t, q) = Children(t, q)
  BY <1>1 DEF Store!Children, Children
<1>7. Store!CanRename(t, p, q) <=> CanRename(t, p, q)
  BY <1>1, <1>3, <1>4, <1>6 DEF Store!CanRename, CanRename
<1>8. Store!Rename(t, p, q) = Rename(t, p, q)
  BY <1>1, <1>2 DEF Store!Rename, Rename
<1> QED
  BY <1>3, <1>4, <1>5, <1>7, <1>8

-----------------------------------------------------------------------------
(* The handlers implement the store.                                       *)

(* What the clients see is a tree with the directories of the share.       *)
LEMMA VisibleFacts ==
  ASSUME IInv
  PROVE  /\ DOMAIN Visible = Seen /\ Seen \subseteq DOMAIN tree
         /\ \A p \in Seen : Visible[p] = Dir <=> tree[p] = Dir
         /\ \A p \in DOMAIN tree : tree[p] = Dir => p \in Seen
         /\ \A p : IsDir(Visible, p) <=> IsDir(tree, p)
         /\ Tree(Visible)
<1>1. DOMAIN Visible = Seen /\ Seen \subseteq DOMAIN tree
  BY DEF Visible, Seen
<1>2. ASSUME NEW p \in Seen
      PROVE  Visible[p] = Dir <=> tree[p] = Dir
  <2>1. Visible[p] = IF tree[p] = Dir THEN Dir ELSE disk[tree[p]]
    BY DEF Visible
  <2>2. tree[p] # Dir => disk[tree[p]] \in Seq(Ino \X Nat)
    BY <1>1, TreeFacts DEF Chunk
  <2> QED
    BY <2>1, <2>2, FileApiAssumption
<1>3. ASSUME NEW p \in DOMAIN tree, tree[p] = Dir
      PROVE  p \in Seen
  <2>1. ~TempNamed(p)
    BY <1>3, TreeFacts, FileApiAssumption, TreeAssumption
       DEF Entry, TempFile
  <2> QED
    BY <2>1 DEF Seen
<1>4. ASSUME NEW p
      PROVE  IsDir(Visible, p) <=> IsDir(tree, p)
  BY <1>1, <1>2, <1>3 DEF IsDir
<1>5. Tree(Visible)
  BY <1>1, <1>2, <1>3, TreeFacts DEF Tree, WellFormed
<1> QED
  BY <1>1, <1>2, <1>3, <1>4, <1>5

(* A step that changes one plain entry, or none, changes no other.         *)
LEMMA VisibleLink ==
  ASSUME IInv, [Next]_vars, NEW X, Seen' = Seen \union X,
         \A q \in Seen \ X : tree'[q] = tree[q]
  PROVE  \A q \in Seen \ X : Visible'[q] = Visible[q]
<1> SUFFICES ASSUME NEW q \in Seen \ X
             PROVE  Visible'[q] = Visible[q]
  OBVIOUS
<1>1. tree'[q] = tree[q] /\ q \in Seen' /\ q \in DOMAIN tree
      /\ ~TempNamed(q)
  BY DEF Seen
<1>2. ASSUME tree[q] # Dir
      PROVE  disk'[tree[q]] = disk[tree[q]]
  BY <1>1, <1>2, TreeFacts, SettledKept DEF Entry
<1>3. /\ Visible[q] = IF tree[q] = Dir THEN Dir ELSE disk[tree[q]]
      /\ Visible'[q] = IF tree'[q] = Dir THEN Dir ELSE disk'[tree'[q]]
  BY <1>1 DEF Visible
<1> QED
  BY <1>1, <1>2, <1>3

(* Steps that no client can see.                                           *)
LEMMA VisibleSame ==
  ASSUME IInv, [Next]_vars, Seen' = Seen, \A q \in Seen : tree'[q] = tree[q]
  PROVE  Visible' = Visible
<1>1. \A q \in Seen : Visible'[q] = Visible[q]
  <2>1. Seen' = Seen \union {}
    OBVIOUS
  <2>2. \A q \in Seen \ {} : tree'[q] = tree[q]
    OBVIOUS
  <2>3. \A q \in Seen \ {} : Visible'[q] = Visible[q]
    BY <2>1, <2>2, VisibleLink
  <2> QED
    BY <2>3
<1>2. /\ Visible = [q \in Seen |-> Visible[q]]
      /\ Visible' = [q \in Seen |-> Visible'[q]]
  BY DEF Visible
<1> QED
  BY <1>1, <1>2

(* Steps that put one entry in place.                                      *)
LEMMA VisiblePut ==
  ASSUME IInv, [Next]_vars, NEW p, Seen' = Seen \union {p},
         \A q \in Seen \ {p} : tree'[q] = tree[q]
  PROVE  Visible' = Link(Visible, p, Visible'[p]) /\ p \in DOMAIN Visible'
<1>1. \A q \in Seen \ {p} : Visible'[q] = Visible[q]
  BY VisibleLink
<1>2. /\ DOMAIN Visible = Seen
      /\ Visible' = [q \in Seen \union {p} |-> Visible'[q]]
  BY DEF Visible
<1>3. Link(Visible, p, Visible'[p])
      = [q \in Seen \union {p} |-> IF q = p THEN Visible'[p]
                                            ELSE Visible[q]]
  BY <1>2 DEF Link
<1>4. \A q \in Seen \union {p} :
        Visible'[q] = IF q = p THEN Visible'[p] ELSE Visible[q]
  BY <1>1
<1>5. DOMAIN Visible' = Seen \union {p}
  BY DEF Visible
<1> HIDE DEF Visible
<1> QED
  BY <1>2, <1>3, <1>4, <1>5

(* create_dir_all: one level is one MakeDir of the store.                  *)
LEMMA MakesMaps ==
  ASSUME IInv, [Next]_vars, NEW r \in Req, Makes(r)
  PROVE  Store!MakeDir
<1>1. PICK d \in Path :
        /\ d # Root /\ PlainPath(d) /\ d \notin DOMAIN tree
        /\ IsDir(tree, Front(d)) /\ tree' = Link(tree, d, Dir)
  BY DEF Makes
<1>2. /\ DOMAIN tree' = DOMAIN tree \union {d} /\ tree'[d] = Dir
      /\ \A q \in DOMAIN tree : tree'[q] = tree[q]
  BY <1>1 DEF Link
<1>3. ~TempNamed(d)
  BY <1>1, PlainLast
<1>4. Seen' = Seen \union {d} /\ \A q \in Seen \ {d} : tree'[q] = tree[q]
  BY <1>2, <1>3 DEF Seen
<1>5. Visible' = Link(Visible, d, Visible'[d]) /\ d \in DOMAIN Visible'
  BY <1>4, VisiblePut
<1>6. Visible'[d] = Dir
  BY <1>2, <1>4 DEF Visible
<1>7. d \notin DOMAIN Visible /\ IsDir(Visible, Front(d))
  BY <1>1, VisibleFacts
<1>8. /\ d \in DOMAIN Visible' \ DOMAIN Visible
      /\ Store!IsDir(Visible, Store!Front(d))
      /\ Visible' = Store!Link(Visible, d, Dir)
  BY <1>5, <1>6, <1>7, StoreOperators
<1> QED
  BY <1>8 DEF Store!MakeDir

(* An upload's rename is one Put of the store, of the whole body.          *)
Sized == \A r \in Req : h[r].op = "upload" => h[r].size \in Size

LEMMA CommitsMaps ==
  ASSUME IInv, Sized, [Next]_vars, NEW r \in Req, Commits(r)
  PROVE  Store!Put
<1> DEFINE a == h[r].to
           b == h[r].path
<1>1. /\ tree' = Link(Unlink(tree, a), b, r) /\ a # b /\ a \in DOMAIN tree
      /\ b \in DOMAIN tree' /\ tree'[b] = r /\ r \in Ino /\ r # Dir
  BY CommitFacts
<1>2. OwnTemp(r) /\ CanRename(tree, a, b) /\ disk'[r] = Body(r, h[r].size)
  BY DEF Commits
<1>3. TempNamed(a) /\ ~TempNamed(b) /\ tree[a] = r /\ b # Root
  BY <1>1, <1>2, PlainLast DEF OwnTemp
<1>4. /\ DOMAIN tree' = (DOMAIN tree \ {a}) \union {b}
      /\ \A q \in DOMAIN tree \ {a, b} : tree'[q] = tree[q]
  BY <1>1 DEF Link, Unlink
<1>5. Seen' = Seen \union {b} /\ \A q \in Seen \ {b} : tree'[q] = tree[q]
  BY <1>3, <1>4 DEF Seen
<1>6. Visible' = Link(Visible, b, Visible'[b]) /\ b \in DOMAIN Visible'
  BY <1>5, VisiblePut
<1>7. Visible'[b] = Body(r, h[r].size)
  BY <1>1, <1>2, <1>5 DEF Visible
<1>8. Body(r, h[r].size) \in Bodies
  BY <1>2 DEF Sized, OwnTemp, Bodies
<1>9. IsDir(Visible, Front(b)) /\ ~IsDir(Visible, b)
  BY <1>1, <1>2, <1>3, VisibleFacts DEF CanRename, IsDir
<1>10. /\ b \in DOMAIN Visible'
       /\ Store!IsDir(Visible, Store!Front(b)) /\ ~Store!IsDir(Visible, b)
       /\ Visible'[b] \in Bodies
       /\ Visible' = Store!Link(Visible, b, Visible'[b])
  BY <1>6, <1>7, <1>8, <1>9, StoreOperators
<1> HIDE DEF a, b
<1> QED
  BY <1>10 DEF Store!Put

(* rename and delete are one Move of the store.                            *)
LEMMA RelocatesMaps ==
  ASSUME IInv, [Next]_vars, NEW r \in Req, Relocates(r)
  PROVE  Store!Move
<1>1. PICK a \in Path, b \in Path :
        /\ PlainPath(a) /\ PlainPath(b)
        /\ CanRename(tree, a, b) /\ tree' = Rename(tree, a, b)
  BY DEF Relocates
<1>2. /\ a \in DOMAIN tree /\ a # Root /\ b # Root
      /\ IsDir(tree, Front(b)) /\ (a # b => ~IsPrefix(a, b))
  BY <1>1, TreeFacts DEF CanRename
<1>3. ~TempNamed(a) /\ ~TempNamed(b) /\ a \in Seen
  BY <1>1, <1>2, PlainLast DEF Seen
<1>4. Children(Visible, b) \subseteq Children(tree, b)
  BY VisibleFacts DEF Children
<1>5. CanRename(Visible, a, b)
  <2>1. a \in DOMAIN Visible /\ b # Root /\ IsDir(Visible, Front(b))
        /\ (a # b => ~IsPrefix(a, b))
    BY <1>2, <1>3, VisibleFacts
  <2>2. \/ b \notin DOMAIN Visible
        \/ a = b
        \/ Visible[a] # Dir /\ Visible[b] # Dir
        \/ Visible[a] = Dir /\ Visible[b] = Dir /\ Children(Visible, b) = {}
    <3>1. \/ b \notin DOMAIN tree
          \/ a = b
          \/ tree[a] # Dir /\ tree[b] # Dir
          \/ tree[a] = Dir /\ tree[b] = Dir /\ Children(tree, b) = {}
      BY <1>1 DEF CanRename
    <3> QED
      BY <1>3, <1>4, <3>1, VisibleFacts
  <2> QED
    BY <2>1, <2>2 DEF CanRename
<1> DEFINE R(p) == Rebase(p, a, b)
           u == Rename(Visible, a, b)
<1>6. Tree(tree) /\ Tree(Visible)
  BY TreeFacts, VisibleFacts
<1>7. ASSUME NEW p \in DOMAIN tree, IsPrefix(a, p)
      PROVE  TempNamed(R(p)) <=> TempNamed(p)
  <2>1. CASE p = a
    BY <1>3, <2>1, RebaseSelf
  <2>2. CASE p # a
    <3>1. p \in Path /\ p # Root
      BY TreeFacts
    <3> QED
      BY <1>2, <1>7, <2>2, <3>1, RebaseLast DEF TempNamed
  <2> QED
    BY <2>1, <2>2
<1>8. ASSUME NEW p \in Seen
      PROVE  /\ p \in DOMAIN tree /\ ~TempNamed(p)
             /\ tree[p] # Dir => disk'[tree[p]] = disk[tree[p]]
             /\ Visible[p] = IF tree[p] = Dir THEN Dir ELSE disk'[tree[p]]
  <2>1. p \in DOMAIN tree /\ ~TempNamed(p)
    BY DEF Seen
  <2>2. disk' = disk
    BY DEF Relocates
  <2> QED
    BY <2>1, <2>2 DEF Visible
<1>9. ASSUME NEW q \in Seen'
      PROVE  q \in DOMAIN u /\ Visible'[q] = u[q]
  <2>1. q \in DOMAIN tree' /\ ~TempNamed(q)
        /\ Visible'[q] = IF tree'[q] = Dir THEN Dir ELSE disk'[tree'[q]]
    BY DEF Seen, Visible
  <2>2. CASE /\ q \in DOMAIN tree /\ ~IsPrefix(a, q) /\ q # b
             /\ tree'[q] = tree[q]
    <3>1. q \in Seen
      BY <2>1, <2>2 DEF Seen
    <3>2. q \in DOMAIN u /\ u[q] = Visible[q]
      BY <1>5, <1>6, <2>2, <3>1, VisibleFacts, RenameStays
    <3> QED
      BY <1>8, <2>1, <2>2, <3>1, <3>2
  <2>3. ASSUME NEW p \in DOMAIN tree, IsPrefix(a, p), q = R(p),
               tree'[q] = tree[p]
        PROVE  q \in DOMAIN u /\ Visible'[q] = u[q]
    <3>1. p \in Seen
      BY <1>7, <2>1, <2>3 DEF Seen
    <3>2. q \in DOMAIN u /\ u[q] = Visible[p]
      BY <1>5, <1>6, <2>3, <3>1, VisibleFacts, RenameMoves
    <3> QED
      BY <1>8, <2>1, <2>3, <3>1, <3>2
  <2>4. \/ /\ q \in DOMAIN tree /\ ~IsPrefix(a, q) /\ q # b
           /\ tree'[q] = tree[q]
        \/ \E p \in DOMAIN tree : /\ IsPrefix(a, p) /\ q = R(p)
                                  /\ tree'[q] = tree[p]
    BY <1>1, <1>6, <2>1, RenameEntries
  <2> QED
    BY <2>2, <2>3, <2>4
<1>10. ASSUME NEW q \in DOMAIN u
       PROVE  q \in Seen'
  <2>1. CASE q \in DOMAIN Visible /\ ~IsPrefix(a, q) /\ q # b
    <3>1. q \in DOMAIN tree /\ ~TempNamed(q)
      BY <1>8, <2>1, VisibleFacts
    <3>2. q \in DOMAIN tree'
      BY <1>1, <1>6, <2>1, <3>1, RenameStays
    <3> QED
      BY <3>1, <3>2 DEF Seen
  <2>2. ASSUME NEW p \in DOMAIN Visible, IsPrefix(a, p), q = R(p)
        PROVE  q \in Seen'
    <3>1. p \in DOMAIN tree /\ ~TempNamed(p)
      BY <1>8, VisibleFacts
    <3>2. q \in DOMAIN tree' /\ ~TempNamed(q)
      BY <1>1, <1>6, <1>7, <2>2, <3>1, RenameMoves
    <3> QED
      BY <3>2 DEF Seen
  <2> QED
    BY <1>5, <1>6, <2>1, <2>2, RenameEntries
<1>11. Visible' = u
  <2>1. /\ Visible' = [q \in Seen' |-> Visible'[q]]
        /\ u = [q \in DOMAIN u |-> u[q]]
    BY DEF Visible, Rename
  <2>2. Seen' = DOMAIN u
    BY <1>9, <1>10
  <2> HIDE DEF u
  <2>3. \A q \in Seen' : Visible'[q] = u[q]
    BY <1>9
  <2> QED
    BY <2>1, <2>2, <2>3
<1>12. b \in DOMAIN Visible'
  BY <1>3, <1>5, <1>6, <1>11, VisibleFacts, RebaseSelf, RenameMoves
<1>13. /\ a \in DOMAIN Visible /\ Store!CanRename(Visible, a, b)
       /\ Visible' = Store!Rename(Visible, a, b)
  BY <1>3, <1>5, <1>11, VisibleFacts, StoreOperators
<1> QED
  BY <1>12, <1>13 DEF Store!Move

(* Every step of the handlers is a step of the store or leaves it alone.   *)
LEMMA StepMaps ==
  ASSUME IInv, Sized, [Next]_vars
  PROVE  [Store!Next]_Visible
<1>1. ASSUME tree' = tree
      PROVE  Visible' = Visible
  BY <1>1, VisibleSame DEF Seen
<1>2. ASSUME NEW r \in Req, Changes(r)
      PROVE  [Store!Next]_Visible
  <2>1. CASE Looks(r) \/ Writes(r)
    BY <1>1, <2>1 DEF Looks, Writes
  <2>2. CASE Creates(r)
    <3>1. PICK p \in Path : /\ TempNamed(p) /\ p \notin DOMAIN tree
                            /\ tree' = Link(tree, p, r)
      BY <2>2 DEF Creates
    <3>2. Seen' = Seen /\ \A q \in Seen : tree'[q] = tree[q]
      BY <3>1 DEF Seen, Link
    <3> QED
      BY <3>2, VisibleSame
  <2>3. CASE Cleans(r)
    <3>1. \/ tree' = tree
          \/ TempNamed(h[r].to) /\ tree' = Unlink(tree, h[r].to)
      BY <2>3 DEF Cleans, OwnTemp
    <3>2. Seen' = Seen /\ \A q \in Seen : tree'[q] = tree[q]
      BY <3>1 DEF Seen, Unlink
    <3> QED
      BY <3>2, VisibleSame
  <2>4. CASE Makes(r) \/ Commits(r) \/ Relocates(r)
    BY <2>4, MakesMaps, CommitsMaps, RelocatesMaps DEF Store!Next
  <2> QED
    BY <1>2, <2>1, <2>2, <2>3, <2>4 DEF Changes
<1>3. ASSUME Outside \/ \E r \in Req : Enters(r)
      PROVE  [Store!Next]_Visible
  BY <1>1, <1>3 DEF Outside, Enters
<1> QED
  BY <1>2, <1>3, StepShape

(* At start the clients see the share as it is.                            *)
LEMMA InitMaps == Init => Store!Init
<1> SUFFICES ASSUME Init PROVE Visible = AtStart
  BY DEF Store!Init
<1>1. ASSUME NEW p \in DOMAIN InitTree
      PROVE  /\ ~TempNamed(p)
             /\ InitTree[p] # Dir => disk[InitTree[p]] = Body(InitTree[p], 2)
  <2>1. p \in Path /\ p # Root /\ PlainPath(p)
        /\ InitTree[p] \in Seed \union {Dir}
    BY FileApiAssumption
  <2> QED
    BY <2>1, PlainLast, FileApiAssumption DEF Init
<1>2. Seen = DOMAIN InitTree /\ tree = InitTree
  BY <1>1 DEF Init, Seen
<1> QED
  BY <1>1, <1>2 DEF Visible, AtStart

(* Uploads have the sizes requests have.                                   *)
LEMMA SizedStep == IInv /\ Sized /\ [Next]_vars => Sized'
<1> SUFFICES ASSUME IInv, Sized, [Next]_vars, NEW r \in Req,
                    h'[r].op = "upload"
             PROVE  h'[r].size \in Size
  BY DEF Sized
<1>1. ASSUME NEW q \in Req, Inside(q) \/ Enters(q)
      PROVE  h'[r].size \in Size
  BY <1>1 DEF Inside, Enters, Sized
<1>2. ASSUME Outside
      PROVE  h'[r].size \in Size
  BY <1>2, OutsideFacts DEF Sized
<1> QED
  BY <1>1, <1>2, StepShape

(* The handlers, with all their calls and interleavings, implement the     *)
(* store in which an upload, a rename and a delete are each one step.      *)
THEOREM Implementation == Spec => ImplementsStore
<1>1. Init => Sized
  BY DEF Init, Sized, Idle
<1>2. IInv /\ Sized /\ [Next]_vars => [Store!Next]_Visible
  BY StepMaps
<1> QED
  BY <1>1, <1>2, InitMaps, InitInv, NextInv, SizedStep, PTL
     DEF Spec, ImplementsStore, Store!Spec

-----------------------------------------------------------------------------
(* Downloads.                                                              *)

(* The reply that file() plans starts where the Range asked.               *)
LEMMA StartAsked ==
  ASSUME NEW hdr \in Header, NEW total \in Nat,
         Plan(hdr, total).status # 416
  PROVE  Plan(hdr, total).start = Min(Asked(hdr, total) \union {total})
<1> DEFINE S == Asked(hdr, total) \union {total}
           first == Plan(hdr, total).start
<1>1. /\ hdr.form \in {"absent", "malformed", "suffix", "open", "closed"}
      /\ hdr.a \in Nat /\ hdr.b \in Nat
  BY DEF Header
<1>2. first \in S /\ S \subseteq Nat /\ \A k \in S : first <= k
  <2>1. CASE hdr.form \in {"absent", "malformed"}
    <3>1. first = 0
      BY <2>1 DEF Plan, ParseRange, None
    <3>2. Asked(hdr, total) = 0 .. total - 1
      BY <2>1 DEF Asked
    <3> HIDE DEF first
    <3> QED
      BY <3>1, <3>2
  <2>2. CASE hdr.form = "suffix"
    <3>1. ParseRange(hdr, total) = ParseSuffix(hdr.b, total)
      BY <2>2 DEF ParseRange
    <3>2. hdr.b # 0 /\ hdr.b <= total /\ first = total - hdr.b
      BY <1>1, <3>1 DEF Plan, ParseSuffix, Sat, Unsat
    <3>3. Asked(hdr, total) = {k \in 0 .. total - 1 : total < k + 1 + hdr.b}
      BY <2>2 DEF Asked
    <3> HIDE DEF first
    <3> QED
      BY <1>1, <3>2, <3>3
  <2>3. CASE hdr.form = "open"
    <3>1. ParseRange(hdr, total)
          = ParseFrom(hdr.a, SatSub(total, 1), total)
      BY <2>3 DEF ParseRange
    <3>2. hdr.a < total /\ first = hdr.a
      BY <1>1, <3>1 DEF Plan, ParseFrom, Sat, Unsat, SatSub
    <3>3. Asked(hdr, total) = {k \in 0 .. total - 1 : k >= hdr.a}
      BY <2>3 DEF Asked
    <3> HIDE DEF first
    <3> QED
      BY <1>1, <3>2, <3>3
  <2>4. CASE hdr.form = "closed"
    <3>1. ParseRange(hdr, total) = ParseFrom(hdr.a, hdr.b, total)
      BY <2>4 DEF ParseRange
    <3>2. hdr.a <= hdr.b /\ hdr.b < total /\ first = hdr.a
      BY <1>1, <3>1 DEF Plan, ParseFrom, Sat, Unsat
    <3>3. Asked(hdr, total)
          = {k \in 0 .. total - 1 : hdr.a <= k /\ k <= hdr.b}
      BY <2>4 DEF Asked
    <3> HIDE DEF first
    <3> QED
      BY <1>1, <3>2, <3>3
  <2> QED
    BY <1>1, <2>1, <2>2, <2>3, <2>4
<1> HIDE DEF S, first
<1>3. Min(S) \in S /\ \A k \in S : Min(S) <= k
  BY <1>2 DEF Min
<1> DEFINE m == Min(S)
<1>4. m \in S /\ m <= first /\ first <= m
  BY <1>2, <1>3
<1>5. first \in Nat /\ m \in Nat
  BY <1>2, <1>4
<1> HIDE DEF m
<1>6. first = m
  BY <1>4, <1>5
<1> QED
  BY <1>6 DEF S, first, m

(* One read more of consecutive reads.                                     *)
LEMMA SubSeqGrows ==
  ASSUME NEW S, NEW w \in Seq(S), NEW s \in Nat, NEW n \in Nat,
         s + n + 1 <= Len(w)
  PROVE  Append(SubSeq(w, s + 1, s + n), w[s + n + 1])
         = SubSeq(w, s + 1, s + n + 1)
<1> DEFINE b == SubSeq(w, s + 1, s + n)
           c == w[s + n + 1]
           g == Append(b, c)
           d == SubSeq(w, s + 1, s + n + 1)
<1>1. Len(w) \in Nat /\ \A i \in 1 .. Len(w) : w[i] \in S
  BY LenProperties, ElementOfSeq
<1>2. /\ b \in Seq(S) /\ Len(b) = n
      /\ \A i \in 1 .. n : b[i] = w[s + i]
  <2>1. \A i \in s + 1 .. s + n : w[i] \in S
    BY <1>1
  <2>2. /\ s + 1 \in Int /\ s + n \in Int
        /\ (IF s + 1 <= s + n THEN s + n - (s + 1) + 1 ELSE 0) = n
        /\ s + n - (s + 1) + 1 = n
        /\ \A i \in 1 .. n : s + 1 + i - 1 = s + i
    OBVIOUS
  <2>3. /\ b \in Seq(S)
        /\ Len(b) = IF s + 1 <= s + n THEN s + n - (s + 1) + 1 ELSE 0
        /\ \A i \in 1 .. s + n - (s + 1) + 1 : b[i] = w[s + 1 + i - 1]
    BY <2>1, <2>2, SubSeqProperties
  <2> HIDE DEF b
  <2> QED
    BY <2>2, <2>3
<1>3. /\ d \in Seq(S) /\ Len(d) = n + 1
      /\ \A i \in 1 .. n + 1 : d[i] = w[s + i]
  <2>1. \A i \in s + 1 .. s + n + 1 : w[i] \in S
    BY <1>1
  <2>2. /\ s + 1 \in Int /\ s + n + 1 \in Int
        /\ (IF s + 1 <= s + n + 1 THEN s + n + 1 - (s + 1) + 1 ELSE 0)
           = n + 1
        /\ s + n + 1 - (s + 1) + 1 = n + 1
        /\ \A i \in 1 .. n + 1 : s + 1 + i - 1 = s + i
    OBVIOUS
  <2>3. /\ d \in Seq(S)
        /\ Len(d) = IF s + 1 <= s + n + 1 THEN s + n + 1 - (s + 1) + 1 ELSE 0
        /\ \A i \in 1 .. s + n + 1 - (s + 1) + 1 : d[i] = w[s + 1 + i - 1]
    BY <2>1, <2>2, SubSeqProperties
  <2> HIDE DEF d
  <2> QED
    BY <2>2, <2>3
<1>4. c \in S
  BY <1>1
<1> HIDE DEF b, d
<1>5. /\ g \in Seq(S) /\ Len(g) = n + 1
      /\ \A i \in 1 .. n : g[i] = b[i]
      /\ g[n + 1] = c
  BY <1>2, <1>4, AppendProperties
<1> HIDE DEF g
<1>6. ASSUME NEW i \in 1 .. n + 1
      PROVE  g[i] = d[i]
  <2>1. CASE i \in 1 .. n
    BY <1>2, <1>3, <1>5, <2>1
  <2>2. CASE i = n + 1
    <3>1. s + i = s + n + 1
      BY <2>2
    <3> QED
      BY <1>3, <1>5, <2>2, <3>1
  <2> QED
    BY <2>1, <2>2
<1>7. g = d
  BY <1>3, <1>5, <1>6, SeqEqual
<1> QED
  BY <1>7 DEF b, d, g

(* What a download has handed out so far, whichever file its handle is     *)
(* open on.                                                                *)
Slice(r) ==
  /\ h[r].fd \in Ino /\ Settled(h[r].fd)
  /\ h[r].start = Min(Asked(h[r].hdr, h[r].total) \union {h[r].total})
  /\ h[r].got = SubSeq(Whole(h[r].fd), h[r].start + 1,
                       h[r].start + Len(h[r].got))

Serving(r) ==
  /\ h[r].got # << >> => h[r].pc \in {"f_body", "done", "gone"}
  /\ (h[r].pc = "f_body" /\ h[r].fd # Dir) \/ h[r].got # << >> => Slice(r)

Servings == \A r \in Req : Serving(r)

(* A step that hands nothing out.                                          *)
NoBytes(r) ==
  /\ h[r].pc \notin {"done", "gone", "f_body"} /\ h'[r].pc # "f_body"
  /\ h'[r].got \in {h[r].got, << >>}

(* All steps but the open and the reads of file().                         *)
LEMMA NoBytesStep ==
  ASSUME IInv, NEW r \in Req, ServerStep(r) \/ ClientStep(r),
         ~FileOpen(r), ~FileBody(r)
  PROVE  NoBytes(r)
<1>1. h \in [Req -> Handler] /\ h[r] \in Handler
  BY LocalFacts
<1>2. ASSUME h[r].pc \notin {"done", "gone", "f_body"},
             \/ \E label : label # "f_body" /\ Go(r, label)
             \/ \E code : Reply(r, code)
      PROVE  NoBytes(r)
  BY <1>1, <1>2 DEF NoBytes, Go, Reply, Handler
<1>3. ASSUME At(r, "mkdirs"), AfterDirs(r) \/ Reply(r, 500)
      PROVE  NoBytes(r)
  <2>1. h[r].op \in {"upload", "mkdir", "rename", "delete"}
    BY <1>3, LocalFacts DEF At, Role
  <2> QED
    BY <1>2, <1>3, <2>1 DEF At, AfterDirs
<1>4. CASE DirsThere(r)
  BY <1>3, <1>4 DEF DirsThere
<1>5. CASE MakeDir(r)
  <2>1. \/ AfterDirs(r) \/ Reply(r, 500)
        \/ \E k : h' = [h EXCEPT ![r].lvl = k]
    BY <1>5 DEF MakeDir
  <2>2. At(r, "mkdirs") /\ h[r].pc = "mkdirs"
    BY <1>5 DEF MakeDir, At
  <2>3. ASSUME NEW k, h' = [h EXCEPT ![r].lvl = k]
        PROVE  NoBytes(r)
    BY <1>1, <2>2, <2>3 DEF NoBytes, Handler
  <2> QED
    BY <1>3, <2>1, <2>2, <2>3
<1>6. CASE \/ UploadParent(r) \/ UploadFlush(r) \/ UploadClean(r)
           \/ ListStat(r) \/ MkdirCheck(r)
           \/ RenameCheck(r) \/ RenameParent(r) \/ DeleteCheck(r)
           \/ RenameMove(r) \/ DeleteMove(r)
  <2>1. h[r].pc \notin {"done", "gone", "f_body"}
    BY <1>6 DEF UploadParent, UploadFlush, UploadClean,
       ListStat, MkdirCheck, RenameCheck, RenameParent, DeleteCheck,
       RenameMove, DeleteMove, MoveEntry, At
  <2>2. \/ \E label : label # "f_body" /\ Go(r, label)
        \/ \E code : Reply(r, code)
    BY <1>6 DEF UploadParent, UploadFlush, UploadClean,
       ListStat, MkdirCheck, RenameCheck, RenameParent, DeleteCheck,
       RenameMove, DeleteMove, MoveEntry
  <2> QED
    BY <1>2, <2>1, <2>2
<1>7. CASE UploadBroken(r) \/ UploadWriteFails(r) \/ UploadRename(r)
  <2>1. h[r].pc \in {"u_stream", "u_rename"}
    BY <1>7 DEF UploadBroken, UploadWriteFails, UploadRename, At
  <2>2. \/ Reply(r, 200)
        \/ \E code : h' = [h EXCEPT ![r].pc = "u_clean", ![r].status = code]
    BY <1>7 DEF UploadBroken, UploadWriteFails, UploadRename
  <2>3. ASSUME NEW code,
               h' = [h EXCEPT ![r].pc = "u_clean", ![r].status = code]
        PROVE  NoBytes(r)
    BY <1>1, <2>1, <2>3 DEF NoBytes, Handler
  <2> QED
    BY <1>2, <2>1, <2>2, <2>3
<1>8. CASE UploadChunk(r)
  BY <1>1, <1>8 DEF UploadChunk, At, NoBytes, Handler
<1>9. CASE UploadCreate(r) \/ UploadDropped(r)
  <2>1. ASSUME NEW label \in {"u_stream", "gone"}, CreateTemp(r, label)
        PROVE  \E p, i : h' = [h EXCEPT ![r].pc = label, ![r].to = p,
                                       ![r].fd = i]
    BY <2>1 DEF CreateTemp
  <2>2. \/ Reply(r, 500) \/ Go(r, "gone")
        \/ \E label \in {"u_stream", "gone"} : CreateTemp(r, label)
    BY <1>9 DEF UploadCreate, UploadDropped
  <2>3. h[r].pc \in {"u_create", "u_stream", "u_rename", "u_clean"}
    BY <1>9 DEF UploadCreate, UploadDropped, At
  <2>4. ASSUME NEW label \in {"u_stream", "gone"}, NEW p, NEW i,
               h' = [h EXCEPT ![r].pc = label, ![r].to = p, ![r].fd = i]
        PROVE  NoBytes(r)
    BY <1>1, <2>3, <2>4 DEF NoBytes, Handler
  <2> QED
    BY <1>2, <2>1, <2>2, <2>3, <2>4
<1>10. CASE FileStat(r)
  <2>1. \/ \E code : Reply(r, code)
        \/ \E n : h' = [h EXCEPT ![r].pc = "f_open", ![r].total = n]
    BY <1>10 DEF FileStat
  <2>2. h[r].pc = "f_stat"
    BY <1>10 DEF FileStat, At
  <2>3. ASSUME NEW n, h' = [h EXCEPT ![r].pc = "f_open", ![r].total = n]
        PROVE  NoBytes(r)
    BY <1>1, <2>2, <2>3 DEF NoBytes, Handler
  <2> QED
    BY <1>2, <2>1, <2>2, <2>3
<1>11. CASE ListRead(r) \/ ListMeta(r)
  <2>1. h[r].pc \in {"l_read", "l_meta"}
    BY <1>11 DEF ListRead, ListMeta, At
  <2>2. \/ \E code : Reply(r, code)
        \/ \E s : h' = [h EXCEPT ![r].pc = "l_meta", ![r].todo = s]
        \/ \E s, t : h' = [h EXCEPT ![r].todo = s, ![r].names = t]
    BY <1>11 DEF ListRead, ListMeta
  <2>3. ASSUME NEW s, h' = [h EXCEPT ![r].pc = "l_meta", ![r].todo = s]
        PROVE  NoBytes(r)
    BY <1>1, <2>1, <2>3 DEF NoBytes, Handler
  <2>4. ASSUME NEW s, NEW t, h' = [h EXCEPT ![r].todo = s, ![r].names = t]
        PROVE  NoBytes(r)
    BY <1>1, <2>1, <2>4 DEF NoBytes, Handler
  <2> QED
    BY <1>2, <2>1, <2>2, <2>3, <2>4
<1>12. CASE DeleteStamp(r)
  BY <1>1, <1>12 DEF DeleteStamp, At, NoBytes, Handler
<1>13. CASE Arrive(r)
  <2>1. h[r].pc = "idle" /\ Enters(r)
    BY <1>13, ArriveShape DEF Arrive, At
  <2> QED
    BY <2>1 DEF Enters, NoBytes
<1> QED
  BY <1>4, <1>5, <1>6, <1>7, <1>8, <1>9, <1>10, <1>11, <1>12, <1>13
     DEF ServerStep, ClientStep

(* A slice stays one while its handler keeps its variables.                *)
LEMMA SliceKept ==
  ASSUME IInv, [Next]_vars, NEW r \in Req, Slice(r),
         h'[r].fd = h[r].fd, h'[r].start = h[r].start,
         h'[r].hdr = h[r].hdr, h'[r].total = h[r].total,
         h'[r].got = h[r].got
  PROVE  Slice(r)'
<1>1. PICK i \in Ino : i = h[r].fd
  BY DEF Slice
<1>2. /\ Settled(i)
      /\ h[r].start = Min(Asked(h[r].hdr, h[r].total) \union {h[r].total})
      /\ h[r].got = SubSeq(Whole(i), h[r].start + 1,
                           h[r].start + Len(h[r].got))
  BY <1>1 DEF Slice
<1>3. Settled(i)' /\ Whole(i)' = Whole(i)
  BY <1>2, SettledKept
<1>4. h'[r].fd = i
  BY <1>1
<1>5. /\ Settled(h[r].fd)'
      /\ Whole(h[r].fd)' = Whole(i)
  BY <1>3, <1>4 DEF Settled, Whole
<1> QED
  BY <1>2, <1>4, <1>5 DEF Slice

(* file(): the open, by name, of a file that is settled by then.           *)
LEMMA OpenServing ==
  ASSUME IInv, Servings, [Next]_vars, NEW r \in Req, FileOpen(r)
  PROVE  Serving(r)'
<1> DEFINE p == h[r].path
           reply == Plan(h[r].hdr, h[r].total)
           fd == IF IsFile(tree, p) THEN tree[p] ELSE Dir
<1>1. /\ h[r].pc = "f_open" /\ h[r].got = << >>
      /\ h \in [Req -> Handler] /\ h[r] \in Handler
  BY LocalFacts DEF FileOpen, At, Servings, Serving
<1>2. ASSUME NEW code, Reply(r, code)
      PROVE  Serving(r)'
  <2>1. h'[r].pc = "done" /\ h'[r].got = << >>
    BY <1>1, <1>2 DEF Reply, Handler
  <2> QED
    BY <2>1 DEF Serving
<1>3. ASSUME reply.status # 416,
             h' = [h EXCEPT ![r].pc = "f_body", ![r].status = reply.status,
                            ![r].fd = fd, ![r].start = reply.start,
                            ![r].want = reply.length]
      PROVE  Serving(r)'
  <2>1. PICK n \in Nat : n = reply.start
    BY <1>1, PlanTypes DEF Handler
  <2>2. n = Min(Asked(h[r].hdr, h[r].total) \union {h[r].total})
    BY <1>1, <1>3, <2>1, StartAsked DEF Handler
  <2> HIDE DEF reply
  <2>3. PICK i : i = fd
    OBVIOUS
  <2>4. i # Dir => i \in Ino /\ Settled(i)
    <3>1. i # Dir => p \in DOMAIN tree /\ i = tree[p]
      BY <2>3 DEF IsFile
    <3>2. p \in Path /\ PlainPath(p)
      BY <1>1, LocalFacts DEF Handler, Naming
    <3> QED
      BY <3>1, <3>2, TreeFacts, PlainLast DEF Entry
  <2> HIDE DEF fd
  <2>5. /\ h'[r].pc = "f_body" /\ h'[r].got = << >> /\ h'[r].fd = i
        /\ h'[r].start = n /\ h'[r].hdr = h[r].hdr
        /\ h'[r].total = h[r].total
    BY <1>1, <1>3, <2>1, <2>3 DEF Handler
  <2>6. ASSUME i # Dir
        PROVE  Slice(r)'
    <3>1. i \in Ino /\ Settled(i)'
      BY <2>4, <2>6, SettledKept
    <3>2. SubSeq(Whole(i)', n + 1, n + Len(<< >>)) = << >>
      <4>1. Len(<< >>) = 0
        BY EmptySeq
      <4>2. n + 0 < n + 1
        OBVIOUS
      <4> QED
        BY <4>1, <4>2, SubSeqEmpty
    <3>3. Settled(h[r].fd)' /\ Whole(h[r].fd)' = Whole(i)'
      BY <2>5, <3>1 DEF Settled, Whole
    <3> QED
      BY <2>2, <2>5, <3>1, <3>2, <3>3 DEF Slice
  <2> QED
    BY <2>5, <2>6 DEF Serving
<1>4. \/ \E code : Reply(r, code)
      \/ /\ reply.status # 416
         /\ h' = [h EXCEPT ![r].pc = "f_body", ![r].status = reply.status,
                           ![r].fd = fd, ![r].start = reply.start,
                           ![r].want = reply.length]
  BY DEF FileOpen
<1> QED
  BY <1>2, <1>3, <1>4

(* file(): one read of the open file, or the end.                          *)
LEMMA BodyServing ==
  ASSUME IInv, Servings, [Next]_vars, NEW r \in Req, FileBody(r)
  PROVE  Serving(r)'
<1>1. /\ h[r].pc = "f_body" /\ Serving(r)
      /\ h \in [Req -> Handler] /\ h[r] \in Handler
  BY LocalFacts DEF FileBody, At, Servings
<1>2. CASE Go(r, "done")
  <2>1. /\ h'[r].pc = "done" /\ h'[r].fd = h[r].fd /\ h'[r].got = h[r].got
        /\ h'[r].start = h[r].start /\ h'[r].hdr = h[r].hdr
        /\ h'[r].total = h[r].total
    BY <1>1, <1>2 DEF Go, Handler
  <2> QED
    BY <1>1, <2>1, SliceKept DEF Serving
<1> DEFINE s == h[r].start
           n == Len(h[r].got)
<1>3. ASSUME h[r].fd # Dir, s + n + 1 <= Len(disk[h[r].fd]),
             h' = [h EXCEPT ![r].got
                     = Append(h[r].got, disk[h[r].fd][s + n + 1])]
      PROVE  Serving(r)'
  <2>1. PICK i \in Ino : i = h[r].fd
    BY <1>1, <1>3 DEF Handler
  <2>2. Slice(r)
    BY <1>1, <1>3 DEF Serving
  <2>3. /\ Settled(i) /\ disk[i] = Whole(i)
        /\ s = Min(Asked(h[r].hdr, h[r].total) \union {h[r].total})
        /\ h[r].got = SubSeq(Whole(i), s + 1, s + n)
    BY <2>1, <2>2 DEF Slice, Settled
  <2>4. Settled(i)' /\ Whole(i)' = Whole(i)
    BY <2>3, SettledKept
  <2>5. /\ disk[i] \in Seq(Chunk) /\ s \in Nat /\ h[r].got \in Seq(Chunk)
    BY <1>1, TreeFacts DEF Handler
  <2>6. PICK k \in Nat : k = n
    BY <2>5, LenProperties
  <2>7. PICK j \in Nat : j = s
    BY <2>5
  <2>8. PICK g : g = Append(h[r].got, disk[i][j + k + 1])
    OBVIOUS
  <2>9. g = SubSeq(Whole(i), j + 1, j + k + 1)
    <3>1. PICK w \in Seq(Chunk) : w = disk[i] /\ w = Whole(i)
      BY <2>3, <2>5
    <3>2. g = Append(SubSeq(w, j + 1, j + k), w[j + k + 1])
      BY <2>3, <2>6, <2>7, <2>8, <3>1
    <3>3. j + k + 1 <= Len(w)
      BY <1>3, <2>1, <2>6, <2>7, <3>1
    <3> HIDE DEF s, n
    <3>4. g = SubSeq(w, j + 1, j + k + 1)
      BY <3>2, <3>3, SubSeqGrows
    <3> QED
      BY <3>1, <3>4
  <2>10. Len(g) = k + 1 /\ g # << >>
    <3>1. /\ disk[i][j + k + 1] \in Chunk
      <4>1. j + k + 1 \in 1 .. Len(disk[i])
        BY <1>3, <2>1, <2>5, <2>6, <2>7, LenProperties
      <4> QED
        BY <2>5, <4>1, ElementOfSeq
    <3> QED
      BY <2>5, <2>6, <2>8, <3>1, AppendProperties
  <2>11. h' = [h EXCEPT ![r].got = g]
    BY <1>3, <2>1, <2>6, <2>7, <2>8
  <2> HIDE DEF s, n
  <2>12. /\ h'[r].pc = "f_body" /\ h'[r].got = g /\ h'[r].fd = i
         /\ h'[r].start = h[r].start /\ h'[r].hdr = h[r].hdr
         /\ h'[r].total = h[r].total
    BY <1>1, <2>1, <2>11 DEF Handler
  <2>13. Settled(h[r].fd)' /\ Whole(h[r].fd)' = Whole(i)
    BY <2>4, <2>12 DEF Settled, Whole
  <2>14. h'[r].start = j
    BY <2>7, <2>12 DEF s
  <2>15. j = Min(Asked(h[r].hdr, h[r].total) \union {h[r].total})
    BY <2>3, <2>7
  <2>16. g = SubSeq(Whole(i), j + 1, j + Len(g))
    <3>1. j + Len(g) = j + k + 1
      BY <2>6, <2>7, <2>10
    <3> QED
      BY <2>9, <3>1
  <2>17. Slice(r)'
    BY <2>12, <2>13, <2>14, <2>15, <2>16 DEF Slice
  <2> QED
    BY <2>12, <2>17 DEF Serving
<1>4. \/ Go(r, "done")
      \/ /\ h[r].fd # Dir /\ s + n + 1 <= Len(disk[h[r].fd])
         /\ h' = [h EXCEPT ![r].got
                    = Append(h[r].got, disk[h[r].fd][s + n + 1])]
  BY <1>1 DEF FileBody
<1> QED
  BY <1>2, <1>3, <1>4

(* Every step keeps what downloads have handed out a slice.                *)
LEMMA ServingStep == IInv /\ Servings /\ [Next]_vars => Servings'
<1> SUFFICES ASSUME IInv, Servings, [Next]_vars, NEW r \in Req
             PROVE  Serving(r)'
  BY DEF Servings
<1>1. Serving(r) /\ h[r] \in Handler
  BY LocalFacts DEF Servings
<1>2. ASSUME h'[r] = h[r]
      PROVE  Serving(r)'
  BY <1>1, <1>2, SliceKept DEF Serving
<1>3. CASE \E q \in Req : ServerStep(q) \/ ClientStep(q)
  <2>1. PICK q \in Req : ServerStep(q) \/ ClientStep(q)
    BY <1>3
  <2>2. CASE q # r
    BY <1>2, <2>1, <2>2, HandlerShape DEF Inside, Enters
  <2>3. CASE q = r
    <3>1. CASE FileOpen(r)
      BY <3>1, OpenServing
    <3>2. CASE FileBody(r)
      BY <3>2, BodyServing
    <3>3. CASE ~FileOpen(r) /\ ~FileBody(r)
      <4>1. NoBytes(r)
        BY <2>1, <2>3, <3>3, NoBytesStep
      <4> QED
        BY <1>1, <4>1 DEF NoBytes, Serving
    <3> QED
      BY <3>1, <3>2, <3>3
  <2> QED
    BY <2>2, <2>3
<1>4. CASE Tick \/ AllServed \/ UNCHANGED vars
  <2>1. h' = h
    BY <1>4 DEF Tick, AllServed, vars
  <2> QED
    BY <1>2, <2>1
<1>5. CASE Crash
  <2>1. \/ h'[r] = h[r]
        \/ h'[r] = [h[r] EXCEPT !.pc = "gone"]
    BY <1>5 DEF Crash
  <2>2. ASSUME h'[r] = [h[r] EXCEPT !.pc = "gone"]
        PROVE  Serving(r)'
    <3>1. /\ h'[r].pc = "gone" /\ h'[r].fd = h[r].fd /\ h'[r].got = h[r].got
          /\ h'[r].start = h[r].start /\ h'[r].hdr = h[r].hdr
          /\ h'[r].total = h[r].total
      BY <1>1, <2>2 DEF Handler
    <3> QED
      BY <1>1, <3>1, SliceKept DEF Serving
  <2> QED
    BY <1>2, <2>1, <2>2
<1> QED
  BY <1>3, <1>4, <1>5 DEF Next

(* A download never mixes two files or skips a byte: what it has handed    *)
(* out is a piece of one complete upload, from where the Range asked,      *)
(* however the path is replaced, moved or deleted while it runs.           *)
THEOREM DownloadsUntorn == Spec => []DownloadUntorn
<1>1. Init => Servings
  BY DEF Init, Idle, Servings, Serving
<1>2. Servings => DownloadUntorn
  BY DEF Servings, Serving, Slice, DownloadUntorn
<1> QED
  BY <1>1, <1>2, InitInv, NextInv, ServingStep, PTL DEF Spec

=============================================================================
