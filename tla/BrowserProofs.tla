--------------------------- MODULE BrowserProofs ---------------------------
(***************************************************************************)
(* Proofs about the page of Browser, for any number of runs, any share and *)
(* any answers of the server.                                              *)
(***************************************************************************)
EXTENDS Browser, SequenceTheorems, TLAPS

(* The root is a place.                                                    *)
LEMMA RootPlace == Root \in Place
<1>1. Root \in Seq(DirName) /\ Len(Root) = 0
  BY DEF Root
<1>2. PICK n \in Nat : Root \in [1 .. n -> DirName]
  BY <1>1, SeqDef
<1>3. n = 0
  BY <1>1, <1>2, LenProperties
<1> QED
  BY <1>2, <1>3, BrowserAssumption DEF Place

(* What a call of each kind is.                                            *)
LEMMA CallTypes ==
  /\ Idle \in CallType /\ Whoami \in CallType
  /\ \A p \in Place : [Idle EXCEPT !.op = "list", !.path = p] \in CallType
  /\ \A p \in Place : [Idle EXCEPT !.op = "change", !.path = p] \in CallType
  /\ [Idle EXCEPT !.op = "logout"] \in CallType
  /\ [Idle EXCEPT !.op = "login"] \in CallType
  /\ \A p \in Place, names \in SUBSET Name :
       [Idle EXCEPT !.op = "delete", !.path = p, !.todo = names] \in CallType
<1>1. 0 \in 0 .. MaxUploads
  BY BrowserAssumption
<1> QED
  BY <1>1, RootPlace, Zenon DEF Idle, Whoami, CallType

(* One run moves on; the others wait as they did.                          *)
LEMMA TaskMoves ==
  ASSUME task \in [Task -> CallType], NEW t \in Task, NEW c \in CallType,
         task' = [task EXCEPT ![t] = c]
  PROVE  /\ task' \in [Task -> CallType] /\ task'[t] = c
         /\ \A s \in Task \ {t} : task'[s] = task[s]
OBVIOUS

LEMMA RefreshType ==
  ASSUME TypeOK, NEW t \in Task, NEW p \in Place, RefreshListing(t, p)
  PROVE  /\ task' \in [Task -> CallType] /\ loading' \in BOOLEAN
         /\ loadError' \in BOOLEAN /\ entries' = entries
<1>1. task \in [Task -> CallType]
  BY DEF TypeOK
<1>2. [Idle EXCEPT !.op = "list", !.path = p] \in CallType
  BY CallTypes
<1> QED
  BY <1>1, <1>2, TaskMoves DEF RefreshListing

LEMMA EndType ==
  ASSUME TypeOK, NEW t \in Task, EndTask(t)
  PROVE  task' \in [Task -> CallType]
BY CallTypes, TaskMoves DEF TypeOK, EndTask

LEMMA CallsType ==
  ASSUME TypeOK, NEW t \in Task, NEW c \in CallType, Call(t, c)
  PROVE  task' \in [Task -> CallType]
BY TaskMoves DEF TypeOK, Call

(* The actions that only the pointer, the keys and the timers take.        *)
LEMMA UserType ==
  ASSUME TypeOK,
         \/ ClickRow \/ OpenRow \/ Backspace \/ Breadcrumb \/ History
         \/ EarlyHashChange
         \/ Escape \/ Cancel \/ Open("new") \/ Open("login") \/ Open("files")
         \/ OpenRename \/ OpenConfirm
         \/ StripDone
  PROVE  TypeOK'
<1>1. CASE ClickRow
  BY <1>1 DEF ClickRow, Click, TypeOK, place, view, dialogs, bars
<1>2. CASE OpenRow
  BY <1>2 DEF OpenRow, Click, Navigate, TypeOK, place, view, dialogs, bars
<1>3. CASE Backspace \/ Breadcrumb
  BY <1>3 DEF Backspace, Breadcrumb, Navigate, TypeOK, place, view, dialogs,
              bars
<1>4. CASE History \/ EarlyHashChange
  BY <1>4 DEF History, EarlyHashChange, TypeOK, place, view, dialogs, bars
<1>5. CASE Escape
  BY <1>5 DEF Escape, TypeOK, place, view, dialogs, bars
<1>6. CASE Cancel
  BY <1>6 DEF Cancel, CloseModal, TypeOK, place, view, dialogs, bars
<1>7. CASE Open("new")
  BY <1>7 DEF Open, TypeOK, place, view, dialogs, bars
<1>8. CASE Open("login") \/ Open("files")
  BY <1>8 DEF Open, TypeOK, place, view, dialogs, bars
<1>9. CASE OpenRename
  BY <1>9 DEF OpenRename, TypeOK, place, view, dialogs, bars
<1>10. CASE OpenConfirm
  BY <1>10 DEF OpenConfirm, TypeOK, place, view, dialogs, bars
<1>11. CASE StripDone
  BY <1>11 DEF StripDone, TypeOK, place, view, dialogs
<1> QED
  BY <1>1, <1>2, <1>3, <1>4, <1>5, <1>6, <1>7, <1>8, <1>9, <1>10, <1>11

(* The runs that wait and go on, and those that start.                     *)
LEMMA RunType ==
  ASSUME TypeOK, NEW t \in Task,
         \/ ListReply(t) \/ ChangeReply(t) \/ DeleteReply(t)
         \/ WhoamiReply(t) \/ LogoutReply(t) \/ LoginReply(t)
         \/ HashChange(t) \/ ClickRefresh(t)
         \/ SubmitNew(t) \/ SubmitRename(t) \/ ConfirmDelete(t)
         \/ SignOut(t) \/ SubmitLogin(t)
  PROVE  TypeOK'
<1>0. /\ currentPath \in Place /\ hash \in Place
      /\ selectedNames \in SUBSET Name
      /\ task[t] \in CallType
  BY DEF TypeOK
<1>1. CASE ListReply(t)
  <2>1. task' \in [Task -> CallType]
    BY <1>1, EndType DEF ListReply
  <2>2. /\ entries' \in [of : Place, names : SUBSET Name]
        /\ loading' \in BOOLEAN /\ loadError' \in BOOLEAN
        /\ selectedNames' \in SUBSET Name
    <3>1. task[t].path \in Place
      BY <1>0 DEF CallType
    <3>2. CASE ListFails(t)
      BY <3>1, <3>2 DEF ListFails, TypeOK
    <3>3. ASSUME NEW names \in Listing(task[t].path), ListDone(t, names)
          PROVE  /\ entries' \in [of : Place, names : SUBSET Name]
                 /\ loading' \in BOOLEAN /\ loadError' \in BOOLEAN
                 /\ selectedNames' \in SUBSET Name
      BY <3>1, <3>3, BrowserAssumption DEF ListDone, TypeOK
    <3> QED
      BY <1>1, <3>2, <3>3 DEF ListReply
  <2> QED
    BY <1>1, <2>1, <2>2 DEF ListReply, TypeOK, place, dialogs, bars
<1>2. CASE ChangeReply(t)
  BY <1>0, <1>2, RefreshType, EndType
     DEF ChangeReply, TypeOK, place, view, dialogs, bars
<1>3. CASE DeleteReply(t)
  <2>1. CASE RefreshListing(t, currentPath)
    BY <1>0, <1>3, <2>1, RefreshType
       DEF DeleteReply, TypeOK, place, dialogs, bars
  <2>2. ASSUME NEW n \in task[t].todo,
               task' = [task EXCEPT ![t].todo = @ \ {n}], UNCHANGED view
        PROVE  TypeOK'
    <3>1. [task[t] EXCEPT !.todo = @ \ {n}] \in CallType
      BY <1>0 DEF CallType
    <3>2. task' \in [Task -> CallType]
      BY <2>2, <3>1, TaskMoves DEF TypeOK
    <3> QED
      BY <1>3, <2>2, <3>2 DEF DeleteReply, TypeOK, place, view, dialogs, bars
  <2> QED
    BY <1>3, <2>1, <2>2 DEF DeleteReply
<1>4. CASE WhoamiReply(t)
  BY <1>0, <1>4, RefreshType, EndType
     DEF WhoamiReply, TypeOK, place, view, dialogs, bars
<1>5. CASE LogoutReply(t)
  <2>1. task' \in [Task -> CallType]
    BY <1>5, CallTypes, TaskMoves, EndType DEF LogoutReply, TypeOK
  <2> QED
    BY <1>5, <2>1 DEF LogoutReply, TypeOK, place, view, dialogs, bars
<1>6. CASE LoginReply(t)
  BY <1>0, <1>6, RefreshType, EndType
     DEF LoginReply, TypeOK, place, view, dialogs, bars
<1>7. CASE HashChange(t)
  BY <1>0, <1>7, RefreshType DEF HashChange, TypeOK, place, dialogs, bars
<1>8. CASE ClickRefresh(t)
  BY <1>0, <1>8, RefreshType DEF ClickRefresh, TypeOK, place, dialogs, bars
<1>9. CASE SubmitNew(t)
  BY <1>0, <1>9, CallTypes, CallsType
     DEF SubmitNew, CloseModal, TypeOK, place, view, bars
<1>10. CASE SubmitRename(t)
  BY <1>0, <1>10, CallTypes, CallsType
     DEF SubmitRename, TypeOK, place, view, bars
<1>11. CASE ConfirmDelete(t)
  <2>1. task' \in [Task -> CallType]
    BY <1>0, <1>11, CallTypes, CallsType DEF ConfirmDelete, TypeOK
  <2> QED
    BY <1>11, <2>1 DEF ConfirmDelete, CloseModal, TypeOK, place, view, bars
<1>12. CASE SignOut(t)
  BY <1>12, CallTypes, CallsType
     DEF SignOut, TypeOK, place, view, dialogs, bars
<1>13. CASE SubmitLogin(t)
  BY <1>13, CallTypes, CallsType DEF SubmitLogin, TypeOK, place, view, bars
<1> QED
  BY <1>1, <1>2, <1>3, <1>4, <1>5, <1>6, <1>7, <1>8, <1>9, <1>10, <1>11,
     <1>12, <1>13

(* The batches of uploads.                                                 *)
LEMMA UploadType ==
  ASSUME TypeOK, NEW t \in Task,
         \/ UploadReply(t)
         \/ \E k \in 1 .. MaxUploads : DropFiles(t, k) \/ ChooseFiles(t, k)
  PROVE  TypeOK'
<1>0. /\ task[t] \in CallType /\ MaxUploads \in Nat
      /\ uploadSeq \in 0 .. MaxUploads
  BY BrowserAssumption DEF TypeOK
<1>1. CASE UploadReply(t)
  <2> PICK result \in Outcome :
        LET answered == SetUpload(uploads, task[t].cur, result)
        IN  IF MoreFiles(task[t])
            THEN /\ uploads' =
                      SetUpload(answered, task[t].cur + 1, "uploading")
                 /\ task' = [task EXCEPT ![t].cur = @ + 1]
                 /\ UNCHANGED << view, timers >>
            ELSE /\ uploads' = answered
                 /\ timers' = timers + 1
                 /\ RefreshListing(t, task[t].path)
    BY <1>1 DEF UploadReply
  <2>1. /\ DOMAIN uploads' = DOMAIN uploads
        /\ \A i \in DOMAIN uploads' :
             uploads'[i] \in {"pending", "uploading", "done", "failed"}
    BY DEF SetUpload, Outcome, TypeOK
  <2>2. CASE MoreFiles(task[t])
    <3>1. [task[t] EXCEPT !.cur = @ + 1] \in CallType
      BY <1>0, <2>2 DEF CallType, MoreFiles
    <3>2. task' \in [Task -> CallType]
      BY <2>2, <3>1, TaskMoves DEF TypeOK
    <3> QED
      BY <1>1, <2>1, <2>2, <3>2 DEF UploadReply, TypeOK, place, view, dialogs
  <2>3. CASE ~MoreFiles(task[t])
    <3>1. task[t].path \in Place
      BY <1>0 DEF CallType
    <3> QED
      BY <1>1, <2>1, <2>3, <3>1, RefreshType
         DEF UploadReply, TypeOK, place, dialogs
  <2> QED
    BY <2>2, <2>3
<1>2. ASSUME NEW k \in 1 .. MaxUploads, DropFiles(t, k) \/ ChooseFiles(t, k)
      PROVE  TypeOK'
  <2>1. UploadAll(t, k)
    BY <1>2 DEF DropFiles, ChooseFiles
  <2>2. /\ modals' \subseteq {"new", "login", "confirm", "files"}
        /\ busy' \in Task \union {NoTask}
    BY <1>2 DEF DropFiles, ChooseFiles, CloseModal, TypeOK
  <2> DEFINE c == [op |-> "upload", path |-> currentPath, todo |-> {},
                   cur |-> uploadSeq + 1, last |-> uploadSeq + k]
  <2>3. /\ uploadSeq + k \in 0 .. MaxUploads
        /\ uploadSeq + 1 \in 0 .. MaxUploads
        /\ uploadSeq' = uploadSeq + k
    BY <1>0, <2>1 DEF UploadAll
  <2>4. c \in CallType
    BY <2>3 DEF CallType, TypeOK
  <2>5. task' \in [Task -> CallType]
    BY <2>1, <2>4, CallsType DEF UploadAll
  <2>6. /\ DOMAIN uploads' \subseteq 1 .. uploadSeq'
        /\ \A i \in DOMAIN uploads' :
             uploads'[i] \in {"pending", "uploading", "done", "failed"}
    BY <1>0, <2>1, <2>3 DEF UploadAll, SetUpload, TypeOK
  <2> QED
    BY <2>1, <2>3, <2>5, <2>6, <2>2 DEF UploadAll, TypeOK, place, view
<1> QED
  BY <1>1, <1>2

(* The page is well typed in every state, whatever overlaps.               *)
THEOREM TypeCorrect == Spec => []TypeOK
<1>1. Init => TypeOK
  <2> SUFFICES ASSUME Init PROVE TypeOK
    OBVIOUS
  <2>1. task \in [Task -> CallType]
    BY CallTypes DEF Init
  <2>2. entries \in [of : Place, names : SUBSET Name]
    BY RootPlace DEF Init
  <2>3. DOMAIN uploads = {}
    <3>1. uploads \in Seq(Name) /\ Len(uploads) = 0
      BY DEF Init
    <3> QED
      BY <3>1, LenProperties
  <2>4. uploadSeq \in 0 .. MaxUploads /\ timers \in Nat
    BY BrowserAssumption DEF Init
  <2>5. /\ DOMAIN uploads \subseteq 1 .. uploadSeq
        /\ \A i \in DOMAIN uploads :
             uploads[i] \in {"pending", "uploading", "done", "failed"}
    BY <2>3
  <2> QED
    BY <2>1, <2>2, <2>4, <2>5 DEF Init, TypeOK
<1>2. TypeOK /\ [Next]_vars => TypeOK'
  <2> SUFFICES ASSUME TypeOK, [Next]_vars PROVE TypeOK'
    OBVIOUS
  <2>1. CASE UNCHANGED vars
    BY <2>1 DEF vars, TypeOK, place, view, dialogs, bars
  <2>2. CASE Next
    BY <2>2, UserType, RunType, UploadType DEF Next, DropFiles, ChooseFiles
  <2> QED
    BY <2>1, <2>2
<1> QED
  BY <1>1, <1>2, PTL DEF Spec

-----------------------------------------------------------------------------
(* Nothing is waited for in vain.                                          *)

LEMMA WaitUser ==
  ASSUME TypeOK, NothingStuck,
         \/ ClickRow \/ OpenRow \/ Backspace \/ Breadcrumb \/ History
         \/ EarlyHashChange
         \/ Escape \/ Cancel \/ Open("new") \/ Open("login") \/ Open("files")
         \/ OpenRename \/ OpenConfirm
         \/ StripDone
  PROVE  NothingStuck'
<1>1. UNCHANGED << loading, task >>
  BY DEF ClickRow, OpenRow, Backspace, Breadcrumb, History, EarlyHashChange,
         Escape, Cancel, Open, OpenRename,
         OpenConfirm, StripDone, view
<1>2. busy' # NoTask => busy' = busy /\ "login" \in modals'
  <2>1. CASE UNCHANGED << busy, modals >>
    BY <2>1 DEF NothingStuck
  <2>2. CASE Escape
    BY <2>2 DEF Escape
  <2>3. CASE Cancel
    BY <2>3 DEF Cancel, CloseModal, NothingStuck
  <2>4. CASE Open("new") \/ Open("login") \/ Open("files")
    BY <2>4 DEF Open, Uncovered, NothingStuck
  <2>5. CASE OpenConfirm
    BY <2>5 DEF OpenConfirm, NothingStuck
  <2> QED
    BY <2>1, <2>2, <2>3, <2>4, <2>5
       DEF ClickRow, OpenRow, Backspace, Breadcrumb, History, EarlyHashChange,
           OpenRename, StripDone, dialogs
<1> QED
  BY <1>1, <1>2 DEF NothingStuck

(* A run that refreshes waits for a listing.                               *)
LEMMA WaitRefresh ==
  ASSUME TypeOK, NEW t \in Task, NEW p \in Place, RefreshListing(t, p)
  PROVE  task'[t].op = "list" /\ \A s \in Task \ {t} : task'[s] = task[s]
BY TaskMoves, CallTypes DEF RefreshListing, TypeOK, Idle

(* A run that is idle starts; the others wait as they did.                 *)
LEMMA WaitCall ==
  ASSUME TypeOK, NEW t \in Task, NEW c, Call(t, c)
  PROVE  /\ task[t].op = "idle" /\ task'[t] = c
         /\ \A s \in Task \ {t} : task'[s] = task[s]
BY DEF Call, TypeOK, Idle

LEMMA WaitRun ==
  ASSUME TypeOK, NothingStuck, NEW t \in Task,
         \/ ListReply(t) \/ ChangeReply(t) \/ DeleteReply(t) \/ UploadReply(t)
         \/ WhoamiReply(t) \/ LogoutReply(t) \/ LoginReply(t)
         \/ HashChange(t) \/ ClickRefresh(t)
         \/ SubmitNew(t) \/ SubmitRename(t) \/ ConfirmDelete(t)
         \/ SignOut(t) \/ SubmitLogin(t)
         \/ \E k \in 1 .. MaxUploads : DropFiles(t, k) \/ ChooseFiles(t, k)
  PROVE  NothingStuck'
<1>0. /\ task \in [Task -> CallType] /\ currentPath \in Place /\ hash \in Place
      /\ task[t] \in CallType
  BY DEF TypeOK
<1>1. \A s \in Task \ {t} : task'[s] = task[s]
  BY <1>0
     DEF ListReply, ChangeReply, DeleteReply, UploadReply, WhoamiReply,
         LogoutReply, LoginReply, HashChange, ClickRefresh, SubmitNew,
         SubmitRename, ConfirmDelete, SignOut, SubmitLogin, DropFiles,
         ChooseFiles, UploadAll, RefreshListing, Call, EndTask
<1>2. loading' => \E s \in Task : task'[s].op = "list"
  <2>1. CASE \E p \in Place : RefreshListing(t, p)
    BY <2>1, WaitRefresh
  <2>2. CASE ~loading'
    BY <2>2
  <2>3. CASE loading' = loading /\ task[t].op # "list"
    BY <1>1, <2>3 DEF NothingStuck
  <2>4. CASE ListReply(t)
    BY <2>2, <2>4 DEF ListReply, ListDone, ListFails
  <2>5. CASE \/ ChangeReply(t) \/ DeleteReply(t) \/ WhoamiReply(t)
            \/ LoginReply(t)
    BY <1>0, <2>1, <2>3, <2>5
       DEF ChangeReply, DeleteReply, WhoamiReply, LoginReply, view
  <2>6. CASE UploadReply(t)
    <3>1. task[t].path \in Place
      BY <1>0 DEF CallType
    <3> QED
      BY <2>1, <2>3, <2>6, <3>1 DEF UploadReply, view
  <2>7. CASE HashChange(t) \/ ClickRefresh(t)
    BY <1>0, <2>1, <2>7 DEF HashChange, ClickRefresh
  <2>8. CASE LogoutReply(t)
    BY <2>3, <2>8 DEF LogoutReply, view
  <2>9. CASE \/ SubmitNew(t) \/ SubmitRename(t) \/ SignOut(t) \/ SubmitLogin(t)
            \/ \E k \in 1 .. MaxUploads : DropFiles(t, k) \/ ChooseFiles(t, k)
    <3>1. task[t] = Idle /\ UNCHANGED view
      BY <2>9 DEF SubmitNew, SubmitRename, SignOut, SubmitLogin, DropFiles,
                  ChooseFiles, UploadAll, Call
    <3> QED
      BY <2>3, <3>1 DEF Idle, view
  <2>10. CASE ConfirmDelete(t)
    <3>1. task[t] = Idle \/ UNCHANGED task
      BY <2>10 DEF ConfirmDelete, Call
    <3>2. UNCHANGED view
      BY <2>10 DEF ConfirmDelete
    <3> QED
      BY <2>3, <3>1, <3>2 DEF Idle, view, NothingStuck
  <2> QED
    BY <2>4, <2>5, <2>6, <2>7, <2>8, <2>9, <2>10
<1>3. busy' # NoTask => task'[busy'].op = "login" /\ "login" \in modals'
  <2>1. CASE SubmitLogin(t)
    BY <1>0, <2>1, WaitCall DEF SubmitLogin, Idle
  <2>2. CASE LoginReply(t)
    BY <1>1, <2>2 DEF LoginReply, NothingStuck, TypeOK
  <2>3. ASSUME task[t].op # "login", busy' = busy \/ busy' = NoTask,
               "login" \in modals => "login" \in modals'
        PROVE  <1>3
    BY <1>1, <2>3 DEF NothingStuck, TypeOK
  <2>4. CASE ConfirmDelete(t)
    BY <1>1, <2>4 DEF ConfirmDelete, Call, CloseModal, Idle, NothingStuck,
                      TypeOK
  <2>5. CASE \/ ListReply(t) \/ ChangeReply(t) \/ DeleteReply(t)
            \/ UploadReply(t) \/ WhoamiReply(t) \/ LogoutReply(t)
    BY <2>3, <2>5 DEF ListReply, ChangeReply, DeleteReply, UploadReply,
                      WhoamiReply, LogoutReply, dialogs
  <2>6. CASE \/ HashChange(t) \/ ClickRefresh(t) \/ SignOut(t)
            \/ SubmitRename(t)
            \/ \E k \in 1 .. MaxUploads : DropFiles(t, k)
    <3>1. task[t] = Idle /\ UNCHANGED << busy, modals >>
      BY <2>6 DEF HashChange, ClickRefresh, SignOut, SubmitRename, DropFiles,
                  UploadAll, Call, dialogs
    <3> QED
      BY <2>3, <3>1 DEF Idle
  <2>7. CASE SubmitNew(t)
    <3>1. task[t] = Idle
      BY <2>7 DEF SubmitNew, Call
    <3> QED
      BY <2>3, <2>7, <3>1 DEF SubmitNew, CloseModal, Idle
  <2>8. CASE \E k \in 1 .. MaxUploads : ChooseFiles(t, k)
    <3>1. task[t] = Idle
      BY <2>8 DEF ChooseFiles, UploadAll, Call
    <3> QED
      BY <2>3, <2>8, <3>1 DEF ChooseFiles, CloseModal, Idle
  <2> QED
    BY <2>1, <2>2, <2>4, <2>5, <2>6, <2>7, <2>8
<1> QED
  BY <1>2, <1>3 DEF NothingStuck

(* Spinner and sign-in button are always waiting for an answer.            *)
THEOREM SpinnersEnd == Spec => []NothingStuck
<1>1. Init => NothingStuck
  BY DEF Init, NothingStuck
<1>2. TypeOK /\ NothingStuck /\ [Next]_vars => NothingStuck'
  <2> SUFFICES ASSUME TypeOK, NothingStuck, [Next]_vars PROVE NothingStuck'
    OBVIOUS
  <2>1. CASE UNCHANGED vars
    BY <2>1 DEF vars, view, dialogs, NothingStuck
  <2>2. CASE Next
    BY <2>2, WaitUser, WaitRun DEF Next, DropFiles, ChooseFiles
  <2> QED
    BY <2>1, <2>2
<1> QED
  BY <1>1, <1>2, TypeCorrect, PTL DEF Spec

-----------------------------------------------------------------------------
(* The selection is made of rows.                                          *)

LEMMA SelectUser ==
  ASSUME TypeOK, SelectionShown,
         \/ ClickRow \/ OpenRow \/ Backspace \/ Breadcrumb \/ History
         \/ EarlyHashChange
         \/ Escape \/ Cancel \/ Open("new") \/ Open("login") \/ Open("files")
         \/ OpenRename \/ OpenConfirm
         \/ StripDone
  PROVE  SelectionShown'
<1>1. UNCHANGED view
  BY DEF ClickRow, OpenRow, Backspace, Breadcrumb, History, EarlyHashChange,
         Escape, Cancel, Open, OpenRename,
         OpenConfirm, StripDone
<1>2. \/ UNCHANGED selectedNames \/ selectedNames' = {}
      \/ \E n \in entries.names :
           selectedNames' \in {{n}, selectedNames \ {n},
                               selectedNames \union {n}}
  BY DEF ClickRow, OpenRow, Click, Backspace, Breadcrumb, History,
         EarlyHashChange, Escape, Cancel, Open,
         OpenRename, OpenConfirm, StripDone
<1> QED
  BY <1>1, <1>2 DEF view, RowsShown, SelectionShown

LEMMA SelectRun ==
  ASSUME TypeOK, SelectionShown, NEW t \in Task,
         \/ ListReply(t) \/ ChangeReply(t) \/ DeleteReply(t) \/ UploadReply(t)
         \/ WhoamiReply(t) \/ LogoutReply(t) \/ LoginReply(t)
         \/ HashChange(t) \/ ClickRefresh(t)
         \/ SubmitNew(t) \/ SubmitRename(t) \/ ConfirmDelete(t)
         \/ SignOut(t) \/ SubmitLogin(t)
         \/ \E k \in 1 .. MaxUploads : UploadAll(t, k)
  PROVE  SelectionShown'
<1>1. CASE ListReply(t)
  BY <1>1 DEF ListReply, ListDone, ListFails, RowsShown, SelectionShown
<1>2. CASE \E p : RefreshListing(t, p)
  BY <1>2 DEF RefreshListing, RowsShown, SelectionShown
<1>3. CASE UNCHANGED << view, selectedNames >>
  BY <1>3 DEF view, RowsShown, SelectionShown
<1>4. CASE \/ ChangeReply(t) \/ DeleteReply(t) \/ UploadReply(t)
          \/ WhoamiReply(t) \/ LoginReply(t)
  BY <1>2, <1>3, <1>4
     DEF ChangeReply, DeleteReply, UploadReply, WhoamiReply, LoginReply
<1>5. CASE HashChange(t) \/ ClickRefresh(t)
  BY <1>2, <1>5 DEF HashChange, ClickRefresh
<1>6. CASE \/ LogoutReply(t) \/ SubmitNew(t) \/ SubmitRename(t)
          \/ ConfirmDelete(t) \/ SignOut(t) \/ SubmitLogin(t)
          \/ \E k \in 1 .. MaxUploads : UploadAll(t, k)
  BY <1>3, <1>6
     DEF LogoutReply, SubmitNew, SubmitRename, ConfirmDelete, SignOut,
         SubmitLogin, UploadAll
<1> QED
  BY <1>1, <1>4, <1>5, <1>6

(* Nothing is selected that the rows on the screen do not show.            *)
THEOREM OnlyRowsSelected == Spec => []SelectionShown
<1>1. Init => SelectionShown
  BY DEF Init, SelectionShown
<1>2. TypeOK /\ SelectionShown /\ [Next]_vars => SelectionShown'
  <2> SUFFICES ASSUME TypeOK, SelectionShown, [Next]_vars
               PROVE  SelectionShown'
    OBVIOUS
  <2>1. CASE UNCHANGED vars
    BY <2>1 DEF vars, view, RowsShown, SelectionShown
  <2>2. CASE Next
    BY <2>2, SelectUser, SelectRun DEF Next, DropFiles, ChooseFiles
  <2> QED
    BY <2>1, <2>2
<1> QED
  BY <1>1, <1>2, TypeCorrect, PTL DEF Spec

-----------------------------------------------------------------------------
(* Bars and uploads.  Batches number their files without overlap, which is *)
(* why the answer of one batch leaves the bars of the others alone.        *)

Files(t) == task[t].cur .. task[t].last
Sending(t) == task[t].op = "upload"

Batches ==
  /\ \A t \in Task : Sending(t) =>
       1 <= task[t].cur /\ task[t].cur <= task[t].last
                       /\ task[t].last <= uploadSeq
  /\ \A s, t \in Task : Sending(s) /\ Sending(t) /\ s # t =>
       Files(s) \intersect Files(t) = {}

BarInv == BarsMatchUploads /\ Batches

(* The uploads stay, and so do the runs that send them.                    *)
LEMMA BarsStay ==
  ASSUME TypeOK, BarInv, UNCHANGED << uploads, uploadSeq >>,
         \A t \in Task : \/ task'[t] = task[t]
                         \/ task[t].op # "upload" /\ task'[t].op # "upload"
  PROVE  BarInv'
<1>1. \A t \in Task : /\ Sending(t)' <=> Sending(t)
                      /\ Sending(t) => task'[t] = task[t]
  BY DEF Sending
<1>2. Batches'
  BY <1>1 DEF BarInv, Batches, Files
<1>3. BarsMatchUploads'
  BY <1>1 DEF BarInv, BarsMatchUploads, Sending
<1> QED
  BY <1>2, <1>3 DEF BarInv

LEMMA BarsUser ==
  ASSUME TypeOK, BarInv,
         \/ ClickRow \/ OpenRow \/ Backspace \/ Breadcrumb \/ History
         \/ EarlyHashChange
         \/ Escape \/ Cancel \/ Open("new") \/ Open("login") \/ Open("files")
         \/ OpenRename \/ OpenConfirm
  PROVE  BarInv'
<1>1. UNCHANGED << bars, task >>
  BY DEF ClickRow, OpenRow, Backspace, Breadcrumb, History, EarlyHashChange,
         Escape, Cancel, Open, OpenRename,
         OpenConfirm
<1> QED
  BY <1>1, BarsStay DEF bars

LEMMA BarsStrip ==
  ASSUME TypeOK, BarInv, StripDone
  PROVE  BarInv'
<1>1. UNCHANGED << task, uploadSeq >>
  BY DEF StripDone
<1>2. /\ DOMAIN uploads' = {j \in DOMAIN uploads : uploads[j] # "done"}
      /\ \A i \in DOMAIN uploads' : uploads'[i] = uploads[i]
  BY DEF StripDone
<1>3. Batches'
  BY <1>1 DEF BarInv, Batches, Files, Sending
<1>4. BarsMatchUploads'
  BY <1>1, <1>2 DEF BarInv, BarsMatchUploads
<1> QED
  BY <1>3, <1>4 DEF BarInv

LEMMA BarsRun ==
  ASSUME TypeOK, BarInv, NEW t \in Task,
         \/ ListReply(t) \/ ChangeReply(t) \/ DeleteReply(t)
         \/ WhoamiReply(t) \/ LogoutReply(t) \/ LoginReply(t)
         \/ HashChange(t) \/ ClickRefresh(t)
         \/ SubmitNew(t) \/ SubmitRename(t) \/ ConfirmDelete(t)
         \/ SignOut(t) \/ SubmitLogin(t)
  PROVE  BarInv'
<1>0. /\ task \in [Task -> CallType] /\ task[t] \in CallType
      /\ currentPath \in Place /\ hash \in Place
      /\ selectedNames \in SUBSET Name
  BY DEF TypeOK
<1>1. UNCHANGED bars
  BY DEF ListReply, ChangeReply, DeleteReply, WhoamiReply, LogoutReply,
         LoginReply, HashChange, ClickRefresh, SubmitNew, SubmitRename,
         ConfirmDelete, SignOut, SubmitLogin
<1>2. ASSUME NEW c \in CallType, c.op # "upload", task[t].op # "upload",
             task' = [task EXCEPT ![t] = c]
      PROVE  BarInv'
  BY <1>0, <1>1, <1>2, TaskMoves, BarsStay DEF bars
<1>3. ASSUME NEW p \in Place, RefreshListing(t, p), task[t].op # "upload"
      PROVE  BarInv'
  BY <1>2, <1>3, CallTypes DEF RefreshListing, Idle
<1>4. ASSUME EndTask(t), task[t].op # "upload"
      PROVE  BarInv'
  BY <1>2, <1>4, CallTypes DEF EndTask, Idle
<1>5. ASSUME NEW c \in CallType, c.op # "upload", Call(t, c)
      PROVE  BarInv'
  <2>1. task[t].op # "upload" /\ task' = [task EXCEPT ![t] = c]
    BY <1>5 DEF Call, Idle
  <2> QED
    BY <1>2, <1>5, <2>1
<1>6. CASE ListReply(t)
  BY <1>4, <1>6 DEF ListReply
<1>7. CASE ChangeReply(t) \/ WhoamiReply(t) \/ LoginReply(t)
  BY <1>0, <1>3, <1>4, <1>7 DEF ChangeReply, WhoamiReply, LoginReply
<1>8. CASE DeleteReply(t)
  <2>1. PICK n \in task[t].todo : \/ RefreshListing(t, currentPath)
                                 \/ task' = [task EXCEPT ![t].todo = @ \ {n}]
    BY <1>8 DEF DeleteReply
  <2>2. CASE RefreshListing(t, currentPath)
    BY <1>0, <1>3, <1>8, <2>2 DEF DeleteReply
  <2>3. CASE task' = [task EXCEPT ![t].todo = @ \ {n}]
    <3> DEFINE c == [task[t] EXCEPT !.todo = @ \ {n}]
    <3>1. c \in CallType /\ c.op # "upload"
      BY <1>0, <1>8 DEF CallType, DeleteReply
    <3> QED
      BY <1>2, <1>8, <2>3, <3>1 DEF DeleteReply
  <2> QED
    BY <2>1, <2>2, <2>3
<1>9. CASE LogoutReply(t)
  BY <1>2, <1>4, <1>9, CallTypes DEF LogoutReply, Whoami, Idle
<1>10. CASE HashChange(t) \/ ClickRefresh(t)
  BY <1>0, <1>3, <1>10 DEF HashChange, ClickRefresh, Idle
<1>11. CASE SubmitNew(t) \/ SubmitRename(t) \/ SignOut(t) \/ SubmitLogin(t)
  BY <1>0, <1>5, <1>11, CallTypes
     DEF SubmitNew, SubmitRename, SignOut, SubmitLogin, Idle
<1>12. CASE ConfirmDelete(t)
  <2>1. CASE UNCHANGED task
    BY <1>1, <2>1, BarsStay DEF bars
  <2> QED
    BY <1>0, <1>5, <1>12, <2>1, CallTypes DEF ConfirmDelete, Idle
<1> QED
  BY <1>6, <1>7, <1>8, <1>9, <1>10, <1>11, <1>12

(* A batch goes on to its next file, or ends.                              *)
LEMMA BarsUpload ==
  ASSUME TypeOK, BarInv, NEW t \in Task, UploadReply(t)
  PROVE  BarInv'
<1> DEFINE cur == task[t].cur
           last == task[t].last
<1>1. /\ task \in [Task -> CallType] /\ task[t] \in CallType
      /\ cur \in Nat /\ last \in Nat /\ uploadSeq \in Nat
      /\ \A s \in Task : task[s].cur \in Nat /\ task[s].last \in Nat
  BY BrowserAssumption DEF TypeOK, CallType
<1>2. /\ Sending(t) /\ cur <= last /\ last <= uploadSeq
      /\ uploadSeq' = uploadSeq
      /\ cur \in DOMAIN uploads
      /\ \A i \in cur + 1 .. last :
           i \in DOMAIN uploads /\ uploads[i] = "pending"
  BY DEF UploadReply, BarInv, Batches, BarsMatchUploads, Sending
<1>3. \A s \in Task \ {t} : /\ task'[s] = task[s]
                            /\ Sending(s) => task[s].cur \notin cur .. last
                            /\ Sending(s) =>
                                 \A i \in Files(s) : i \notin cur .. last
  <2>1. \A s \in Task \ {t} : task'[s] = task[s]
    BY <1>1 DEF UploadReply, RefreshListing
  <2>2. \A s \in Task \ {t} : Sending(s) =>
          \A i \in Files(s) : i \notin cur .. last
    BY <1>2 DEF BarInv, Batches, Files
  <2>3. \A s \in Task \ {t} : Sending(s) => task[s].cur \in Files(s)
    BY <1>1 DEF BarInv, Batches, Files
  <2> QED
    BY <2>1, <2>2, <2>3
<1>4. CASE MoreFiles(task[t])
  <2>1. PICK result \in Outcome :
          /\ uploads' = SetUpload(SetUpload(uploads, cur, result), cur + 1,
                                  "uploading")
          /\ task' = [task EXCEPT ![t].cur = @ + 1]
    BY <1>4 DEF UploadReply
  <2>2. /\ DOMAIN uploads' = DOMAIN uploads
        /\ \A i \in DOMAIN uploads :
             uploads'[i] = IF i = cur + 1 THEN "uploading"
                           ELSE IF i = cur THEN result ELSE uploads[i]
    BY <2>1 DEF SetUpload
  <2>3. /\ task'[t].op = "upload" /\ task'[t].cur = cur + 1
        /\ task'[t].last = last /\ cur + 1 <= last
    BY <1>1, <1>2, <1>4, <2>1 DEF Sending, MoreFiles, CallType
  <2> HIDE DEF cur, last
  <2>4. Batches'
    <3>1. ASSUME NEW s \in Task \ {t}, Sending(s)'
          PROVE  /\ 1 <= task'[s].cur /\ task'[s].cur <= task'[s].last
                 /\ task'[s].last <= uploadSeq'
                 /\ Files(s)' \intersect Files(t)' = {}
      <4>1. task'[s] = task[s] /\ Sending(s)
        BY <1>3, <3>1 DEF Sending
      <4>2. Files(s)' = Files(s) /\ Files(t)' = cur + 1 .. last
        BY <2>3, <4>1 DEF Files
      <4>3. \A i \in cur + 1 .. last : i \in cur .. last
        BY <1>1 DEF cur, last
      <4> QED
        BY <1>2, <1>3, <4>1, <4>2, <4>3 DEF BarInv, Batches
    <3>2. ASSUME NEW s \in Task \ {t}, NEW u \in Task \ {t}, s # u,
                 Sending(s)', Sending(u)'
          PROVE  Files(s)' \intersect Files(u)' = {}
      BY <1>3, <3>2 DEF BarInv, Batches, Files, Sending
    <3>3. 1 <= cur + 1
      BY <1>1 DEF cur
    <3> QED
      BY <1>2, <2>3, <3>1, <3>2, <3>3 DEF Batches
  <2>5. ASSUME NEW i \in DOMAIN uploads',
               uploads'[i] \in {"pending", "uploading"}
        PROVE  \E s \in Task : /\ task'[s].op = "upload"
                              /\ i \in task'[s].cur .. task'[s].last
    <3>1. CASE i = cur + 1
      BY <1>1, <2>3, <3>1 DEF cur, last
    <3>2. CASE i # cur + 1
      <4>1. i # cur /\ uploads[i] \in {"pending", "uploading"}
        BY <2>2, <2>5, <3>2 DEF Outcome
      <4>2. PICK s \in Task : Sending(s) /\ i \in task[s].cur .. task[s].last
        BY <2>2, <4>1 DEF BarInv, BarsMatchUploads, Sending
      <4>3. CASE s = t
        BY <1>1, <2>3, <3>2, <4>1, <4>2, <4>3 DEF cur, last
      <4> QED
        BY <1>3, <4>2, <4>3 DEF Sending
    <3> QED
      BY <3>1, <3>2
  <2>6. ASSUME NEW s \in Task, task'[s].op = "upload"
        PROVE  /\ task'[s].cur \in DOMAIN uploads'
               /\ uploads'[task'[s].cur] = "uploading"
               /\ \A i \in task'[s].cur + 1 .. task'[s].last :
                    i \in DOMAIN uploads' /\ uploads'[i] = "pending"
    <3>1. CASE s = t
      BY <1>1, <1>2, <2>2, <2>3, <3>1 DEF cur, last
    <3>2. CASE s # t
      <4>1. task'[s] = task[s] /\ Sending(s)
        BY <1>3, <2>6, <3>2 DEF Sending
      <4>2. \A i \in Files(s) : i # cur /\ i # cur + 1
        BY <1>1, <1>3, <2>3, <3>2, <4>1 DEF cur, last
      <4>3. task[s].cur \in Files(s)
            /\ \A i \in task[s].cur + 1 .. task[s].last : i \in Files(s)
        BY <1>1, <4>1 DEF BarInv, Batches, Files
      <4> QED
        BY <2>2, <4>1, <4>2, <4>3 DEF BarInv, BarsMatchUploads, Sending
    <3> QED
      BY <3>1, <3>2
  <2> QED
    BY <2>4, <2>5, <2>6 DEF BarInv, BarsMatchUploads
<1>5. CASE ~MoreFiles(task[t])
  <2>1. PICK result \in Outcome :
          /\ uploads' = SetUpload(uploads, cur, result)
          /\ RefreshListing(t, task[t].path)
    BY <1>5 DEF UploadReply
  <2>2. /\ DOMAIN uploads' = DOMAIN uploads
        /\ \A i \in DOMAIN uploads :
             uploads'[i] = IF i = cur THEN result ELSE uploads[i]
    BY <2>1 DEF SetUpload
  <2>3. task'[t].op = "list" /\ cur = last
    <3>1. task[t].path \in Place
      BY <1>1 DEF CallType
    <3> QED
      BY <1>1, <1>2, <1>5, <2>1, <3>1, WaitRefresh DEF MoreFiles
  <2> HIDE DEF cur, last
  <2>4. Batches'
    BY <1>2, <1>3, <2>3 DEF BarInv, Batches, Files, Sending
  <2>5. ASSUME NEW i \in DOMAIN uploads',
               uploads'[i] \in {"pending", "uploading"}
        PROVE  \E s \in Task : /\ task'[s].op = "upload"
                              /\ i \in task'[s].cur .. task'[s].last
    <3>1. i # cur /\ uploads[i] \in {"pending", "uploading"}
      BY <2>2, <2>5 DEF Outcome
    <3>2. PICK s \in Task : Sending(s) /\ i \in task[s].cur .. task[s].last
      BY <2>2, <3>1 DEF BarInv, BarsMatchUploads, Sending
    <3>3. s # t
      BY <1>1, <2>3, <3>1, <3>2 DEF cur, last
    <3> QED
      BY <1>3, <3>2, <3>3 DEF Sending
  <2>6. ASSUME NEW s \in Task, task'[s].op = "upload"
        PROVE  /\ task'[s].cur \in DOMAIN uploads'
               /\ uploads'[task'[s].cur] = "uploading"
               /\ \A i \in task'[s].cur + 1 .. task'[s].last :
                    i \in DOMAIN uploads' /\ uploads'[i] = "pending"
    <3>1. s # t
      BY <2>3, <2>6
    <3>2. task'[s] = task[s] /\ Sending(s)
      BY <1>3, <2>6, <3>1 DEF Sending
    <3>3. cur \in cur .. last
      BY <1>1, <1>2 DEF cur, last
    <3>4. cur \notin Files(s) /\ task[s].cur \in Files(s)
          /\ \A i \in task[s].cur + 1 .. task[s].last : i \in Files(s)
      BY <1>1, <1>3, <3>1, <3>2, <3>3 DEF BarInv, Batches, Files
    <3> QED
      BY <2>2, <3>2, <3>4 DEF BarInv, BarsMatchUploads, Sending
  <2> QED
    BY <2>4, <2>5, <2>6 DEF BarInv, BarsMatchUploads
<1> QED
  BY <1>4, <1>5

(* A new batch takes numbers that no other batch has.                      *)
LEMMA BarsStart ==
  ASSUME TypeOK, BarInv, NEW t \in Task, NEW k \in 1 .. MaxUploads,
         UploadAll(t, k)
  PROVE  BarInv'
<1> DEFINE first == uploadSeq + 1
           last == uploadSeq + k
<1>1. /\ task \in [Task -> CallType] /\ uploadSeq \in Nat /\ k \in Nat
      /\ k >= 1
      /\ DOMAIN uploads \subseteq 1 .. uploadSeq
      /\ \A s \in Task : task[s].cur \in Nat /\ task[s].last \in Nat
  BY BrowserAssumption DEF TypeOK, CallType
<1>2. /\ uploadSeq' = last
      /\ ~Sending(t)
      /\ task'[t] = [op |-> "upload", path |-> currentPath, todo |-> {},
                    cur |-> first, last |-> last]
      /\ \A s \in Task \ {t} : task'[s] = task[s]
  BY <1>1 DEF UploadAll, Call, Sending, Idle
<1>3. /\ DOMAIN uploads' = DOMAIN uploads \union first .. last
      /\ \A i \in DOMAIN uploads' :
           uploads'[i] = IF i = first THEN "uploading"
                         ELSE IF i \in first .. last THEN "pending"
                         ELSE uploads[i]
  BY DEF UploadAll, SetUpload
<1>4. /\ task'[t].op = "upload" /\ task'[t].cur = first /\ task'[t].last = last
      /\ first <= last /\ 1 <= first
  BY <1>1, <1>2
<1>5. \A s \in Task \ {t} : Sending(s) =>
        \A i \in Files(s) : i \notin first .. last /\ i <= uploadSeq
  BY <1>1 DEF BarInv, Batches, Files
<1>6. /\ first \in Nat /\ last \in Nat
      /\ \A i \in DOMAIN uploads : i \notin first .. last
  BY <1>1
<1>7. uploadSeq <= last
  BY <1>1
<1> HIDE DEF first, last
<1>8. Batches'
  <2>1. ASSUME NEW s \in Task \ {t}, Sending(s)'
        PROVE  /\ 1 <= task'[s].cur /\ task'[s].cur <= task'[s].last
               /\ task'[s].last <= uploadSeq'
               /\ Files(s)' \intersect Files(t)' = {}
    <3>1. task'[s] = task[s] /\ Sending(s)
      BY <1>2, <2>1 DEF Sending
    <3>2. Files(s)' = Files(s) /\ Files(t)' = first .. last
      BY <1>4, <3>1 DEF Files
    <3> QED
      BY <1>1, <1>2, <1>5, <1>6, <1>7, <3>1, <3>2 DEF BarInv, Batches
  <2>2. ASSUME NEW s \in Task \ {t}, NEW u \in Task \ {t}, s # u,
               Sending(s)', Sending(u)'
        PROVE  Files(s)' \intersect Files(u)' = {}
    BY <1>2, <2>2 DEF BarInv, Batches, Files, Sending
  <2> QED
    BY <1>2, <1>4, <1>6, <2>1, <2>2 DEF Batches
<1>9. ASSUME NEW i \in DOMAIN uploads',
             uploads'[i] \in {"pending", "uploading"}
      PROVE  \E s \in Task : /\ task'[s].op = "upload"
                            /\ i \in task'[s].cur .. task'[s].last
  <2>1. CASE i \in first .. last
    BY <1>4, <2>1
  <2>2. CASE i \notin first .. last
    <3>1. /\ i \in DOMAIN uploads /\ uploads'[i] = uploads[i]
      BY <1>3, <1>4, <1>6, <2>2
    <3>2. PICK s \in Task : Sending(s) /\ i \in task[s].cur .. task[s].last
      BY <1>9, <3>1 DEF BarInv, BarsMatchUploads, Sending
    <3> QED
      BY <1>2, <3>2 DEF Sending
  <2> QED
    BY <2>1, <2>2
<1>10. ASSUME NEW s \in Task, task'[s].op = "upload"
       PROVE  /\ task'[s].cur \in DOMAIN uploads'
              /\ uploads'[task'[s].cur] = "uploading"
              /\ \A i \in task'[s].cur + 1 .. task'[s].last :
                   i \in DOMAIN uploads' /\ uploads'[i] = "pending"
  <2>1. CASE s = t
    BY <1>3, <1>4, <1>6, <2>1
  <2>2. CASE s # t
    <3>1. task'[s] = task[s] /\ Sending(s)
      BY <1>2, <1>10, <2>2 DEF Sending
    <3>2. task[s].cur \in Files(s)
          /\ \A i \in task[s].cur + 1 .. task[s].last : i \in Files(s)
      BY <1>1, <3>1 DEF BarInv, Batches, Files
    <3>3. \A i \in Files(s) : i # first /\ i \notin first .. last
      BY <1>4, <1>5, <1>6, <2>2, <3>1
    <3> QED
      BY <1>3, <3>1, <3>2, <3>3 DEF BarInv, BarsMatchUploads, Sending
  <2> QED
    BY <2>1, <2>2
<1> QED
  BY <1>8, <1>9, <1>10 DEF BarInv, BarsMatchUploads

(* Every unfinished bar has its upload and every upload its bar, however   *)
(* many batches run and whichever timer strips the finished ones.          *)
THEOREM BarsAreUploads == Spec => []BarsMatchUploads
<1>1. Init => BarInv
  <2> SUFFICES ASSUME Init PROVE BarInv
    OBVIOUS
  <2>1. DOMAIN uploads = {}
    <3>1. uploads \in Seq(Name) /\ Len(uploads) = 0
      BY DEF Init
    <3> QED
      BY <3>1, LenProperties
  <2>2. \A t \in Task : task[t].op # "upload"
    BY DEF Init, Idle, Whoami
  <2> QED
    BY <2>1, <2>2 DEF BarInv, BarsMatchUploads, Batches, Sending
<1>2. TypeOK /\ BarInv /\ [Next]_vars => BarInv'
  <2> SUFFICES ASSUME TypeOK, BarInv, [Next]_vars PROVE BarInv'
    OBVIOUS
  <2>1. CASE UNCHANGED vars
    BY <2>1, BarsStay DEF vars, bars
  <2>2. CASE Next
    BY <2>2, BarsUser, BarsStrip, BarsRun, BarsUpload, BarsStart
       DEF Next, DropFiles, ChooseFiles
  <2> QED
    BY <2>1, <2>2
<1>3. BarInv => BarsMatchUploads
  BY DEF BarInv
<1> QED
  BY <1>1, <1>2, <1>3, TypeCorrect, PTL DEF Spec
=============================================================================
