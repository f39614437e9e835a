------------------------------ MODULE Browser ------------------------------
(***************************************************************************)
(* The page of flyo/web: the signals of state.ts, the handlers and actions *)
(* of App.tsx, the calls of api.ts.  Everything runs on one thread; what   *)
(* interleaves is the code between two awaits.  A task is a run of an      *)
(* async function that waits for a reply; when it goes on, it goes on with *)
(* the signals as they are then.  The server is external: it answers every *)
(* call with success or failure, a listing with any set of names that      *)
(* Listing allows.                                                         *)
(*                                                                         *)
(* A path is the sequence of its directory names.  Left out: sorting,      *)
(* themes, languages, toasts, the drag overlay and the width of the bars.  *)
(***************************************************************************)
EXTENDS Naturals, SequencesExt

CONSTANTS Task,        \* slots for runs of async functions
          NoTask,
          Name,        \* names of entries
          NoName,
          DirName,     \* those of them that are directories
          Listing(_),  \* the sets of names a listing of a path may hold
          Who,         \* what whoami and login may answer
          NoOne,       \* defaultGuestPerms()
          Unknown,     \* user.value === null
          MaxDepth,    \* bound on the depth of a path
          MaxUploads   \* bound on uploadSeq

Root == << >>
Place == UNION {[1 .. n -> DirName] : n \in 0 .. MaxDepth}

ASSUME BrowserAssumption ==
  /\ NoTask \notin Task /\ NoName \notin Name /\ DirName \subseteq Name
  /\ MaxDepth \in Nat /\ MaxUploads \in Nat
  /\ Unknown \notin Who \union {NoOne}
  /\ \A w \in Who \union {NoOne} : /\ w.auth \in BOOLEAN
                                   /\ w.perms \subseteq {"upload", "modify"}
  /\ \A p \in Place : Listing(p) \subseteq SUBSET Name

VARIABLES user, currentPath, entries, loading, loadError, selectedNames,
          hash,          \* window.location.hash, decoded
          modals,        \* which dialogs with a flag are open; "files" is
                         \* the browser's file dialog
          renameTarget,  \* the rename dialog is open unless NoName
          busy,          \* the task whose login disables the open login dialog
          uploads,       \* id -> state of the upload
          uploadSeq,
          timers,        \* strips of finished uploads that are scheduled
          task           \* task[t]: the call that run t waits for

place == << currentPath, hash >>
view == << entries, loading, loadError >>
dialogs == << modals, renameTarget, busy >>
bars == << uploads, uploadSeq, timers >>
vars == << user, place, view, selectedNames, dialogs, bars, task >>

Idle == [op |-> "idle", path |-> Root, todo |-> {}, cur |-> 0, last |-> 0]
Whoami == [Idle EXCEPT !.op = "whoami"]

Init ==
  /\ \E p \in Place : currentPath = p /\ hash = p
  /\ \E t \in Task : task = [x \in Task |-> IF x = t THEN Whoami ELSE Idle]
  /\ user = Unknown
  /\ entries = [of |-> Root, names |-> {}]
  /\ loading = FALSE /\ loadError = FALSE
  /\ selectedNames = {}
  /\ modals = {} /\ renameTarget = NoName /\ busy = NoTask
  /\ uploads = << >> /\ uploadSeq = 0 /\ timers = 0

-----------------------------------------------------------------------------
(* What the page shows.                                                    *)

Mounted == user # Unknown
May(perm) == Mounted /\ perm \in user.perms
Uncovered == Mounted /\ modals = {} /\ renameTarget = NoName
RowsShown == ~loading /\ ~loadError

(* The first part of refreshListing(p), run by task t up to its await.     *)
RefreshListing(t, p) ==
  /\ task' = [task EXCEPT ![t] = [Idle EXCEPT !.op = "list", !.path = p]]
  /\ loading' = TRUE /\ loadError' = FALSE /\ UNCHANGED entries

Call(t, c) == task[t] = Idle /\ task' = [task EXCEPT ![t] = c]
EndTask(t) == task' = [task EXCEPT ![t] = Idle]

(* Mutation of ListDone: the selection outlives the rows it was made in.   *)
KeepSelection(t, names) ==
  /\ entries' = [of |-> task[t].path, names |-> names]
  /\ loading' = FALSE /\ UNCHANGED << selectedNames, loadError >>

(* The rest of refreshListing, with the reply or with the error.           *)
ListDone(t, names) ==
  /\ entries' = [of |-> task[t].path, names |-> names]
  /\ selectedNames' = {}
  /\ loading' = FALSE /\ UNCHANGED loadError

(* Mutation of ListFails: no `finally`, the spinner stays.                 *)
SpinnerStays(t) ==
  /\ entries' = [of |-> task[t].path, names |-> {}]
  /\ loadError' = TRUE
  /\ UNCHANGED << loading, selectedNames >>

ListFails(t) ==
  /\ entries' = [of |-> task[t].path, names |-> {}]
  /\ loadError' = TRUE
  /\ loading' = FALSE /\ UNCHANGED selectedNames

ListReply(t) ==
  /\ task[t].op = "list"
  /\ EndTask(t)
  /\ \/ \E names \in Listing(task[t].path) : ListDone(t, names)
     \/ ListFails(t)
  /\ UNCHANGED << user, place, dialogs, bars >>

-----------------------------------------------------------------------------
(* Navigation: navigate() sets the hash, the event follows.                *)

Navigate(p) == p \in Place /\ p # currentPath /\ hash' = p

JoinPath(base, name) == Append(base, name)
ParentPath(p) == IF p = Root THEN Root ELSE Front(p)

(* Click on a row: it becomes the selection or, with a key held, is        *)
(* toggled.                                                                *)
Click(n) ==
  /\ Uncovered /\ RowsShown /\ n \in entries.names
  /\ \/ selectedNames' = {n}
     \/ selectedNames' = IF n \in selectedNames THEN selectedNames \ {n}
                                                ELSE selectedNames \union {n}

ClickRow ==
  /\ \E n \in entries.names : Click(n)
  /\ UNCHANGED << user, place, view, dialogs, bars, task >>

(* The link of a directory: the click reaches the row as well.             *)
OpenRow ==
  /\ \E n \in entries.names \intersect DirName :
       Click(n) /\ Navigate(JoinPath(currentPath, n))
  /\ UNCHANGED << user, currentPath, view, dialogs, bars, task >>

(* Backspace: no open dialog holds it back.                                *)
Backspace ==
  /\ Mounted /\ currentPath # Root
  /\ Navigate(ParentPath(currentPath))
  /\ UNCHANGED << user, currentPath, view, selectedNames, dialogs, bars,
                  task >>

Breadcrumb ==
  /\ Uncovered
  /\ \E k \in 0 .. Len(currentPath) : Navigate(SubSeq(currentPath, 1, k))
  /\ UNCHANGED << user, currentPath, view, selectedNames, dialogs, bars,
                  task >>

(* The browser's own back and forward buttons.                             *)
History ==
  /\ hash' \in Place /\ hash' # hash
  /\ UNCHANGED << user, currentPath, view, selectedNames, dialogs, bars,
                  task >>

(* hashchange sets currentPath, and the effect on it refreshes once the    *)
(* page is mounted.                                                        *)
EarlyHashChange ==
  /\ ~Mounted /\ hash # currentPath /\ currentPath' = hash
  /\ UNCHANGED << user, hash, view, selectedNames, dialogs, bars, task >>

HashChange(t) ==
  /\ Mounted /\ hash # currentPath /\ task[t] = Idle
  /\ currentPath' = hash
  /\ RefreshListing(t, hash)
  /\ UNCHANGED << user, hash, selectedNames, dialogs, bars >>

ClickRefresh(t) ==
  /\ Uncovered /\ task[t] = Idle
  /\ RefreshListing(t, currentPath)
  /\ UNCHANGED << user, place, selectedNames, dialogs, bars >>

-----------------------------------------------------------------------------
(* Dialogs.  A scrim keeps the pointer off the page below; the keys that   *)
(* the window listens for reach it.  (Moving the focus below an open       *)
(* dialog with Tab is left out.)                                           *)

(* Escape and the clear button: unless an input has the focus, the         *)
(* selection goes; every open dialog listens for the key itself.           *)
Escape ==
  /\ Mounted
  /\ \/ selectedNames' = {}
     \/ ~Uncovered /\ UNCHANGED selectedNames
  /\ modals' = {} /\ renameTarget' = NoName /\ busy' = NoTask
  /\ UNCHANGED << user, place, view, bars, task >>

CloseModal(m) ==
  /\ m \in modals /\ modals' = modals \ {m}
  /\ busy' = IF m = "login" THEN NoTask ELSE busy

Cancel ==
  /\ \/ (\E m \in modals : CloseModal(m)) /\ UNCHANGED renameTarget
     \/ renameTarget # NoName /\ renameTarget' = NoName
        /\ UNCHANGED << modals, busy >>
  /\ UNCHANGED << user, place, view, selectedNames, bars, task >>

(* The new folder and the new file dialog, the sign-in dialog, and the     *)
(* browser's own dialog behind the upload button.                          *)
Open(m) ==
  /\ Uncovered
  /\ IF m = "login" THEN ~user.auth ELSE May("upload")
  /\ modals' = {m}
  /\ UNCHANGED << user, place, view, selectedNames, renameTarget, busy, bars,
                  task >>

(* F2, or the pencil of a row.                                             *)
OpenRename ==
  /\ May("modify")
  /\ \E n \in Name :
       /\ \/ selectedNames = {n}
          \/ Uncovered /\ RowsShown /\ n \in entries.names
       /\ renameTarget' = n
  /\ UNCHANGED << user, place, view, selectedNames, modals, busy, bars, task >>

(* The Delete key or button, or the bin of a row, which selects the row.   *)
OpenConfirm ==
  /\ May("modify")
  /\ \/ selectedNames # {} /\ UNCHANGED selectedNames
     \/ /\ Uncovered /\ RowsShown
        /\ \E n \in entries.names : selectedNames' = {n}
  /\ modals' = modals \union {"confirm"}
  /\ UNCHANGED << user, place, view, renameTarget, busy, bars, task >>

-----------------------------------------------------------------------------
(* Changes: mkdir, an empty file, a rename, deletes.                       *)

SubmitNew(t) ==
  /\ CloseModal("new")
  /\ Call(t, [Idle EXCEPT !.op = "change", !.path = currentPath])
  /\ UNCHANGED << user, place, view, selectedNames, renameTarget, bars >>

SubmitRename(t) ==
  /\ renameTarget # NoName /\ renameTarget' = NoName
  /\ Call(t, [Idle EXCEPT !.op = "change", !.path = currentPath])
  /\ UNCHANGED << user, place, view, selectedNames, modals, busy, bars >>

ChangeReply(t) ==
  /\ task[t].op = "change"
  /\ \/ RefreshListing(t, currentPath)
     \/ EndTask(t) /\ UNCHANGED view
  /\ UNCHANGED << user, place, selectedNames, dialogs, bars >>

(* deleteSelected(): one call for each name, all at once.                  *)
ConfirmDelete(t) ==
  /\ CloseModal("confirm")
  /\ IF selectedNames = {} THEN UNCHANGED task
     ELSE Call(t, [Idle EXCEPT !.op = "delete", !.path = currentPath,
                               !.todo = selectedNames])
  /\ UNCHANGED << user, place, view, selectedNames, renameTarget, bars >>

(* Promise.all: the last reply, good or bad, lets the run go on.           *)
DeleteReply(t) ==
  /\ task[t].op = "delete"
  /\ \E n \in task[t].todo :
       IF task[t].todo = {n} THEN RefreshListing(t, currentPath)
       ELSE /\ task' = [task EXCEPT ![t].todo = @ \ {n}]
            /\ UNCHANGED view
  /\ UNCHANGED << user, place, selectedNames, dialogs, bars >>

-----------------------------------------------------------------------------
(* Uploads.                                                                *)

(* setUpload(): an id that is not listed changes nothing.                  *)
SetUpload(u, id, state) ==
  [i \in DOMAIN u |-> IF i = id THEN state ELSE u[i]]

(* uploadAll() of k files up to its first await.                           *)
UploadAll(t, k) ==
  /\ uploadSeq + k <= MaxUploads /\ uploadSeq' = uploadSeq + k
  /\ LET ids == uploadSeq + 1 .. uploadSeq + k
         listed == [i \in DOMAIN uploads \union ids |->
                      IF i \in ids THEN "pending" ELSE uploads[i]]
     IN  uploads' = SetUpload(listed, uploadSeq + 1, "uploading")
  /\ Call(t, [op |-> "upload", path |-> currentPath, todo |-> {},
              cur |-> uploadSeq + 1, last |-> uploadSeq + k])
  /\ UNCHANGED << user, place, view, selectedNames, renameTarget, timers >>

(* Files dropped on the page, whatever is open on it.                      *)
DropFiles(t, k) ==
  May("upload") /\ UploadAll(t, k) /\ UNCHANGED << modals, busy >>

(* The file dialog answers: no permission is asked again, and the files go *)
(* to the directory that the page is in by then.                           *)
ChooseFiles(t, k) == CloseModal("files") /\ UploadAll(t, k)

(* The promise of uploadFile(): 2xx, or another status or no answer.       *)
Outcome == {"done", "failed"}

(* Mutation of MoreFiles: the loop runs one file too far.                  *)
OneTooMany(call) == call.cur <= call.last

MoreFiles(call) == call.cur < call.last

UploadReply(t) ==
  /\ task[t].op = "upload"
  /\ \E result \in Outcome :
       LET answered == SetUpload(uploads, task[t].cur, result)
       IN  IF MoreFiles(task[t])
           THEN /\ uploads' = SetUpload(answered, task[t].cur + 1, "uploading")
                /\ task' = [task EXCEPT ![t].cur = @ + 1]
                /\ UNCHANGED << view, timers >>
           ELSE /\ uploads' = answered
                /\ timers' = timers + 1
                /\ RefreshListing(t, task[t].path)
  /\ UNCHANGED << user, place, selectedNames, dialogs, uploadSeq >>

(* Mutation of StripDone: the end of one batch clears every bar.           *)
StripAll ==
  /\ timers > 0 /\ timers' = timers - 1
  /\ uploads' = << >>
  /\ UNCHANGED << user, place, view, selectedNames, dialogs, uploadSeq, task >>

(* The timer set at the end of a batch: whatever is done goes.             *)
StripDone ==
  /\ timers > 0 /\ timers' = timers - 1
  /\ uploads' = [i \in {j \in DOMAIN uploads : uploads[j] # "done"} |->
                   uploads[i]]
  /\ UNCHANGED << user, place, view, selectedNames, dialogs, uploadSeq, task >>

-----------------------------------------------------------------------------
(* Who is signed in.                                                       *)

(* The first whoami mounts the page, and mounting runs the effect on       *)
(* currentPath; the whoami after a sign-out only replaces the user.        *)
WhoamiReply(t) ==
  /\ task[t].op = "whoami"
  /\ IF Mounted
     THEN /\ EndTask(t) /\ UNCHANGED view
          /\ user' \in Who \union {user}
     ELSE RefreshListing(t, currentPath) /\ user' \in Who \union {NoOne}
  /\ UNCHANGED << place, selectedNames, dialogs, bars >>

SignOut(t) ==
  /\ Uncovered /\ user.auth
  /\ Call(t, [Idle EXCEPT !.op = "logout"])
  /\ UNCHANGED << user, place, view, selectedNames, dialogs, bars >>

LogoutReply(t) ==
  /\ task[t].op = "logout"
  /\ task' = [task EXCEPT ![t] = Whoami] \/ EndTask(t)
  /\ UNCHANGED << user, place, view, selectedNames, dialogs, bars >>

(* `busy` belongs to one opening of the dialog.                            *)
SubmitLogin(t) ==
  /\ "login" \in modals /\ busy = NoTask /\ busy' = t
  /\ Call(t, [Idle EXCEPT !.op = "login"])
  /\ UNCHANGED << user, place, view, selectedNames, modals, renameTarget,
                  bars >>

LoginReply(t) ==
  /\ task[t].op = "login"
  /\ \/ /\ user' \in {w \in Who : w.auth}
        /\ modals' = modals \ {"login"} /\ busy' = NoTask
        /\ RefreshListing(t, currentPath)
     \/ /\ EndTask(t) /\ busy' = IF busy = t THEN NoTask ELSE busy
        /\ UNCHANGED << user, view, modals >>
  /\ UNCHANGED << place, selectedNames, renameTarget, bars >>

-----------------------------------------------------------------------------
Next ==
  \/ ClickRow \/ OpenRow \/ Backspace \/ Breadcrumb \/ History
  \/ EarlyHashChange
  \/ Escape \/ Cancel \/ Open("new") \/ Open("login") \/ Open("files")
  \/ OpenRename \/ OpenConfirm \/ StripDone
  \/ \E t \in Task :
       \/ ListReply(t) \/ ChangeReply(t) \/ DeleteReply(t) \/ UploadReply(t)
       \/ WhoamiReply(t) \/ LogoutReply(t) \/ LoginReply(t)
       \/ HashChange(t) \/ ClickRefresh(t)
       \/ SubmitNew(t) \/ SubmitRename(t) \/ ConfirmDelete(t)
       \/ SignOut(t) \/ SubmitLogin(t)
       \/ \E k \in 1 .. MaxUploads : DropFiles(t, k) \/ ChooseFiles(t, k)

Spec == Init /\ [][Next]_vars

-----------------------------------------------------------------------------
CallType == [op : {"idle", "list", "change", "delete", "upload", "whoami",
                   "logout", "login"},
             path : Place, todo : SUBSET Name,
             cur : 0 .. MaxUploads, last : 0 .. MaxUploads]

TypeOK ==
  /\ user \in Who \union {NoOne, Unknown}
  /\ currentPath \in Place /\ hash \in Place
  /\ entries \in [of : Place, names : SUBSET Name]
  /\ loading \in BOOLEAN /\ loadError \in BOOLEAN
  /\ selectedNames \in SUBSET Name
  /\ modals \subseteq {"new", "login", "confirm", "files"}
  /\ renameTarget \in Name \union {NoName}
  /\ busy \in Task \union {NoTask}
  /\ uploadSeq \in 0 .. MaxUploads /\ timers \in Nat
  /\ DOMAIN uploads \subseteq 1 .. uploadSeq
  /\ \A i \in DOMAIN uploads :
       uploads[i] \in {"pending", "uploading", "done", "failed"}
  /\ task \in [Task -> CallType]

(* The page never waits for nothing: "Loading" is shown only while a       *)
(* listing is under way, and the sign-in button is disabled only while the *)
(* login it sent is (the two `finally` blocks), however runs overlap and   *)
(* however the dialog is closed and opened meanwhile.                      *)
NothingStuck ==
  /\ loading => \E t \in Task : task[t].op = "list"
  /\ busy # NoTask => task[busy].op = "login" /\ "login" \in modals

(* While rows are shown the selection is among them, whatever overlapping  *)
(* refreshes, failures and navigation did before.                          *)
SelectionShown == RowsShown => selectedNames \subseteq entries.names

(* Upload bars and uploads correspond: an unfinished bar belongs to a      *)
(* batch that is still running, and the file a batch is sending has its    *)
(* bar, whatever the timers of other batches strip.                        *)
BarsMatchUploads ==
  /\ \A i \in DOMAIN uploads : uploads[i] \in {"pending", "uploading"} =>
       \E t \in Task : /\ task[t].op = "upload"
                       /\ i \in task[t].cur .. task[t].last
  /\ \A t \in Task : task[t].op = "upload" =>
       /\ task[t].cur \in DOMAIN uploads
       /\ uploads[task[t].cur] = "uploading"
       /\ \A i \in task[t].cur + 1 .. task[t].last :
            i \in DOMAIN uploads /\ uploads[i] = "pending"

(* "Delete selected" (App.tsx:101): the paths a confirmed delete names are *)
(* those of entries listed, hence selected, in that directory.             *)
DeletesSelected ==
  [][\A t \in Task :
       task[t].op = "idle" /\ task'[t].op = "delete"
       => /\ task'[t].path = entries.of
          /\ task'[t].todo \subseteq entries.names]_vars
=============================================================================
