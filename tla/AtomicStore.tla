---------------------------- MODULE AtomicStore ----------------------------
(***************************************************************************)
(* What the clients of flyo's file API are promised: a store in which a    *)
(* file appears, with its whole content, in one step (upload), a directory *)
(* appears in one step, and an entry moves with everything below it in one *)
(* step (rename, and delete into the trash).  Nothing else ever changes    *)
(* what the store holds: in particular content is never half there, and    *)
(* no entry disappears other than by moving or by being replaced.          *)
(***************************************************************************)
EXTENDS ShareTree

CONSTANTS Initial,   \* what the store holds at start
          Content    \* the contents files may have

VARIABLE store       \* store[p]: Dir, or the content of the file at p

Init == store = Initial

(* `mkdir`, one level of it.                                               *)
MakeDir ==
  \E p \in DOMAIN store' \ DOMAIN store :
     IsDir(store, Front(p)) /\ store' = Link(store, p, Dir)

(* `upload`: a new file or the replacement of a file.                      *)
Put ==
  \E p \in DOMAIN store' :
     /\ IsDir(store, Front(p)) /\ ~IsDir(store, p)
     /\ store'[p] \in Content
     /\ store' = Link(store, p, store'[p])

(* `rename` and `delete`.                                                  *)
Move ==
  \E a \in DOMAIN store, b \in DOMAIN store' :
     CanRename(store, a, b) /\ store' = Rename(store, a, b)

Next == MakeDir \/ Put \/ Move

Spec == Init /\ [][Next]_store
=============================================================================
