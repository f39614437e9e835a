--------------------------- MODULE FileApiProofs ----------------------------
(***************************************************************************)
(* Proofs about the handlers of FileApi, for any number of requests, any   *)
(* share and any faults: types, and that half-uploaded content is never    *)
(* reachable under a name without the temporary suffix.  They rest on facts*)
(* about paths and trees: what rename(2) does to every path, and that it   *)
(* keeps a tree well formed.                                               *)
(***************************************************************************)
EXTENDS FileApiProps, SequenceTheorems, TLAPS

(* A prefix of a path, element by element.                                 *)
LEMMA PrefixElements ==
  ASSUME NEW S, NEW s \in Seq(S), NEW t \in Seq(S)
  PROVE  IsPrefix(s, t) <=> /\ Len(s) <= Len(t)
                            /\ \A i \in 1 .. Len(s) : s[i] = t[i]
<1> DEFINE u == SubSeq(t, 1, Len(s))
<1>1. Len(s) \in Nat /\ Len(t) \in Nat
  BY LenProperties
<1>2. ASSUME Len(s) <= Len(t)
      PROVE  /\ u \in Seq(S) /\ Len(u) = Len(s)
             /\ \A i \in 1 .. Len(s) : u[i] = t[i]
  <2>1. \A i \in 1 .. Len(s) : t[i] \in S
    BY <1>1, <1>2, ElementOfSeq
  <2> QED
    BY <1>1, <1>2, <2>1, SubSeqProperties
<1>3. IsPrefix(s, t) <=> Len(s) <= Len(t) /\ s = u
  BY DEF IsPrefix
<1>4. ASSUME Len(s) <= Len(t), \A i \in 1 .. Len(s) : s[i] = t[i]
      PROVE  s = u
  BY <1>2, <1>4, SeqEqual
<1> QED
  BY <1>2, <1>3, <1>4

(* The first k names of a path.                                            *)
LEMMA PrefixProperties ==
  ASSUME NEW p \in Path, NEW k \in 0 .. Len(p)
  PROVE  /\ SubSeq(p, 1, k) \in Path
         /\ Len(SubSeq(p, 1, k)) = k
         /\ \A i \in 1 .. k : SubSeq(p, 1, k)[i] = p[i]
         /\ IsPrefix(SubSeq(p, 1, k), p)
<1>1. Len(p) \in Nat /\ k \in Int /\ \A i \in 1 .. k : p[i] \in Name
  BY LenProperties, ElementOfSeq DEF Path
<1>2. /\ SubSeq(p, 1, k) \in Path
      /\ Len(SubSeq(p, 1, k)) = k
      /\ \A i \in 1 .. k : SubSeq(p, 1, k)[i] = p[i]
  BY <1>1, SubSeqProperties DEF Path
<1>3. IsPrefix(SubSeq(p, 1, k), p)
  <2> DEFINE q == SubSeq(p, 1, k)
  <2>1. q \in Seq(Name) /\ Len(q) = k /\ \A i \in 1 .. k : q[i] = p[i]
    BY <1>2 DEF Path
  <2> HIDE DEF q
  <2>2. IsPrefix(q, p)
    BY <1>1, <2>1, PrefixElements DEF Path
  <2> QED
    BY <2>2 DEF q
<1> QED
  BY <1>2, <1>3

(* The parent of a path.                                                   *)
LEMMA FrontProperties ==
  ASSUME NEW p \in Path
  PROVE  /\ Front(p) \in Path
         /\ p # Root => /\ Len(p) \in Nat \ {0}
                        /\ Front(p) = SubSeq(p, 1, Len(p) - 1)
                        /\ Last(p) = p[Len(p)] /\ Last(p) \in Name
<1>1. Len(p) \in Nat /\ (p # Root => Len(p) # 0)
  BY LenProperties, EmptySeq DEF Path, Root
<1>2. CASE p = Root
  <2>1. Len(p) = 0
    BY <1>2, EmptySeq DEF Root
  <2>2. \A i \in 1 .. -1 : p[i] \in Name
    OBVIOUS
  <2>3. SubSeq(p, 1, -1) \in Path
    BY <2>2, SubSeqProperties DEF Path
  <2> QED
    BY <1>2, <2>1, <2>3 DEF Front
<1>3. CASE p # Root
  BY <1>1, <1>3, PrefixProperties, ElementOfSeq DEF Front, Last, Path
<1> QED
  BY <1>2, <1>3

(* Two prefixes of one path are comparable, and a prefix of a prefix is a  *)
(* prefix.                                                                 *)
LEMMA PrefixTransitive ==
  ASSUME NEW p \in Path, NEW q \in Path, NEW s \in Path,
         IsPrefix(p, q), IsPrefix(q, s)
  PROVE  IsPrefix(p, s)
BY PrefixElements, LenProperties DEF Path

(* A prefix is the initial piece of its length.                            *)
LEMMA PrefixIsSubSeq ==
  ASSUME NEW p \in Path, NEW q \in Path, IsPrefix(p, q)
  PROVE  /\ Len(p) \in Nat /\ Len(q) \in Nat /\ Len(p) <= Len(q)
         /\ p = SubSeq(q, 1, Len(p))
<1>1. /\ Len(p) \in Nat /\ Len(q) \in Nat /\ Len(p) <= Len(q)
      /\ \A i \in 1 .. Len(p) : p[i] = q[i]
  BY PrefixElements, LenProperties DEF Path
<1> QED
  BY <1>1, PrefixProperties, SeqEqual DEF Path

(* What a path below a becomes when a becomes b.                           *)
LEMMA RebaseProperties ==
  ASSUME NEW a \in Path, NEW b \in Path, NEW p \in Path, IsPrefix(a, p)
  PROVE  /\ Rebase(p, a, b) \in Path
         /\ Len(Rebase(p, a, b)) = Len(b) + Len(p) - Len(a)
         /\ \A i \in 1 .. Len(b) : Rebase(p, a, b)[i] = b[i]
         /\ \A i \in Len(b) + 1 .. Len(b) + Len(p) - Len(a) :
              Rebase(p, a, b)[i] = p[i - Len(b) + Len(a)]
         /\ IsPrefix(b, Rebase(p, a, b))
<1> DEFINE tail == SubSeq(p, Len(a) + 1, Len(p))
<1>1. /\ Len(a) \in Nat /\ Len(b) \in Nat /\ Len(p) \in Nat
      /\ Len(a) <= Len(p)
  BY PrefixElements, LenProperties DEF Path
<1>2. \A i \in Len(a) + 1 .. Len(p) : p[i] \in Name
  BY <1>1, ElementOfSeq DEF Path
<1>3. /\ tail \in Seq(Name) /\ Len(tail) = Len(p) - Len(a)
      /\ \A i \in 1 .. Len(p) - Len(a) : tail[i] = p[Len(a) + i]
  BY <1>1, <1>2, SubSeqProperties
<1>4. /\ b \o tail \in Seq(Name)
      /\ Len(b \o tail) = Len(b) + Len(tail)
      /\ \A i \in 1 .. Len(b) + Len(tail) :
           (b \o tail)[i] = IF i <= Len(b) THEN b[i] ELSE tail[i - Len(b)]
  BY <1>3, ConcatProperties DEF Path
<1>5. Rebase(p, a, b) = b \o tail
  BY DEF Rebase
<1>6. \A i \in 1 .. Len(b) : (b \o tail)[i] = b[i]
  BY <1>1, <1>3, <1>4
<1>7. \A i \in Len(b) + 1 .. Len(b) + Len(p) - Len(a) :
        (b \o tail)[i] = p[i - Len(b) + Len(a)]
  BY <1>1, <1>3, <1>4
<1>8. IsPrefix(b, b \o tail)
  <2> DEFINE c == b \o tail
  <2>1. /\ c \in Seq(Name) /\ Len(b) <= Len(c)
        /\ \A i \in 1 .. Len(b) : c[i] = b[i]
    BY <1>1, <1>3, <1>4, <1>6
  <2> HIDE DEF c
  <2>2. IsPrefix(b, c)
    BY <2>1, PrefixElements DEF Path
  <2> QED
    BY <2>2 DEF c
<1> HIDE DEF tail
<1> QED
  BY <1>1, <1>3, <1>4, <1>5, <1>6, <1>7, <1>8 DEF Path

(* Moving a path there and back.                                           *)
LEMMA RebaseInverse ==
  ASSUME NEW a \in Path, NEW b \in Path, NEW p \in Path, IsPrefix(a, p)
  PROVE  Rebase(Rebase(p, a, b), b, a) = p
<1> DEFINE q == Rebase(p, a, b)
           r == Rebase(q, b, a)
<1>1. /\ Len(a) \in Nat /\ Len(b) \in Nat /\ Len(p) \in Nat
      /\ Len(a) <= Len(p) /\ \A i \in 1 .. Len(a) : a[i] = p[i]
  BY PrefixElements, LenProperties DEF Path
<1>2. /\ q \in Path /\ Len(q) = Len(b) + Len(p) - Len(a) /\ IsPrefix(b, q)
      /\ \A i \in Len(b) + 1 .. Len(b) + Len(p) - Len(a) :
           q[i] = p[i - Len(b) + Len(a)]
  BY RebaseProperties
<1> HIDE DEF q
<1>3. /\ r \in Path /\ Len(r) = Len(a) + Len(q) - Len(b)
      /\ \A i \in 1 .. Len(a) : r[i] = a[i]
      /\ \A i \in Len(a) + 1 .. Len(a) + Len(q) - Len(b) :
           r[i] = q[i - Len(a) + Len(b)]
  BY <1>2, RebaseProperties
<1> HIDE DEF r
<1>4. ASSUME NEW i \in 1 .. Len(p)
      PROVE  r[i] = p[i]
  <2>1. CASE i \in 1 .. Len(a)
    BY <1>1, <1>3, <2>1
  <2>2. CASE i \in Len(a) + 1 .. Len(p)
    <3> DEFINE j == i - Len(a) + Len(b)
    <3>1. j \in Len(b) + 1 .. Len(b) + Len(p) - Len(a)
      BY <1>1, <2>2
    <3>2. r[i] = q[j]
      BY <1>1, <1>2, <1>3, <2>2
    <3>3. q[j] = p[j - Len(b) + Len(a)] /\ j - Len(b) + Len(a) = i
      BY <1>1, <1>2, <3>1
    <3> QED
      BY <3>2, <3>3
  <2> QED
    BY <1>1, <2>1, <2>2
<1>5. r = p
  <2>1. r \in Seq(Name) /\ p \in Seq(Name) /\ Len(r) = Len(p)
    BY <1>1, <1>2, <1>3 DEF Path
  <2> QED
    BY <1>4, <2>1, SeqEqual
<1> QED
  BY <1>5 DEF q, r

-----------------------------------------------------------------------------
(* What rename(2) does to a tree.                                          *)

Tree(t) == DOMAIN t \subseteq Path /\ WellFormed(t)

(* If the parent of b is a directory, all that is above b is.              *)
LEMMA DirsAbove ==
  ASSUME NEW t, Tree(t), NEW b \in Path, b # Root, IsDir(t, Front(b)),
         NEW k \in 1 .. Len(b) - 1
  PROVE  SubSeq(b, 1, k) \in DOMAIN t /\ t[SubSeq(b, 1, k)] = Dir
<1>1. Len(b) \in Nat \ {0} /\ Front(b) = SubSeq(b, 1, Len(b) - 1)
  BY FrontProperties
<1>2. /\ k \in Nat /\ 1 <= k /\ k <= Len(b) - 1
      /\ Len(b) - 1 \in 0 .. Len(b) /\ Len(b) \in 1 .. Len(b)
  BY <1>1
<1>3. Len(Front(b)) = Len(b) - 1 /\ Front(b) # Root
  <2>1. Len(Front(b)) = Len(b) - 1
    BY <1>1, <1>2, PrefixProperties
  <2>2. Len(Root) = 0
    BY EmptySeq DEF Root
  <2>3. Len(Front(b)) # 0
    BY <1>2, <2>1
  <2> QED
    BY <2>1, <2>2, <2>3
<1>4. Front(b) \in DOMAIN t /\ t[Front(b)] = Dir
  BY <1>3 DEF IsDir
<1>5. CASE k = Len(b) - 1
  BY <1>1, <1>4, <1>5
<1>6. CASE k # Len(b) - 1
  <2>1. k \in 1 .. Len(Front(b)) - 1
    BY <1>1, <1>3, <1>6
  <2>2. SubSeq(Front(b), 1, k) \in DOMAIN t
        /\ t[SubSeq(Front(b), 1, k)] = Dir
    BY <1>4, <2>1 DEF Tree, WellFormed
  <2>3. /\ Len(b) - 1 \in 1 .. Len(b) /\ 1 \in 1 .. Len(b)
        /\ 1 \in 1 .. (Len(b) - 1) - 1 + 1
        /\ k \in 1 .. (Len(b) - 1) - 1 + 1
    BY <1>1, <1>6
  <2>4. SubSeq(SubSeq(b, 1, Len(b) - 1), 1, k)
        = SubSeq(b, 1 + 1 - 1, 1 + k - 1)
    BY <2>3, SubSeqOfSubSeq DEF Path
  <2>5. 1 + 1 - 1 = 1 /\ 1 + k - 1 = k
    OBVIOUS
  <2> QED
    BY <1>1, <2>2, <2>4, <2>5
<1> QED
  BY <1>5, <1>6

(* Creating an entry in a directory, or removing a file, keeps the tree.   *)
LEMMA LinkKeepsTree ==
  ASSUME NEW t, Tree(t), NEW p \in Path, p # Root, IsDir(t, Front(p)),
         ~IsDir(t, p), NEW v
  PROVE  Tree(Link(t, p, v))
<1> DEFINE u == Link(t, p, v)
<1>1. /\ DOMAIN u = DOMAIN t \union {p}
      /\ \A q \in DOMAIN t : q # p => u[q] = t[q]
  BY DEF Link
<1>2. ASSUME NEW q \in DOMAIN u, NEW k \in 1 .. Len(q) - 1
      PROVE  SubSeq(q, 1, k) \in DOMAIN t /\ t[SubSeq(q, 1, k)] = Dir
  BY <1>1, DirsAbove DEF Tree, WellFormed
<1>3. \A x \in DOMAIN t : t[x] = Dir => x # p
  BY DEF IsDir
<1> HIDE DEF u
<1>4. Tree(u)
  BY <1>1, <1>2, <1>3 DEF Tree, WellFormed
<1> QED
  BY <1>4 DEF u

(* Removing a file keeps the tree well formed.                             *)
LEMMA UnlinkKeepsTree ==
  ASSUME NEW t, Tree(t), NEW p, IsFile(t, p)
  PROVE  Tree(Unlink(t, p))
<1>1. \A x \in DOMAIN t : t[x] = Dir => x # p
  BY DEF IsFile
<1> QED
  BY <1>1 DEF Tree, WellFormed, Unlink

(* Whatever the destination replaces has nothing below it, unless it moves.*)
LEMMA NothingBelow ==
  ASSUME NEW t, Tree(t), NEW a \in Path, NEW b \in Path, CanRename(t, a, b),
         NEW p \in DOMAIN t, IsPrefix(b, p), ~IsPrefix(a, p)
  PROVE  p = b
<1> SUFFICES ASSUME p # b
             PROVE  FALSE
  OBVIOUS
<1>1. p \in Path /\ b # Root /\ a # b
  BY DEF Tree, CanRename
<1>2. /\ Len(b) \in Nat \ {0} /\ Len(p) \in Nat /\ Len(b) <= Len(p)
      /\ b = SubSeq(p, 1, Len(b))
  BY <1>1, PrefixIsSubSeq, FrontProperties
<1>3. Len(b) # Len(p)
  BY <1>1, <1>2, SubSeqFull DEF Path
<1>4. b \in DOMAIN t /\ t[b] = Dir
  <2>1. Len(b) \in 1 .. Len(p) - 1
    BY <1>2, <1>3
  <2> QED
    BY <1>2, <2>1 DEF Tree, WellFormed
<1>5. Children(t, b) = {}
  BY <1>1, <1>4 DEF CanRename
<1> DEFINE y == SubSeq(p, 1, Len(b) + 1)
<1>6. y \in DOMAIN t
  <2>1. CASE Len(b) + 1 = Len(p)
    BY <1>1, <2>1, SubSeqFull DEF Path
  <2>2. CASE Len(b) + 1 # Len(p)
    <3>1. Len(b) + 1 \in 1 .. Len(p) - 1
      BY <1>2, <1>3, <2>2
    <3> QED
      BY <3>1 DEF Tree, WellFormed
  <2> QED
    BY <2>1, <2>2
<1>7. Len(y) = Len(b) + 1 /\ IsPrefix(b, y)
  <2>1. /\ Len(b) + 1 \in 0 .. Len(p) /\ Len(b) \in 0 .. Len(p)
    BY <1>2, <1>3
  <2>2. /\ y \in Path /\ Len(y) = Len(b) + 1
        /\ \A i \in 1 .. Len(b) + 1 : y[i] = p[i]
    BY <1>1, <2>1, PrefixProperties
  <2>3. \A i \in 1 .. Len(b) : b[i] = p[i]
    BY <1>1, PrefixElements DEF Path
  <2> HIDE DEF y
  <2>4. IsPrefix(b, y)
    BY <1>2, <2>2, <2>3, PrefixElements DEF Path
  <2> QED
    BY <2>2, <2>4
<1> QED
  BY <1>5, <1>6, <1>7 DEF Children

(* An entry below a moves; any other entry except b stays where it was.    *)
LEMMA RenameMoves ==
  ASSUME NEW t, Tree(t), NEW a \in Path, NEW b \in Path, CanRename(t, a, b),
         NEW p \in DOMAIN t, IsPrefix(a, p)
  PROVE  /\ Rebase(p, a, b) \in DOMAIN Rename(t, a, b)
         /\ Rename(t, a, b)[Rebase(p, a, b)] = t[p]
BY RebaseInverse DEF Tree, Rename

(* What lies elsewhere is not touched by a rename.                         *)
LEMMA RenameStays ==
  ASSUME NEW t, Tree(t), NEW a \in Path, NEW b \in Path, CanRename(t, a, b),
         NEW p \in DOMAIN t, ~IsPrefix(a, p), p # b
  PROVE  p \in DOMAIN Rename(t, a, b) /\ Rename(t, a, b)[p] = t[p]
<1>1. ~IsPrefix(b, p)
  BY NothingBelow
<1>2. ASSUME NEW x \in DOMAIN t, IsPrefix(a, x)
      PROVE  p # Rebase(x, a, b)
  BY <1>1, <1>2, RebaseProperties DEF Tree
<1> QED
  BY <1>2 DEF Rename

(* The entries after a rename were entries before it.                      *)
LEMMA RenameEntries ==
  ASSUME NEW t, Tree(t), NEW a \in Path, NEW b \in Path, CanRename(t, a, b),
         NEW q \in DOMAIN Rename(t, a, b)
  PROVE  \/ /\ q \in DOMAIN t /\ ~IsPrefix(a, q) /\ q # b
            /\ Rename(t, a, b)[q] = t[q]
         \/ \E p \in DOMAIN t : /\ IsPrefix(a, p) /\ q = Rebase(p, a, b)
                                /\ Rename(t, a, b)[q] = t[p]
<1>1. \/ \E p \in DOMAIN t : IsPrefix(a, p) /\ q = Rebase(p, a, b)
      \/ q \in DOMAIN t /\ ~IsPrefix(a, q) /\ q # b
  BY DEF Rename
<1> QED
  BY <1>1, RenameMoves, RenameStays

(* A renamed entry itself gets the new path.                               *)
LEMMA RebaseSelf ==
  ASSUME NEW a \in Path, NEW b \in Path
  PROVE  IsPrefix(a, a) /\ Rebase(a, a, b) = b
<1> DEFINE q == Rebase(a, a, b)
<1>1. Len(a) \in Nat /\ Len(b) \in Nat
  BY LenProperties DEF Path
<1>2. IsPrefix(a, a)
  BY <1>1, PrefixElements DEF Path
<1>3. /\ q \in Path /\ Len(q) = Len(b) + Len(a) - Len(a)
      /\ \A i \in 1 .. Len(b) : q[i] = b[i]
  BY <1>2, RebaseProperties
<1> HIDE DEF q
<1>4. q = b
  BY <1>1, <1>3, SeqEqual DEF Path
<1> QED
  BY <1>2, <1>4 DEF q

(* A file has nothing below it: renaming it moves one entry.               *)
LEMMA FileRename ==
  ASSUME NEW t, Tree(t), NEW a \in Path, NEW b \in Path, CanRename(t, a, b),
         t[a] # Dir, a # b
  PROVE  Rename(t, a, b) = Link(Unlink(t, a), b, t[a])
<1> DEFINE u == Rename(t, a, b)
           v == Link(Unlink(t, a), b, t[a])
<1>1. ASSUME NEW p \in DOMAIN t, IsPrefix(a, p)
      PROVE  p = a
  <2>1. /\ p \in Path /\ Len(a) \in Nat /\ Len(p) \in Nat
        /\ Len(a) <= Len(p) /\ a = SubSeq(p, 1, Len(a))
    BY <1>1, PrefixIsSubSeq DEF Tree
  <2>2. a # Root
    BY DEF CanRename, Tree, WellFormed
  <2>3. Len(a) # 0
    BY <2>2, EmptySeq DEF Path, Root
  <2>4. ~(Len(a) \in 1 .. Len(p) - 1)
    BY <2>1 DEF Tree, WellFormed
  <2>5. Len(a) = Len(p)
    BY <2>1, <2>3, <2>4
  <2> QED
    BY <2>1, <2>5, SubSeqFull DEF Path
<1>2. a \in DOMAIN t /\ IsPrefix(a, a) /\ Rebase(a, a, b) = b
  BY RebaseSelf DEF CanRename
<1>3. b \in DOMAIN u /\ u[b] = t[a]
  BY <1>2, RenameMoves
<1>4. ASSUME NEW p \in DOMAIN t, p # a, p # b
      PROVE  p \in DOMAIN u /\ u[p] = t[p]
  BY <1>1, <1>4, RenameStays
<1>5. ASSUME NEW q \in DOMAIN u
      PROVE  q = b \/ q \in DOMAIN t \ {a, b}
  <2>1. CASE q \in DOMAIN t /\ ~IsPrefix(a, q) /\ q # b
    BY <1>2, <2>1
  <2>2. ASSUME NEW p \in DOMAIN t, IsPrefix(a, p), q = Rebase(p, a, b)
        PROVE  q = b
    BY <1>1, <1>2, <2>2
  <2> QED
    BY <2>1, <2>2, RenameEntries
<1>6. DOMAIN u = (DOMAIN t \ {a}) \union {b}
  BY <1>3, <1>4, <1>5
<1>7. u = [q \in DOMAIN u |-> u[q]]
  BY DEF Rename
<1>8. v = [q \in (DOMAIN t \ {a}) \union {b} |->
             IF q = b THEN t[a] ELSE t[q]]
  BY DEF Link, Unlink
<1> HIDE DEF u, v
<1>9. \A q \in DOMAIN u : u[q] = IF q = b THEN t[a] ELSE t[q]
  BY <1>3, <1>4, <1>6
<1>10. u = v
  BY <1>6, <1>7, <1>8, <1>9
<1> QED
  BY <1>10 DEF u, v

(* Names: an entry keeps its last name, except the one that is renamed.    *)
LEMMA RebaseLast ==
  ASSUME NEW a \in Path, NEW b \in Path, NEW p \in Path,
         a # Root, p # Root, IsPrefix(a, p), p # a
  PROVE  Rebase(p, a, b) # Root /\ Last(Rebase(p, a, b)) = Last(p)
<1> DEFINE q == Rebase(p, a, b)
<1>1. /\ Len(a) \in Nat /\ Len(b) \in Nat /\ Len(p) \in Nat
      /\ Len(a) <= Len(p) /\ a = SubSeq(p, 1, Len(a))
  BY PrefixIsSubSeq, LenProperties DEF Path
<1>2. Len(a) # Len(p)
  BY <1>1, SubSeqFull DEF Path
<1>3. /\ q \in Path /\ Len(q) = Len(b) + Len(p) - Len(a)
      /\ \A i \in Len(b) + 1 .. Len(b) + Len(p) - Len(a) :
           q[i] = p[i - Len(b) + Len(a)]
  BY RebaseProperties
<1> HIDE DEF q
<1>4. Len(q) \in Len(b) + 1 .. Len(b) + Len(p) - Len(a)
      /\ Len(q) - Len(b) + Len(a) = Len(p)
  BY <1>1, <1>2, <1>3
<1>5. q[Len(q)] = p[Len(p)]
  BY <1>3, <1>4
<1>6. q # Root
  BY <1>1, <1>4, EmptySeq DEF Root
<1> QED
  BY <1>5, <1>6 DEF q, Last

(* Below the renamed entry, names stay as they are.                        *)
LEMMA RenameNames ==
  ASSUME NEW t, Tree(t), NEW a \in Path, NEW b \in Path, CanRename(t, a, b),
         NEW q \in DOMAIN Rename(t, a, b)
  PROVE  \/ q = b /\ Rename(t, a, b)[q] = t[a]
         \/ \E p \in DOMAIN t : /\ Rename(t, a, b)[q] = t[p]
                                /\ Last(q) = Last(p)
<1>1. CASE q \in DOMAIN t /\ Rename(t, a, b)[q] = t[q]
  BY <1>1
<1>2. ASSUME NEW p \in DOMAIN t, IsPrefix(a, p), q = Rebase(p, a, b),
             Rename(t, a, b)[q] = t[p]
      PROVE  \/ q = b /\ Rename(t, a, b)[q] = t[a]
             \/ Rename(t, a, b)[q] = t[p] /\ Last(q) = Last(p)
  <2>1. CASE p = a
    BY <1>2, <2>1, RebaseSelf
  <2>2. CASE p # a
    <3>1. a # Root /\ p # Root /\ p \in Path
      BY DEF CanRename, Tree, WellFormed
    <3>2. Last(Rebase(p, a, b)) = Last(p)
      BY <1>2, <2>2, <3>1, RebaseLast
    <3> QED
      BY <1>2, <3>2
  <2> QED
    BY <2>1, <2>2
<1> QED
  BY <1>1, <1>2, RenameEntries

(* rename(2) keeps every entry in a directory.                             *)
LEMMA RenameKeepsTree ==
  ASSUME NEW t, Tree(t), NEW a \in Path, NEW b \in Path, CanRename(t, a, b)
  PROVE  Tree(Rename(t, a, b))
<1> DEFINE u == Rename(t, a, b)
<1>a. /\ a \in DOMAIN t /\ a # Root /\ b # Root /\ IsDir(t, Front(b))
      /\ a # b => ~IsPrefix(a, b)
  BY DEF CanRename, Tree, WellFormed
<1>b. /\ Len(a) \in Nat \ {0} /\ Len(b) \in Nat \ {0}
      /\ Front(b) = SubSeq(b, 1, Len(b) - 1)
  BY <1>a, FrontProperties
<1>1. DOMAIN u \subseteq Path
  BY RenameEntries, RebaseProperties DEF Tree
<1>2. ASSUME NEW q \in DOMAIN u, NEW k \in 1 .. Len(q) - 1
      PROVE  SubSeq(q, 1, k) \in DOMAIN u /\ u[SubSeq(q, 1, k)] = Dir
  <2> DEFINE x == SubSeq(q, 1, k)
  <2>1. q \in Path /\ Len(q) \in Nat
    BY <1>1, LenProperties DEF Path
  <2>2. /\ x \in Path /\ Len(x) = k /\ IsPrefix(x, q)
        /\ \A i \in 1 .. k : x[i] = q[i]
    BY <2>1, PrefixProperties
  <2> HIDE DEF x
  <2>3. ASSUME q \in DOMAIN t, ~IsPrefix(a, q), q # b
        PROVE  x \in DOMAIN u /\ u[x] = Dir
    <3>1. x \in DOMAIN t /\ t[x] = Dir
      BY <2>3 DEF Tree, WellFormed, x
    <3>2. ~IsPrefix(a, x)
      BY <2>1, <2>2, <2>3, PrefixTransitive
    <3>3. x # b
      BY <2>2, <2>3, NothingBelow
    <3> QED
      BY <3>1, <3>2, <3>3, RenameStays
  <2>4. ASSUME NEW p \in DOMAIN t, IsPrefix(a, p), q = Rebase(p, a, b)
        PROVE  x \in DOMAIN u /\ u[x] = Dir
    <3>1. /\ p \in Path /\ Len(p) \in Nat /\ Len(a) <= Len(p)
          /\ a = SubSeq(p, 1, Len(a))
      BY <2>4, PrefixIsSubSeq DEF Tree
    <3>2. /\ Len(q) = Len(b) + Len(p) - Len(a)
          /\ \A i \in 1 .. Len(b) : q[i] = b[i]
          /\ \A i \in Len(b) + 1 .. Len(b) + Len(p) - Len(a) :
               q[i] = p[i - Len(b) + Len(a)]
      <4>1. /\ Len(Rebase(p, a, b)) = Len(b) + Len(p) - Len(a)
            /\ \A i \in 1 .. Len(b) : Rebase(p, a, b)[i] = b[i]
            /\ \A i \in Len(b) + 1 .. Len(b) + Len(p) - Len(a) :
                 Rebase(p, a, b)[i] = p[i - Len(b) + Len(a)]
        BY <2>4, <3>1, RebaseProperties
      <4> QED
        BY <2>4, <4>1
    <3>3. CASE k < Len(b)
      <4>1. x = SubSeq(b, 1, k)
        <5> DEFINE y == SubSeq(b, 1, k)
        <5>1. k \in 0 .. Len(b)
          BY <1>b, <3>3
        <5>2. y \in Path /\ Len(y) = k /\ \A i \in 1 .. k : y[i] = b[i]
          BY <5>1, PrefixProperties
        <5> HIDE DEF y
        <5>3. ASSUME NEW i \in 1 .. k
              PROVE  x[i] = y[i]
          <6>1. i \in 1 .. Len(b) /\ x[i] = q[i]
            BY <1>b, <2>2, <3>3
          <6> QED
            BY <3>2, <5>2, <6>1
        <5>4. x = y
          BY <2>2, <5>2, <5>3, SeqEqual DEF Path
        <5> QED
          BY <5>4 DEF y
      <4>2. x \in DOMAIN t /\ t[x] = Dir
        <5>1. k \in 1 .. Len(b) - 1
          BY <1>b, <2>1, <3>3
        <5> QED
          BY <1>a, <4>1, <5>1, DirsAbove
      <4>3. ~IsPrefix(a, x)
        <5>1. IsPrefix(x, b)
          <6>1. k \in 0 .. Len(b)
            BY <1>b, <3>3
          <6> QED
            BY <4>1, <6>1, PrefixProperties
        <5>2. a = b => ~IsPrefix(a, x)
          <6>1. ~(Len(b) <= Len(x))
            BY <1>b, <2>2, <3>3
          <6> QED
            BY <2>2, <6>1, PrefixIsSubSeq
        <5> QED
          BY <1>a, <2>2, <5>1, <5>2, PrefixTransitive
      <4>4. x # b
        BY <2>2, <3>3
      <4> QED
        BY <4>2, <4>3, <4>4, RenameStays
    <3>4. CASE k >= Len(b)
      <4> DEFINE j == k - Len(b) + Len(a)
                 y == SubSeq(p, 1, j)
      <4>1. j \in 1 .. Len(p) - 1
        BY <1>b, <2>1, <3>1, <3>2, <3>4
      <4>2. y \in DOMAIN t /\ t[y] = Dir
        BY <4>1 DEF Tree, WellFormed
      <4>3. y \in Path /\ Len(y) = j /\ \A i \in 1 .. j : y[i] = p[i]
        <5>1. j \in 0 .. Len(p)
          BY <3>1, <4>1
        <5> QED
          BY <3>1, <5>1, PrefixProperties
      <4>4. IsPrefix(a, y)
        <5>1. \A i \in 1 .. Len(a) : a[i] = p[i]
          BY <2>4, <3>1, PrefixElements DEF Path
        <5>2. Len(a) <= j
          BY <1>b, <3>4
        <5> HIDE DEF y
        <5> QED
          BY <1>b, <4>1, <4>3, <5>1, <5>2, PrefixElements DEF Path
      <4>5. x = Rebase(y, a, b)
        <5> DEFINE z == Rebase(y, a, b)
        <5> HIDE DEF y
        <5>1. /\ z \in Path /\ Len(z) = Len(b) + Len(y) - Len(a)
              /\ \A i \in 1 .. Len(b) : z[i] = b[i]
              /\ \A i \in Len(b) + 1 .. Len(b) + Len(y) - Len(a) :
                   z[i] = y[i - Len(b) + Len(a)]
          BY <4>3, <4>4, RebaseProperties
        <5> HIDE DEF z
        <5>2. Len(z) = k
          BY <1>b, <4>3, <5>1
        <5>3. ASSUME NEW i \in 1 .. k
              PROVE  x[i] = z[i]
          <6>1. CASE i \in 1 .. Len(b)
            BY <1>b, <2>2, <3>2, <5>1, <6>1
          <6>2. CASE i \in Len(b) + 1 .. k
            <7> DEFINE n == i - Len(b) + Len(a)
            <7>1. /\ i \in Len(b) + 1 .. Len(b) + Len(y) - Len(a)
                  /\ i \in Len(b) + 1 .. Len(b) + Len(p) - Len(a)
                  /\ n \in 1 .. j
              BY <1>b, <3>1, <4>1, <4>3, <6>2
            <7>2. x[i] = q[i] /\ q[i] = p[n]
              BY <2>2, <3>2, <7>1
            <7>3. z[i] = y[n] /\ y[n] = p[n]
              BY <4>3, <5>1, <7>1
            <7> QED
              BY <7>2, <7>3
          <6> QED
            BY <1>b, <6>1, <6>2
        <5>4. x = z
          BY <2>2, <5>1, <5>2, <5>3, SeqEqual DEF Path
        <5> QED
          BY <5>4 DEF z
      <4> HIDE DEF y
      <4> QED
        BY <4>2, <4>4, <4>5, RenameMoves
    <3> QED
      BY <1>b, <3>3, <3>4
  <2>5. x \in DOMAIN u /\ u[x] = Dir
    BY <2>3, <2>4, RenameEntries
  <2> QED
    BY <2>5 DEF x
<1>3. ASSUME NEW q \in DOMAIN u
      PROVE  q # Root
  <2>1. CASE q \in DOMAIN t
    BY <2>1 DEF Tree, WellFormed
  <2>2. ASSUME NEW p \in DOMAIN t, IsPrefix(a, p), q = Rebase(p, a, b)
        PROVE  q # Root
    <3>1. Len(q) = Len(b) + Len(p) - Len(a) /\ Len(a) <= Len(p)
          /\ Len(p) \in Nat
      BY <2>2, RebaseProperties, PrefixIsSubSeq DEF Tree
    <3> QED
      BY <1>b, <3>1, EmptySeq DEF Root
  <2> QED
    BY <2>1, <2>2, RenameEntries
<1> HIDE DEF u
<1>4. Tree(u)
  BY <1>1, <1>2, <1>3 DEF Tree, WellFormed
<1> QED
  BY <1>4 DEF u

-----------------------------------------------------------------------------
(* The invariant of the handlers.                                          *)

(* Which operation a label of handler state x belongs to.                  *)
Role(x) ==
  /\ x.pc = "idle" => x.op = "none"
  /\ x.pc \in {"u_parent", "u_create", "u_stream", "u_rename", "u_clean"}
       => x.op = "upload"
  /\ x.pc = "m_check" => x.op = "mkdir"
  /\ x.pc \in {"r_check", "r_parent", "r_rename"} => x.op = "rename"
  /\ x.pc \in {"d_check", "d_stamp", "d_rename"} => x.op = "delete"
  /\ x.pc = "mkdirs" => x.op \in {"upload", "mkdir", "rename", "delete"}
  /\ x.pc \in {"f_stat", "f_open", "f_body"} => x.op = "file"
  /\ x.pc \in {"l_stat", "l_read", "l_meta"} => x.op = "list"

(* The paths a handler works on: an upload has a temporary sibling of the  *)
(* file it was asked for, nobody else works on a temporary name.           *)
Naming(x) ==
  /\ PlainPath(x.path)
  /\ x.op = "upload" =>
       /\ x.path # Root
       /\ x.to = Root \/ \E s \in Suffix : x.to = TmpSibling(x.path, s)
  /\ x.op # "upload" => PlainPath(x.to)

(* How far upload r in state x has come: what its inode, of content d,     *)
(* holds at each label.                                                    *)
Stage(r, x, d) ==
  /\ \/ x.pc \in {"u_parent", "u_create"}
     \/ x.pc = "mkdirs" /\ x.op = "upload"
     => x.to = Root /\ x.sent = 0
  /\ x.pc \in {"u_stream", "u_rename", "u_clean"} => x.to # Root
  /\ x.pc = "u_stream" =>
       x.fd = r /\ x.sent <= x.size /\ d = Body(r, x.sent)
  /\ x.pc = "u_rename" => d = Body(r, x.size)
  /\ x.pc = "u_clean" => x.status \in {400, 500}

Local(r) == Role(h[r]) /\ Naming(h[r]) /\ Stage(r, h[r], disk[r])

(* No two uploads share a suffix.                                          *)
Uploading(r) == h[r].op = "upload" /\ h[r].to # Root
SuffixOf(r) == Last(h[r].to).tmp
OwnSuffix ==
  \A q, r \in Req :
    Uploading(q) /\ Uploading(r) /\ SuffixOf(q) = SuffixOf(r) => q = r

(* What stands under a temporary name is the file of the upload that drew  *)
(* the suffix; what stands under a plain name is whole and settled.        *)
TempFile(i, p) == i \in Req /\ Uploading(i) /\ Last(p).tmp = SuffixOf(i)
Settled(i) == /\ disk[i] = Whole(i)
              /\ i \in Req => h[i].pc \in {"done", "gone"}
Entry(i, p) == IF TempNamed(p) THEN TempFile(i, p) ELSE i # Dir => Settled(i)
Entries == \A p \in DOMAIN tree : Entry(tree[p], p)

HInv == (\A r \in Req : Local(r)) /\ OwnSuffix
IInv == TypeOK /\ HInv /\ Entries

-----------------------------------------------------------------------------
(* Names and paths.                                                        *)

(* A temporary sibling is a temporary name beside its file.                *)
LEMMA TmpSiblingProperties ==
  ASSUME NEW p \in Path, p # Root, NEW s \in Suffix
  PROVE  /\ TmpSibling(p, s) \in Path /\ TmpSibling(p, s) # Root
         /\ Last(TmpSibling(p, s)).tmp = s /\ TempNamed(TmpSibling(p, s))
<1> DEFINE n == [p[Len(p)] EXCEPT !.tmp = s]
           q == [p EXCEPT ![Len(p)] = n]
<1>1. Len(p) \in 1 .. Len(p) /\ p[Len(p)] \in Name /\ p \in Seq(Name)
  BY FrontProperties, ElementOfSeq DEF Path
<1>2. n \in Name /\ n.tmp = s
  BY <1>1 DEF Name
<1> HIDE DEF n
<1>3. q \in Seq(Name) /\ Len(q) = Len(p) /\ q[Len(p)] = n
  BY <1>1, <1>2, ExceptSeq
<1>4. TmpSibling(p, s) = q
  BY DEF TmpSibling, n
<1>5. q # Root /\ Last(q).tmp = s
  BY <1>1, <1>2, <1>3, EmptySeq DEF Root, Last
<1>6. s # NoSuffix
  BY TreeAssumption
<1> HIDE DEF q
<1> QED
  BY <1>3, <1>4, <1>5, <1>6 DEF Path, TempNamed, IsTemp

(* A plain path ends in a plain name.                                      *)
LEMMA PlainLast ==
  ASSUME NEW p \in Path, p # Root, PlainPath(p)
  PROVE  ~TempNamed(p)
BY FrontProperties DEF PlainPath, TempNamed

(* So does what lies above it.                                             *)
LEMMA PlainPrefix ==
  ASSUME NEW p \in Path, PlainPath(p), NEW k \in 1 .. Len(p)
  PROVE  /\ SubSeq(p, 1, k) \in Path /\ SubSeq(p, 1, k) # Root
         /\ PlainPath(SubSeq(p, 1, k))
<1> DEFINE q == SubSeq(p, 1, k)
<1>1. Len(p) \in Nat /\ k \in 0 .. Len(p) /\ k # 0 /\ Len(Root) = 0
  BY LenProperties, EmptySeq DEF Path, Root
<1>2. q \in Path /\ Len(q) = k /\ \A i \in 1 .. k : q[i] = p[i]
  BY <1>1, PrefixProperties
<1> HIDE DEF q
<1>3. q \in Path /\ q # Root /\ PlainPath(q)
  BY <1>1, <1>2 DEF PlainPath
<1> QED
  BY <1>3 DEF q

(* The trash is a plain path of one name.                                  *)
LEMMA TrashPathProperties ==
  /\ TrashPath \in Path /\ PlainPath(TrashPath) /\ Len(TrashPath) = 1
  /\ Plain(".Trash") \in Name /\ Plain("unnamed") \in Name
<1>1. Plain(".Trash") \in Name /\ Plain("unnamed") \in Name
  BY TreeAssumption, EmptySeq DEF Plain, Name
<1> QED
  BY <1>1 DEF TrashPath, Path, PlainPath, IsTemp, Plain

(* A plain name below a plain path.                                        *)
LEMMA AppendPlain ==
  ASSUME NEW p \in Path, PlainPath(p), NEW n \in Name, ~IsTemp(n)
  PROVE  /\ Append(p, n) \in Path /\ PlainPath(Append(p, n))
         /\ Append(p, n) # Root
<1>1. p \in Seq(Name) /\ Len(p) \in Nat
  BY LenProperties DEF Path
<1>2. /\ Append(p, n) \in Seq(Name) /\ Append(p, n) # << >>
      /\ Len(Append(p, n)) = Len(p) + 1
      /\ \A i \in 1 .. Len(p) : Append(p, n)[i] = p[i]
      /\ Append(p, n)[Len(p) + 1] = n
  BY <1>1, AppendProperties
<1>3. \A i \in 1 .. Len(p) + 1 : i \in 1 .. Len(p) \/ i = Len(p) + 1
  BY <1>1
<1> QED
  BY <1>2, <1>3 DEF Path, PlainPath, Root

(* The trash entry of a plain path is a plain path in the trash.           *)
LEMMA TrashTargetProperties ==
  ASSUME NEW p \in Path, PlainPath(p), NEW stamp \in Nat
  PROVE  /\ TrashTarget(p, stamp) \in Path /\ PlainPath(TrashTarget(p, stamp))
         /\ TrashTarget(p, stamp) # Root
<1> DEFINE n == IF p = Root THEN Plain("unnamed") ELSE Last(p)
           s == << stamp >> \o n.stamps
           m == [n EXCEPT !.stamps = s]
<1>1. n \in Name /\ n.tmp = NoSuffix
  <2>1. CASE p = Root
    BY <2>1, TrashPathProperties DEF Plain
  <2>2. CASE p # Root
    BY <2>2, FrontProperties, PlainLast DEF TempNamed, IsTemp
  <2> QED
    BY <2>1, <2>2
<1> HIDE DEF n
<1>2. s \in Seq(Nat)
  <2>1. n.stamps \in Seq(Nat) /\ << stamp >> \in Seq(Nat)
    BY <1>1 DEF Name
  <2> QED
    BY <2>1, ConcatProperties
<1> HIDE DEF s
<1>3. m \in Name /\ m.tmp = NoSuffix
  BY <1>1, <1>2 DEF Name
<1>4. TrashTarget(p, stamp) = Append(TrashPath, m)
  BY DEF TrashTarget, n, m, s
<1> HIDE DEF m
<1>5. Append(TrashPath, m) \in Path /\ PlainPath(Append(TrashPath, m))
      /\ Append(TrashPath, m) # Root
  BY <1>3, TrashPathProperties, AppendPlain DEF IsTemp
<1> QED
  BY <1>4, <1>5

-----------------------------------------------------------------------------
(* Contents and replies.                                                   *)

(* The content a writer gives a file.                                      *)
LEMMA BodyTypes ==
  ASSUME NEW u \in Ino, NEW n \in Nat
  PROVE  /\ Body(u, n) \in Seq(Chunk) /\ Len(Body(u, n)) = n
         /\ \A k \in 1 .. n : Body(u, n)[k] = << u, k >>
<1>1. \A k \in 1 .. n : << u, k >> \in Chunk
  BY DEF Chunk
<1> QED
  BY <1>1 DEF Body

(* The next chunk of an upload that is alone on its inode.                 *)
LEMMA BodyGrows ==
  ASSUME NEW u \in Ino, NEW n \in Nat
  PROVE  WriteAt(Body(u, n), n + 1, u) = Body(u, n + 1)
<1> DEFINE b == Body(u, n)
           c == Append(b, << u, n + 1 >>)
           d == Body(u, n + 1)
<1>1. /\ b \in Seq(Chunk) /\ Len(b) = n
      /\ \A k \in 1 .. n : b[k] = << u, k >>
  BY BodyTypes
<1>2. /\ d \in Seq(Chunk) /\ Len(d) = n + 1
      /\ \A k \in 1 .. n + 1 : d[k] = << u, k >>
  BY BodyTypes
<1>3. WriteAt(b, n + 1, u) = c
  BY <1>1 DEF WriteAt
<1> HIDE DEF b, d
<1>4. << u, n + 1 >> \in Chunk
  BY DEF Chunk
<1>5. /\ c \in Seq(Chunk) /\ Len(c) = n + 1
      /\ \A k \in 1 .. n : c[k] = b[k]
      /\ c[n + 1] = << u, n + 1 >>
  BY <1>1, <1>4, AppendProperties
<1> HIDE DEF c
<1>6. ASSUME NEW k \in 1 .. n + 1
      PROVE  c[k] = d[k]
  <2>1. k \in 1 .. n \/ k = n + 1
    OBVIOUS
  <2> QED
    BY <1>1, <1>2, <1>5, <2>1
<1>7. c = d
  BY <1>2, <1>5, <1>6, SeqEqual
<1> QED
  BY <1>3, <1>7 DEF b, d

(* Writing a chunk leaves a sequence of chunks.                             *)
LEMMA WriteTypes ==
  ASSUME NEW u \in Ino, NEW data \in Seq(Chunk), NEW k \in Nat \ {0}
  PROVE  WriteAt(data, k, u) \in Seq(Chunk)
<1>1. << u, k >> \in Chunk
  BY DEF Chunk
<1>2. CASE k <= Len(data)
  <2>1. k \in 1 .. Len(data)
    BY <1>2, LenProperties
  <2> QED
    BY <1>1, <1>2, <2>1, ExceptSeq DEF WriteAt
<1>3. CASE ~(k <= Len(data))
  BY <1>1, <1>3, AppendProperties DEF WriteAt
<1> QED
  BY <1>2, <1>3

(* The reply that is planned for a download.                               *)
LEMMA PlanTypes ==
  ASSUME NEW hdr \in Header, NEW total \in Nat
  PROVE  /\ Plan(hdr, total).status \in Nat
         /\ Plan(hdr, total).start \in Nat
         /\ Plan(hdr, total).length \in Nat
BY DEF Plan, ParseRange, ParseSuffix, ParseFrom, SatSub, None, Sat, Unsat,
       Header

-----------------------------------------------------------------------------
(* One handler moves on.                                                   *)

Moves(r, x) == h' = [h EXCEPT ![r] = x]

(* A handler keeps its types.                                              *)
LEMMA MovesTypes ==
  ASSUME h \in [Req -> Handler], NEW r \in Req, NEW x \in Handler, Moves(r, x)
  PROVE  /\ h' \in [Req -> Handler] /\ h'[r] = x
         /\ \A q \in Req \ {r} : h'[q] = h[q]
BY DEF Moves

(* Go changes the label of one handler alone.                              *)
LEMMA GoMoves ==
  ASSUME h \in [Req -> Handler], NEW r \in Req, NEW label \in Label,
         Go(r, label)
  PROVE  \E x \in Handler : Moves(r, x) /\ x = [h[r] EXCEPT !.pc = label]
<1>1. [h[r] EXCEPT !.pc = label] \in Handler
  BY ZenonT(60) DEF Handler
<1>2. Moves(r, [h[r] EXCEPT !.pc = label])
  BY DEF Go, Moves
<1> QED
  BY <1>1, <1>2

(* Reply ends one handler.                                                 *)
LEMMA ReplyMoves ==
  ASSUME h \in [Req -> Handler], NEW r \in Req, NEW code \in Nat,
         Reply(r, code)
  PROVE  \E x \in Handler :
           Moves(r, x) /\ x = [h[r] EXCEPT !.pc = "done", !.status = code]
<1>1. [h[r] EXCEPT !.pc = "done", !.status = code] \in Handler
  <2>1. "done" \in Label
    BY DEF Label
  <2> QED
    BY <2>1, ZenonT(60) DEF Handler
<1>2. Moves(r, [h[r] EXCEPT !.pc = "done", !.status = code])
  BY DEF Reply, Moves
<1> QED
  BY <1>1, <1>2

(* A handler that is neither idle nor finished moves on, keeping what the  *)
(* others rely on, or starts an upload or draws the suffix of one: all     *)
(* others stay as they are.                                                *)
Keeps(r, x) ==
  /\ h[r].pc \notin {"done", "gone"}
  /\ Role(x) /\ Naming(x)
  /\ \/ /\ x.op = h[r].op /\ x.to = h[r].to
     \/ /\ h[r].op # "upload"
        /\ x.op # "upload" \/ x.to = Root
     \/ /\ h[r].to = Root
        /\ \A q \in Req \ {r} : Uploading(q) => SuffixOf(q) # Last(x.to).tmp

(* A step of r leaves the other handlers as they are.                      *)
LEMMA MovesKeep ==
  ASSUME TypeOK, HInv, NEW r \in Req, NEW x \in Handler, Moves(r, x),
         Keeps(r, x), Stage(r, x, disk'[r]),
         \A i \in Ino \ {r} : disk'[i] = disk[i]
  PROVE  /\ HInv'
         /\ \A i \in Ino : Settled(i) => Settled(i)'
         /\ \A i \in Req : Uploading(i) => /\ Uploading(i)'
                                           /\ SuffixOf(i)' = SuffixOf(i)
<1>1. /\ h' \in [Req -> Handler] /\ h'[r] = x
      /\ \A q \in Req \ {r} : h'[q] = h[q]
  BY MovesTypes DEF TypeOK
<1>2. Req \subseteq Ino
  BY FileApiAssumption
<1>3. ASSUME NEW q \in Req
      PROVE  Local(q)'
  <2>1. CASE q = r
    BY <1>1, <2>1 DEF Keeps, Local
  <2>2. CASE q # r
    BY <1>1, <1>2, <2>2 DEF HInv, Local
  <2> QED
    BY <2>1, <2>2
<1>4. ASSUME NEW q \in Req \ {r}
      PROVE  Uploading(q)' = Uploading(q) /\ SuffixOf(q)' = SuffixOf(q)
  BY <1>1 DEF Uploading, SuffixOf
<1>a. \/ Uploading(r)' = Uploading(r) /\ SuffixOf(r)' = SuffixOf(r)
      \/ ~Uploading(r) /\ ~Uploading(r)'
      \/ /\ ~Uploading(r)
         /\ \A q \in Req \ {r} : Uploading(q) => SuffixOf(q) # SuffixOf(r)'
  BY <1>1 DEF Uploading, SuffixOf, Keeps
<1>5. OwnSuffix'
  BY <1>4, <1>a DEF HInv, OwnSuffix
<1>6. ASSUME NEW i \in Ino, Settled(i)
      PROVE  Settled(i)'
  <2>1. i # r
    BY <1>6 DEF Settled, Keeps
  <2>2. disk'[i] = disk[i] /\ (i \in Req => h'[i] = h[i])
    BY <1>1, <2>1
  <2>3. Whole(i)' = Whole(i)
    BY <2>2, FileApiAssumption DEF Whole, Body
  <2> QED
    BY <1>6, <2>2, <2>3 DEF Settled
<1> QED
  BY <1>3, <1>4, <1>a, <1>5, <1>6 DEF HInv

(* When moreover neither the share nor the disk changes.                   *)
LEMMA QuietStep ==
  ASSUME IInv, NEW r \in Req, NEW x \in Handler, Moves(r, x), Keeps(r, x),
         Stage(r, x, disk[r]), UNCHANGED << tree, disk >>,
         now' \in 0 .. MaxTime
  PROVE  IInv'
<1>1. TypeOK'
  BY MovesTypes DEF IInv, TypeOK
<1>2. /\ HInv'
      /\ \A i \in Ino : Settled(i) => Settled(i)'
      /\ \A i \in Req : Uploading(i) => /\ Uploading(i)'
                                        /\ SuffixOf(i)' = SuffixOf(i)
  BY MovesKeep DEF IInv
<1>3. ASSUME NEW p \in DOMAIN tree
      PROVE  Entry(tree[p], p)'
  <2>1. Entry(tree[p], p) /\ tree[p] \in Ino \union {Dir}
    BY DEF IInv, Entries, TypeOK
  <2> QED
    BY <1>2, <2>1 DEF Entry, TempFile
<1> QED
  BY <1>1, <1>2, <1>3 DEF IInv, Entries

Fine(r) ==
  \E x \in Handler : Moves(r, x) /\ Keeps(r, x) /\ Stage(r, x, disk[r])
Quiet == UNCHANGED << tree, disk, now >>

(* A step that leaves the share alone keeps the invariant.                 *)
LEMMA FineQuiet ==
  ASSUME IInv, NEW r \in Req, Fine(r), Quiet
  PROVE  IInv'
<1>1. now' \in 0 .. MaxTime
  BY DEF IInv, TypeOK, Quiet
<1> QED
  BY <1>1, QuietStep DEF Fine, Quiet

(* What the invariant says of one handler.                                 *)
LEMMA LocalFacts ==
  ASSUME IInv, NEW r \in Req
  PROVE  /\ h \in [Req -> Handler] /\ h[r] \in Handler /\ Role(h[r])
         /\ Naming(h[r]) /\ Stage(r, h[r], disk[r])
         /\ r \in Ino /\ disk[r] \in Seq(Chunk)
BY FileApiAssumption DEF IInv, TypeOK, HInv, Local

(* Moving to a label whose conditions hold.                                *)
LEMMA GoFine ==
  ASSUME IInv, NEW r \in Req, h[r].pc \notin {"done", "gone"},
         NEW label \in Label, Go(r, label),
         Role([h[r] EXCEPT !.pc = label]),
         Stage(r, [h[r] EXCEPT !.pc = label], disk[r])
  PROVE  Fine(r)
<1>1. PICK x \in Handler : Moves(r, x) /\ x = [h[r] EXCEPT !.pc = label]
  BY GoMoves, LocalFacts
<1>2. Keeps(r, x)
  <2>1. x.op = h[r].op /\ x.to = h[r].to /\ x.path = h[r].path
    BY <1>1, LocalFacts DEF Handler
  <2> QED
    BY <1>1, <2>1, LocalFacts DEF Keeps, Naming
<1> QED
  BY <1>1, <1>2 DEF Fine

(* Ending a handler without a file in the works.                           *)
LEMMA ReplyFine ==
  ASSUME IInv, NEW r \in Req, h[r].pc \notin {"done", "gone"},
         NEW code \in Nat, Reply(r, code)
  PROVE  Fine(r)
<1>1. PICK x \in Handler :
        Moves(r, x) /\ x = [h[r] EXCEPT !.pc = "done", !.status = code]
  BY ReplyMoves, LocalFacts
<1>2. /\ x.pc = "done" /\ x.op = h[r].op /\ x.to = h[r].to
      /\ x.path = h[r].path
  BY <1>1, LocalFacts DEF Handler
<1>3. Keeps(r, x) /\ Stage(r, x, disk[r])
  BY <1>2, LocalFacts DEF Keeps, Naming, Role, Stage
<1> QED
  BY <1>1, <1>3 DEF Fine

-----------------------------------------------------------------------------
(* The steps that leave the share alone.                                   *)

(* Whoever called create_dir_all goes on with its own step.                *)
LEMMA AfterDirsFine ==
  ASSUME IInv, NEW r \in Req, At(r, "mkdirs"), AfterDirs(r)
  PROVE  Fine(r)
<1>1. /\ h[r] \in Handler /\ Role(h[r]) /\ Stage(r, h[r], disk[r])
      /\ h[r].pc = "mkdirs"
  BY LocalFacts DEF At
<1>2. CASE h[r].op = "upload"
  <2>1. Go(r, "u_create") /\ "u_create" \in Label
    BY <1>2 DEF AfterDirs, Label
  <2> QED
    BY <1>1, <1>2, <2>1, GoFine DEF Handler, Role, Stage
<1>3. CASE h[r].op = "mkdir"
  <2>1. Reply(r, 200)
    BY <1>3 DEF AfterDirs
  <2> QED
    BY <1>1, <2>1, ReplyFine
<1>4. CASE h[r].op = "rename"
  <2>1. Go(r, "r_rename") /\ "r_rename" \in Label
    BY <1>4 DEF AfterDirs, Label
  <2> QED
    BY <1>1, <1>4, <2>1, GoFine DEF Handler, Role, Stage
<1>5. CASE h[r].op = "delete"
  <2>1. Go(r, "d_stamp") /\ "d_stamp" \in Label
    BY <1>5 DEF AfterDirs, Label
  <2> QED
    BY <1>1, <1>5, <2>1, GoFine DEF Handler, Role, Stage
<1> QED
  BY <1>1, <1>2, <1>3, <1>4, <1>5 DEF Role

(* create_dir_all with nothing to make.                                    *)
LEMMA DirsThereInv ==
  ASSUME IInv, NEW r \in Req, DirsThere(r)
  PROVE  IInv'
<1>1. At(r, "mkdirs") /\ Quiet /\ h[r].pc \notin {"done", "gone"}
  BY DEF DirsThere, Quiet, At
<1>2. AfterDirs(r) \/ Reply(r, 500)
  BY DEF DirsThere
<1>3. Fine(r)
  BY <1>1, <1>2, AfterDirsFine, ReplyFine
<1> QED
  BY <1>1, <1>3, FineQuiet

(* A step that only moves to another label or replies.                     *)
GoesTo(r, labels) ==
  \/ \E label \in labels : Go(r, label)
  \/ \E code \in Nat : Reply(r, code)

(* Steps that only go on to another label.                                 *)
LEMMA GoesToInv ==
  ASSUME IInv, NEW r \in Req, h[r].pc \notin {"done", "gone"}, Quiet,
         NEW labels \in SUBSET Label, GoesTo(r, labels),
         \A label \in labels : /\ Role([h[r] EXCEPT !.pc = label])
                               /\ Stage(r, [h[r] EXCEPT !.pc = label], disk[r])
  PROVE  IInv'
<1>1. Fine(r)
  BY GoFine, ReplyFine DEF GoesTo
<1> QED
  BY <1>1, FineQuiet

(* The existence checks.                                                   *)
LEMMA CheckInv ==
  ASSUME IInv, NEW r \in Req,
         \/ UploadParent(r) \/ UploadFlush(r)
         \/ ListStat(r) \/ MkdirCheck(r) \/ RenameCheck(r)
         \/ RenameParent(r) \/ DeleteCheck(r)
  PROVE  IInv'
<1>1. CASE UploadParent(r)
  <2> DEFINE labels == {"u_create", "mkdirs"}
  <2>1. GoesTo(r, labels) /\ Quiet /\ h[r].pc = "u_parent"
    BY <1>1 DEF UploadParent, Quiet, GoesTo, At
  <2>2. labels \subseteq Label
    BY DEF Label
  <2>3. ASSUME NEW label \in labels
        PROVE  /\ Role([h[r] EXCEPT !.pc = label])
               /\ Stage(r, [h[r] EXCEPT !.pc = label], disk[r])
    BY <2>1, LocalFacts DEF Role, Stage, Handler
  <2> HIDE DEF labels
  <2> QED
    BY <2>1, <2>2, <2>3, GoesToInv
<1>2. CASE UploadFlush(r)
  <2> DEFINE labels == {"u_rename"}
  <2>1. GoesTo(r, labels) /\ Quiet /\ h[r].pc = "u_stream"
        /\ h[r].sent = h[r].size
    BY <1>2 DEF UploadFlush, Quiet, GoesTo, At
  <2>2. labels \subseteq Label
    BY DEF Label
  <2>3. ASSUME NEW label \in labels
        PROVE  /\ Role([h[r] EXCEPT !.pc = label])
               /\ Stage(r, [h[r] EXCEPT !.pc = label], disk[r])
    BY <2>1, LocalFacts DEF Role, Stage, Handler
  <2> HIDE DEF labels
  <2> QED
    BY <2>1, <2>2, <2>3, GoesToInv
<1>3. CASE ListStat(r)
  <2> DEFINE labels == {"l_read"}
  <2>1. GoesTo(r, labels) /\ Quiet /\ h[r].pc = "l_stat"
    BY <1>3 DEF ListStat, Quiet, GoesTo, At
  <2>2. labels \subseteq Label
    BY DEF Label
  <2>3. ASSUME NEW label \in labels
        PROVE  /\ Role([h[r] EXCEPT !.pc = label])
               /\ Stage(r, [h[r] EXCEPT !.pc = label], disk[r])
    BY <2>1, LocalFacts DEF Role, Stage, Handler
  <2> HIDE DEF labels
  <2> QED
    BY <2>1, <2>2, <2>3, GoesToInv
<1>4. CASE MkdirCheck(r)
  <2> DEFINE labels == {"mkdirs"}
  <2>1. GoesTo(r, labels) /\ Quiet /\ h[r].pc = "m_check"
    BY <1>4 DEF MkdirCheck, Quiet, GoesTo, At
  <2>2. labels \subseteq Label
    BY DEF Label
  <2>3. ASSUME NEW label \in labels
        PROVE  /\ Role([h[r] EXCEPT !.pc = label])
               /\ Stage(r, [h[r] EXCEPT !.pc = label], disk[r])
    BY <2>1, LocalFacts DEF Role, Stage, Handler
  <2> HIDE DEF labels
  <2> QED
    BY <2>1, <2>2, <2>3, GoesToInv
<1>5. CASE RenameCheck(r)
  <2> DEFINE labels == {"r_parent"}
  <2>1. GoesTo(r, labels) /\ Quiet /\ h[r].pc = "r_check"
    BY <1>5 DEF RenameCheck, Quiet, GoesTo, At
  <2>2. labels \subseteq Label
    BY DEF Label
  <2>3. ASSUME NEW label \in labels
        PROVE  /\ Role([h[r] EXCEPT !.pc = label])
               /\ Stage(r, [h[r] EXCEPT !.pc = label], disk[r])
    BY <2>1, LocalFacts DEF Role, Stage, Handler
  <2> HIDE DEF labels
  <2> QED
    BY <2>1, <2>2, <2>3, GoesToInv
<1>6. CASE RenameParent(r)
  <2> DEFINE labels == {"r_rename", "mkdirs"}
  <2>1. GoesTo(r, labels) /\ Quiet /\ h[r].pc = "r_parent"
    BY <1>6 DEF RenameParent, Quiet, GoesTo, At
  <2>2. labels \subseteq Label
    BY DEF Label
  <2>3. ASSUME NEW label \in labels
        PROVE  /\ Role([h[r] EXCEPT !.pc = label])
               /\ Stage(r, [h[r] EXCEPT !.pc = label], disk[r])
    BY <2>1, LocalFacts DEF Role, Stage, Handler
  <2> HIDE DEF labels
  <2> QED
    BY <2>1, <2>2, <2>3, GoesToInv
<1>7. CASE DeleteCheck(r)
  <2> DEFINE labels == {"mkdirs"}
  <2>1. GoesTo(r, labels) /\ Quiet /\ h[r].pc = "d_check"
    BY <1>7 DEF DeleteCheck, Quiet, GoesTo, At
  <2>2. labels \subseteq Label
    BY DEF Label
  <2>3. ASSUME NEW label \in labels
        PROVE  /\ Role([h[r] EXCEPT !.pc = label])
               /\ Stage(r, [h[r] EXCEPT !.pc = label], disk[r])
    BY <2>1, LocalFacts DEF Role, Stage, Handler
  <2> HIDE DEF labels
  <2> QED
    BY <2>1, <2>2, <2>3, GoesToInv
<1> QED
  BY <1>1, <1>2, <1>3, <1>4, <1>5, <1>6, <1>7

(* A step that changes other local variables too, but not what the handler *)
(* works on.                                                               *)
LEMMA SameFine ==
  ASSUME IInv, NEW r \in Req, NEW x \in Handler, Moves(r, x),
         h[r].pc \notin {"done", "gone"},
         x.op = h[r].op, x.to = h[r].to, x.path = h[r].path,
         Role(x), Stage(r, x, disk[r])
  PROVE  Fine(r)
BY LocalFacts DEF Fine, Keeps, Naming

(* What an upload that turns to cleaning up does to its variables.         *)
LEMMA CleanMoves ==
  ASSUME IInv, NEW r \in Req, NEW code \in Nat,
         h' = [h EXCEPT ![r].pc = "u_clean", ![r].status = code]
  PROVE  \E x \in Handler :
           /\ Moves(r, x)
           /\ x.pc = "u_clean" /\ x.op = h[r].op /\ x.to = h[r].to
           /\ x.path = h[r].path /\ x.status = code
<1> DEFINE x == [h[r] EXCEPT !.pc = "u_clean", !.status = code]
<1>1. "u_clean" \in Label
  BY DEF Label
<1>2. x \in Handler
  BY <1>1, LocalFacts, ZenonT(60) DEF Handler
<1>3. Moves(r, x)
  BY LocalFacts DEF Moves
<1>4. /\ x.pc = "u_clean" /\ x.op = h[r].op /\ x.to = h[r].to
      /\ x.path = h[r].path /\ x.status = code
  BY LocalFacts DEF Handler
<1> HIDE DEF x
<1> QED
  BY <1>2, <1>3, <1>4

(* What an upload answers after cleaning up.                               *)
CleanCode(code) == code \in {400, 500}

(* An upload that turns to cleaning up.                                    *)
LEMMA CleanFine ==
  ASSUME IInv, NEW r \in Req, h[r].pc \in {"u_stream", "u_rename"},
         NEW code \in Nat, CleanCode(code),
         h' = [h EXCEPT ![r].pc = "u_clean", ![r].status = code]
  PROVE  Fine(r)
<1>1. PICK x \in Handler :
        /\ Moves(r, x)
        /\ x.pc = "u_clean" /\ x.op = h[r].op /\ x.to = h[r].to
        /\ x.path = h[r].path /\ x.status = code
  BY CleanMoves
<1>2. Role(x) /\ Stage(r, x, disk[r])
  BY <1>1, LocalFacts DEF Role, Stage, CleanCode
<1> QED
  BY <1>1, <1>2, SameFine

(* The failures of an upload.                                              *)
LEMMA UploadFailsInv ==
  ASSUME IInv, NEW r \in Req, UploadBroken(r) \/ UploadWriteFails(r)
  PROVE  IInv'
<1>1. PICK code \in Nat :
        /\ CleanCode(code)
        /\ h' = [h EXCEPT ![r].pc = "u_clean", ![r].status = code]
  BY DEF UploadBroken, UploadWriteFails, CleanCode
<1>2. Quiet /\ h[r].pc = "u_stream"
  BY DEF UploadBroken, UploadWriteFails, Quiet, At
<1> QED
  BY <1>1, <1>2, CleanFine, FineQuiet

(* file(): the metadata call.                                              *)
LEMMA FileStatInv ==
  ASSUME IInv, NEW r \in Req, FileStat(r)
  PROVE  IInv'
<1> DEFINE p == h[r].path
           x == [h[r] EXCEPT !.pc = "f_open", !.total = Len(disk[tree[p]])]
<1>1. Quiet /\ h[r].pc = "f_stat"
  BY DEF FileStat, Quiet, At
<1>2. CASE IsFile(tree, p)
  <2>1. h' = [h EXCEPT ![r].pc = "f_open",
                       ![r].total = Len(disk[tree[p]])]
    BY <1>2 DEF FileStat
  <2>2. Len(disk[tree[p]]) \in Nat /\ "f_open" \in Label
    BY <1>2, LenProperties DEF IInv, TypeOK, IsFile, Label
  <2>3. x \in Handler
    BY <2>2, LocalFacts, ZenonT(60) DEF Handler
  <2>4. Moves(r, x)
    BY <2>1, LocalFacts DEF Moves
  <2>5. /\ x.pc = "f_open" /\ x.op = h[r].op /\ x.to = h[r].to
        /\ x.path = h[r].path
    BY LocalFacts DEF Handler
  <2> HIDE DEF x
  <2>6. Role(x) /\ Stage(r, x, disk[r])
    BY <1>1, <2>5, LocalFacts DEF Role, Stage
  <2> QED
    BY <1>1, <2>3, <2>4, <2>5, <2>6, SameFine, FineQuiet
<1>3. CASE ~IsFile(tree, p)
  <2>1. \E code \in {500, 400, 404} : Reply(r, code)
    BY <1>3 DEF FileStat
  <2> QED
    BY <1>1, <2>1, ReplyFine, FineQuiet
<1> QED
  BY <1>2, <1>3

(* file(): the open.                                                       *)
LEMMA FileOpenInv ==
  ASSUME IInv, NEW r \in Req, FileOpen(r)
  PROVE  IInv'
<1> DEFINE p == h[r].path
           reply == Plan(h[r].hdr, h[r].total)
           fd == IF IsFile(tree, p) THEN tree[p] ELSE Dir
           x == [h[r] EXCEPT !.pc = "f_body", !.status = reply.status,
                             !.fd = fd, !.start = reply.start,
                             !.want = reply.length]
<1>1. Quiet /\ h[r].pc = "f_open"
  BY DEF FileOpen, Quiet, At
<1>2. \/ \E code \in {500, 416} : Reply(r, code)
      \/ h' = [h EXCEPT ![r].pc = "f_body", ![r].status = reply.status,
                        ![r].fd = fd, ![r].start = reply.start,
                        ![r].want = reply.length]
  BY DEF FileOpen
<1>3. CASE \E code \in {500, 416} : Reply(r, code)
  BY <1>1, <1>3, ReplyFine, FineQuiet
<1>4. ASSUME h' = [h EXCEPT ![r].pc = "f_body", ![r].status = reply.status,
                            ![r].fd = fd, ![r].start = reply.start,
                            ![r].want = reply.length]
      PROVE  IInv'
  <2>1. /\ reply.status \in Nat /\ reply.start \in Nat
        /\ reply.length \in Nat
    BY LocalFacts, PlanTypes DEF Handler
  <2>2. fd \in Ino \union {Dir} /\ "f_body" \in Label
    BY DEF IInv, TypeOK, IsFile, Label
  <2> HIDE DEF fd, reply
  <2>3. x \in Handler
    BY <2>1, <2>2, LocalFacts, ZenonT(60) DEF Handler
  <2>4. Moves(r, x)
    BY <1>4, LocalFacts DEF Moves
  <2>5. /\ x.pc = "f_body" /\ x.op = h[r].op /\ x.to = h[r].to
        /\ x.path = h[r].path
    BY LocalFacts DEF Handler
  <2> HIDE DEF x
  <2>6. Role(x) /\ Stage(r, x, disk[r])
    BY <1>1, <2>5, LocalFacts DEF Role, Stage
  <2> QED
    BY <1>1, <2>3, <2>4, <2>5, <2>6, SameFine, FineQuiet
<1> QED
  BY <1>2, <1>3, <1>4

(* file(): a read.                                                         *)
LEMMA FileBodyInv ==
  ASSUME IInv, NEW r \in Req, FileBody(r)
  PROVE  IInv'
<1> DEFINE k == h[r].start + Len(h[r].got) + 1
           c == disk[h[r].fd][k]
           g == Append(h[r].got, c)
           x == [h[r] EXCEPT !.got = g]
<1>1. Quiet /\ h[r].pc = "f_body"
  BY DEF FileBody, Quiet, At
<1>2. \/ Go(r, "done")
      \/ /\ h[r].fd # Dir /\ k <= Len(disk[h[r].fd])
         /\ h' = [h EXCEPT ![r].got = Append(@, c)]
  BY DEF FileBody
<1>3. CASE Go(r, "done")
  <2>1. "done" \in Label
    BY DEF Label
  <2>2. /\ Role([h[r] EXCEPT !.pc = "done"])
        /\ Stage(r, [h[r] EXCEPT !.pc = "done"], disk[r])
    BY LocalFacts DEF Role, Stage, Handler
  <2> QED
    BY <1>1, <1>3, <2>1, <2>2, GoFine, FineQuiet
<1>4. ASSUME h[r].fd # Dir, k <= Len(disk[h[r].fd]),
             h' = [h EXCEPT ![r].got = Append(@, c)]
      PROVE  IInv'
  <2>1. /\ h[r].got \in Seq(Chunk) /\ h[r].start \in Nat
        /\ disk[h[r].fd] \in Seq(Chunk)
    BY <1>4, LocalFacts DEF Handler, IInv, TypeOK
  <2>2. k \in 1 .. Len(disk[h[r].fd])
    BY <1>4, <2>1, LenProperties
  <2>3. c \in Chunk
    BY <2>1, <2>2, ElementOfSeq
  <2> HIDE DEF c
  <2>4. g \in Seq(Chunk)
    BY <2>1, <2>3, AppendProperties
  <2>5. Moves(r, x)
    BY <1>4, LocalFacts DEF Moves
  <2> HIDE DEF g
  <2>6. x \in Handler
    BY <2>4, LocalFacts, ZenonT(60) DEF Handler
  <2>7. /\ x.pc = h[r].pc /\ x.op = h[r].op /\ x.to = h[r].to
        /\ x.path = h[r].path
    BY LocalFacts DEF Handler
  <2> HIDE DEF x
  <2>8. Role(x) /\ Stage(r, x, disk[r])
    BY <1>1, <2>7, LocalFacts DEF Role, Stage
  <2> QED
    BY <1>1, <2>5, <2>6, <2>7, <2>8, SameFine, FineQuiet
<1> QED
  BY <1>2, <1>3, <1>4

(* list(): read_dir.                                                       *)
LEMMA ListReadInv ==
  ASSUME IInv, NEW r \in Req, ListRead(r)
  PROVE  IInv'
<1> DEFINE s == {n \in {Last(q) : q \in Children(tree, h[r].path)} :
                   Listable(n, h[r].perms)}
           x == [h[r] EXCEPT !.pc = "l_meta", !.todo = s]
<1>1. Quiet /\ h[r].pc = "l_read"
  BY DEF ListRead, Quiet, At
<1>2. CASE Reply(r, 500)
  BY <1>1, <1>2, ReplyFine, FineQuiet
<1>3. ASSUME h' = [h EXCEPT ![r].pc = "l_meta", ![r].todo = s]
      PROVE  IInv'
  <2>1. \A q \in Children(tree, h[r].path) : Last(q) \in Name
    BY FrontProperties DEF Children, IInv, TypeOK, WellFormed
  <2>2. s \in SUBSET Name /\ "l_meta" \in Label
    BY <2>1 DEF Label
  <2> HIDE DEF s
  <2>3. x \in Handler
    BY <2>2, LocalFacts, ZenonT(60) DEF Handler
  <2>4. Moves(r, x)
    BY <1>3, LocalFacts DEF Moves
  <2>5. /\ x.pc = "l_meta" /\ x.op = h[r].op /\ x.to = h[r].to
        /\ x.path = h[r].path
    BY LocalFacts DEF Handler
  <2> HIDE DEF x
  <2>6. Role(x) /\ Stage(r, x, disk[r])
    BY <1>1, <2>5, LocalFacts DEF Role, Stage
  <2> QED
    BY <1>1, <2>3, <2>4, <2>5, <2>6, SameFine, FineQuiet
<1>4. \/ Reply(r, 500)
      \/ h' = [h EXCEPT ![r].pc = "l_meta", ![r].todo = s]
  BY DEF ListRead
<1> QED
  BY <1>2, <1>3, <1>4

(* list(): the metadata of one entry.                                      *)
LEMMA ListMetaInv ==
  ASSUME IInv, NEW r \in Req, ListMeta(r)
  PROVE  IInv'
<1>1. Quiet /\ h[r].pc = "l_meta"
  BY DEF ListMeta, Quiet, At
<1>2. CASE Reply(r, 200)
  BY <1>1, <1>2, ReplyFine, FineQuiet
<1>3. ASSUME NEW n \in h[r].todo, NEW found \in BOOLEAN,
             h' = [h EXCEPT ![r].todo = @ \ {n},
                            ![r].names = IF found THEN @ \union {n} ELSE @]
      PROVE  IInv'
  <2> DEFINE s == IF found THEN h[r].names \union {n} ELSE h[r].names
             x == [h[r] EXCEPT !.todo = h[r].todo \ {n}, !.names = s]
  <2>1. h[r].todo \in SUBSET Name /\ h[r].names \in SUBSET Name
    BY LocalFacts DEF Handler
  <2>2. s \in SUBSET Name /\ h[r].todo \ {n} \in SUBSET Name
    BY <2>1
  <2>3. Moves(r, x)
    BY <1>3, LocalFacts DEF Moves
  <2> HIDE DEF s
  <2>4. x \in Handler
    BY <2>2, LocalFacts, ZenonT(60) DEF Handler
  <2>5. /\ x.pc = h[r].pc /\ x.op = h[r].op /\ x.to = h[r].to
        /\ x.path = h[r].path
    BY LocalFacts DEF Handler
  <2> HIDE DEF x
  <2>6. Role(x) /\ Stage(r, x, disk[r])
    BY <1>1, <2>5, LocalFacts DEF Role, Stage
  <2> QED
    BY <1>1, <2>3, <2>4, <2>5, <2>6, SameFine, FineQuiet
<1> QED
  BY <1>2, <1>3 DEF ListMeta

(* delete: the trash name.                                                 *)
LEMMA DeleteStampInv ==
  ASSUME IInv, NEW r \in Req, DeleteStamp(r)
  PROVE  IInv'
<1> DEFINE t == TrashTarget(h[r].path, now)
           x == [h[r] EXCEPT !.pc = "d_rename", !.to = t]
<1>1. Quiet /\ h[r].pc = "d_stamp" /\ h[r].op = "delete"
  BY LocalFacts DEF DeleteStamp, Quiet, At, Role
<1>2. now \in Nat /\ h[r].path \in Path /\ PlainPath(h[r].path)
  BY LocalFacts, FileApiAssumption DEF IInv, TypeOK, Handler, Naming
<1>3. t \in Path /\ PlainPath(t)
  BY <1>2, TrashTargetProperties
<1>4. h' = [h EXCEPT ![r].pc = "d_rename", ![r].to = t]
  BY DEF DeleteStamp
<1> HIDE DEF t
<1>5. "d_rename" \in Label
  BY DEF Label
<1>6. x \in Handler
  BY <1>3, <1>5, LocalFacts, ZenonT(60) DEF Handler
<1>7. Moves(r, x)
  BY <1>4, LocalFacts DEF Moves
<1>8. /\ x.pc = "d_rename" /\ x.op = "delete" /\ x.to = t
      /\ x.path = h[r].path
  BY <1>1, LocalFacts DEF Handler
<1> HIDE DEF x
<1>9. Role(x) /\ Stage(r, x, disk[r]) /\ Naming(x)
  BY <1>2, <1>3, <1>8 DEF Role, Stage, Naming
<1>10. Fine(r)
  BY <1>1, <1>6, <1>7, <1>8, <1>9 DEF Fine, Keeps
<1> QED
  BY <1>1, <1>10, FineQuiet

(* A handler before its request.                                           *)
LEMMA IdleProperties == Idle \in Handler /\ PlainPath(Root) /\ Root \in Path
<1>1. Root \in Path /\ << >> \in Seq(Chunk) /\ Len(Root) = 0
  BY EmptySeq DEF Root, Path
<1>2. [form |-> "absent", a |-> 0, b |-> 0] \in Header
  BY DEF Header
<1>3. "idle" \in Label
  BY DEF Label
<1>4. Idle \in Handler
  BY <1>1, <1>2, <1>3 DEF Idle, Handler
<1> QED
  BY <1>1, <1>4 DEF PlainPath

(* The arrival of a request.                                               *)
LEMMA ArriveInv ==
  ASSUME IInv, NEW r \in Req, Arrive(r)
  PROVE  IInv'
<1>1. Quiet /\ h[r].pc = "idle" /\ h[r].op = "none"
  BY LocalFacts DEF Arrive, Quiet, At, Role
<1>2. PICK op \in Op, perms \in PermSet, p \in Target :
        \E q \in IF op = "rename" THEN Target ELSE {Root},
           n \in IF op = "upload" THEN Size ELSE {0},
           g \in IF op = "file" THEN RangeHdr ELSE {Idle.hdr} :
          /\ op = "upload" => p # Root
          /\ LET code == Gate(op, perms, p, q)
             IN  h' = [h EXCEPT ![r] =
                   [Idle EXCEPT
                      !.pc = IF code = 0 THEN FirstCall[op] ELSE "done",
                      !.op = op, !.perms = perms, !.path = p, !.to = q,
                      !.size = n, !.hdr = g, !.status = code]]
  BY DEF Arrive
<1>3. PICK q \in IF op = "rename" THEN Target ELSE {Root},
           n \in IF op = "upload" THEN Size ELSE {0},
           g \in IF op = "file" THEN RangeHdr ELSE {Idle.hdr} :
          /\ op = "upload" => p # Root
          /\ h' = [h EXCEPT ![r] =
                     [Idle EXCEPT
                        !.pc = IF Gate(op, perms, p, q) = 0 THEN FirstCall[op]
                                                            ELSE "done",
                        !.op = op, !.perms = perms, !.path = p, !.to = q,
                        !.size = n, !.hdr = g,
                        !.status = Gate(op, perms, p, q)]]
  BY <1>2
<1> DEFINE code == Gate(op, perms, p, q)
           label == IF code = 0 THEN FirstCall[op] ELSE "done"
           x == [Idle EXCEPT !.pc = label, !.op = op, !.perms = perms,
                             !.path = p, !.to = q, !.size = n, !.hdr = g,
                             !.status = code]
<1>4. code \in Nat
  BY DEF Gate
<1>5. op \in {"list", "file", "upload", "mkdir", "rename", "delete"}
  BY FileApiAssumption
<1>6. /\ label \in Label /\ label # "idle" /\ label # "mkdirs"
      /\ label \notin {"u_create", "u_stream", "u_rename", "u_clean"}
      /\ label \in {"m_check"} => op = "mkdir"
      /\ label \in {"u_parent"} => op = "upload"
      /\ label \in {"r_check", "r_parent", "r_rename"} => op = "rename"
      /\ label \in {"d_check", "d_stamp", "d_rename"} => op = "delete"
      /\ label \in {"f_stat", "f_open", "f_body"} => op = "file"
      /\ label \in {"l_stat", "l_read", "l_meta"} => op = "list"
  BY <1>5 DEF FirstCall, Label
<1>7. /\ p \in Path /\ PlainPath(p) /\ q \in Path /\ PlainPath(q)
      /\ op # "rename" => q = Root
      /\ n \in Nat /\ g \in Header
  BY IdleProperties, FileApiAssumption DEF Handler
<1>8. Moves(r, x)
  BY <1>3 DEF Moves
<1> HIDE DEF code, label
<1>9. x \in Handler
  BY <1>4, <1>6, <1>7, IdleProperties, ZenonT(60) DEF Handler
<1>10. /\ x.pc = label /\ x.op = op /\ x.path = p /\ x.to = q
       /\ x.sent = 0
  BY DEF Idle
<1> HIDE DEF x
<1>11. Role(x) /\ Naming(x)
  BY <1>3, <1>6, <1>7, <1>10 DEF Role, Naming
<1>12. Stage(r, x, disk[r])
  BY <1>6, <1>7, <1>10 DEF Stage
<1>13. x.op # "upload" \/ x.to = Root
  BY <1>7, <1>10
<1>14. Fine(r)
  BY <1>1, <1>8, <1>9, <1>11, <1>12, <1>13 DEF Fine, Keeps
<1> QED
  BY <1>1, <1>14, FineQuiet

-----------------------------------------------------------------------------
(* The steps that change no handler, or all of them.                       *)

(* Nothing changes but the clock.                                          *)
LEMMA StutterInv ==
  ASSUME IInv, UNCHANGED << tree, disk, h >>, now' \in 0 .. MaxTime
  PROVE  IInv'
<1>1. TypeOK' /\ HInv' /\ Entries'
  BY DEF IInv, TypeOK, HInv, Entries, Local, OwnSuffix, Uploading, SuffixOf,
         Entry, TempFile, Settled, Whole
<1> QED
  BY <1>1 DEF IInv

(* The end of the process.                                                 *)
LEMMA CrashInv ==
  ASSUME IInv, Crash
  PROVE  IInv'
<1>1. /\ UNCHANGED << tree, disk, now >>
      /\ h' = [r \in Req |-> IF Live(r) THEN [h[r] EXCEPT !.pc = "gone"]
                                        ELSE h[r]]
  BY DEF Crash
<1>2. ASSUME NEW r \in Req
      PROVE  /\ h'[r] \in Handler
             /\ h'[r].op = h[r].op /\ h'[r].to = h[r].to
             /\ h'[r].size = h[r].size
             /\ h[r].pc \in {"done", "gone"} => h'[r] = h[r]
             /\ Local(r)'
  <2>1. CASE Live(r)
    <3> DEFINE x == [h[r] EXCEPT !.pc = "gone"]
    <3>1. h'[r] = x
      BY <1>1, <2>1
    <3>2. "gone" \in Label
      BY DEF Label
    <3>3. x \in Handler
      BY <3>2, LocalFacts, ZenonT(60) DEF Handler
    <3>4. /\ x.pc = "gone" /\ x.op = h[r].op /\ x.to = h[r].to
          /\ x.path = h[r].path /\ x.size = h[r].size
      BY LocalFacts DEF Handler
    <3> HIDE DEF x
    <3>5. Role(x) /\ Naming(x) /\ Stage(r, x, disk[r])
      BY <3>4, LocalFacts DEF Role, Naming, Stage
    <3> QED
      BY <1>1, <2>1, <3>1, <3>3, <3>4, <3>5 DEF Live, Local
  <2>2. CASE ~Live(r)
    BY <1>1, <2>2, LocalFacts DEF Local
  <2> QED
    BY <2>1, <2>2
<1>3. TypeOK'
  BY <1>1, <1>2 DEF IInv, TypeOK
<1>4. HInv'
  BY <1>2 DEF IInv, HInv, OwnSuffix, Uploading, SuffixOf
<1>5. ASSUME NEW i \in Ino
      PROVE  Settled(i) => Settled(i)'
  BY <1>1, <1>2, FileApiAssumption DEF Settled, Whole, Body
<1>6. ASSUME NEW p \in DOMAIN tree
      PROVE  Entry(tree[p], p)'
  <2>1. Entry(tree[p], p) /\ tree[p] \in Ino \union {Dir}
    BY DEF IInv, Entries, TypeOK
  <2> QED
    BY <1>1, <1>2, <1>5, <2>1 DEF Entry, TempFile, Uploading, SuffixOf
<1> QED
  BY <1>1, <1>3, <1>4, <1>6 DEF IInv, Entries

-----------------------------------------------------------------------------
(* The steps that change the share or the disk.                            *)

(* Every entry afterwards is an old one under a name of the same suffix,   *)
(* or a new one that is as it should be.                                   *)
LEMMA TreeStep ==
  ASSUME IInv, NEW r \in Req, NEW x \in Handler, Moves(r, x), Keeps(r, x),
         Stage(r, x, disk'[r]), disk' \in [Ino -> Seq(Chunk)],
         \A i \in Ino \ {r} : disk'[i] = disk[i],
         now' = now, Tree(tree'),
         \A q \in DOMAIN tree' :
           \/ tree'[q] \in Ino \union {Dir} /\ Entry(tree[q], q)'
           \/ \E p \in DOMAIN tree : /\ tree'[q] = tree[p]
                                     /\ Last(q).tmp = Last(p).tmp
  PROVE  IInv'
<1>1. /\ HInv'
      /\ \A i \in Ino : Settled(i) => Settled(i)'
      /\ \A i \in Req : Uploading(i) => /\ Uploading(i)'
                                        /\ SuffixOf(i)' = SuffixOf(i)
  BY MovesKeep DEF IInv
<1>2. ASSUME NEW q \in DOMAIN tree', NEW p \in DOMAIN tree,
             tree'[q] = tree[p], Last(q).tmp = Last(p).tmp
      PROVE  tree'[q] \in Ino \union {Dir} /\ Entry(tree[q], q)'
  <2>1. Entry(tree[p], p) /\ tree[p] \in Ino \union {Dir}
    BY DEF IInv, Entries, TypeOK
  <2> QED
    BY <1>1, <1>2, <2>1 DEF Entry, TempFile, TempNamed, IsTemp
<1>3. \A q \in DOMAIN tree' : /\ tree'[q] \in Ino \union {Dir}
                              /\ Entry(tree[q], q)'
  BY <1>2
<1>4. TypeOK'
  BY <1>3, MovesTypes DEF IInv, TypeOK, Tree
<1> QED
  BY <1>1, <1>3, <1>4 DEF IInv, Entries

(* What the invariant says of the share.                                   *)
LEMMA TreeFacts ==
  ASSUME IInv
  PROVE  /\ Tree(tree) /\ disk \in [Ino -> Seq(Chunk)]
         /\ \A p \in DOMAIN tree : /\ p \in Path /\ p # Root
                                   /\ tree[p] \in Ino \union {Dir}
                                   /\ Entry(tree[p], p)
BY DEF IInv, TypeOK, Tree, WellFormed, Entries

(* upload(): one chunk.                                                    *)
LEMMA UploadChunkInv ==
  ASSUME IInv, NEW r \in Req, UploadChunk(r)
  PROVE  IInv'
<1> DEFINE n == h[r].sent
           x == [h[r] EXCEPT !.sent = n + 1]
<1>1. /\ h[r].pc = "u_stream" /\ n \in Nat /\ h[r].size \in Nat
      /\ n < h[r].size /\ r \in Ino /\ h[r].fd = r /\ disk[r] = Body(r, n)
  BY LocalFacts DEF UploadChunk, At, Stage, Handler
<1>2. /\ disk' = [disk EXCEPT ![r] = Body(r, n + 1)]
      /\ tree' = tree /\ now' = now
  BY <1>1, BodyGrows DEF UploadChunk
<1>3. Body(r, n + 1) \in Seq(Chunk)
  BY <1>1, BodyTypes
<1>4. /\ disk' \in [Ino -> Seq(Chunk)] /\ disk'[r] = Body(r, n + 1)
      /\ \A i \in Ino \ {r} : disk'[i] = disk[i]
  BY <1>1, <1>2, <1>3, TreeFacts
<1>5. x \in Handler
  <2>1. n + 1 \in Nat
    BY <1>1
  <2> QED
    BY <2>1, LocalFacts, ZenonT(60) DEF Handler
<1>6. Moves(r, x)
  BY LocalFacts DEF UploadChunk, Moves
<1>7. /\ x.pc = h[r].pc /\ x.op = h[r].op /\ x.to = h[r].to
      /\ x.path = h[r].path /\ x.fd = h[r].fd /\ x.size = h[r].size
      /\ x.sent = n + 1
  BY LocalFacts DEF Handler
<1> HIDE DEF x
<1>8. Keeps(r, x)
  BY <1>1, <1>7, LocalFacts DEF Keeps, Role, Naming
<1>9. Stage(r, x, disk'[r])
  BY <1>1, <1>4, <1>7, LocalFacts DEF Stage
<1>10. Tree(tree') /\ \A q \in DOMAIN tree' : tree'[q] = tree[q]
  BY <1>2, TreeFacts
<1> QED
  BY <1>2, <1>4, <1>5, <1>6, <1>8, <1>9, <1>10, TreeStep

(* rename and delete move an entry from one plain name to another.         *)
LEMMA MoveEntryInv ==
  ASSUME IInv, NEW r \in Req, RenameMove(r) \/ DeleteMove(r)
  PROVE  IInv'
<1> DEFINE a == h[r].path
           b == h[r].to
<1>1. /\ h[r].pc \notin {"done", "gone"} /\ h[r].op # "upload"
      /\ disk' = disk /\ now' = now
      /\ \/ /\ CanRename(tree, a, b) /\ tree' = Rename(tree, a, b)
            /\ Reply(r, 200)
         \/ tree' = tree /\ Reply(r, 500)
  BY LocalFacts DEF RenameMove, DeleteMove, MoveEntry, At, Role
<1>2. CASE tree' = tree /\ Reply(r, 500)
  BY <1>1, <1>2, ReplyFine, FineQuiet DEF Quiet
<1>3. CASE CanRename(tree, a, b) /\ tree' = Rename(tree, a, b) /\ Reply(r, 200)
  <2>1. PICK x \in Handler : /\ Moves(r, x) /\ Keeps(r, x)
                             /\ Stage(r, x, disk[r])
    BY <1>1, <1>3, ReplyFine DEF Fine
  <2>2. /\ a \in Path /\ b \in Path /\ PlainPath(a) /\ PlainPath(b)
        /\ a \in DOMAIN tree /\ a # Root /\ b # Root
    BY <1>1, <1>3, LocalFacts, TreeFacts DEF Handler, Naming, CanRename
  <2>3. Last(a).tmp = NoSuffix /\ Last(b).tmp = NoSuffix
    BY <2>2, PlainLast DEF TempNamed, IsTemp
  <2>4. Tree(tree')
    BY <1>3, <2>2, TreeFacts, RenameKeepsTree
  <2>5. ASSUME NEW q \in DOMAIN tree'
        PROVE  \E p \in DOMAIN tree : /\ tree'[q] = tree[p]
                                      /\ Last(q).tmp = Last(p).tmp
    <3>1. \/ q = b /\ tree'[q] = tree[a]
          \/ \E p \in DOMAIN tree : tree'[q] = tree[p] /\ Last(q) = Last(p)
      BY <1>3, <2>2, TreeFacts, RenameNames
    <3> QED
      BY <2>2, <2>3, <3>1
  <2> QED
    BY <1>1, <2>1, <2>4, <2>5, TreeStep, TreeFacts
<1> QED
  BY <1>1, <1>2, <1>3

(* An upload renames its temporary file to the name it was asked for: the  *)
(* file there is its own, by the suffix, and holds the whole body.         *)
LEMMA CommitInv ==
  ASSUME IInv, NEW r \in Req, At(r, "u_rename"),
         CanRename(tree, h[r].to, h[r].path),
         tree' = Rename(tree, h[r].to, h[r].path), disk' = disk, now' = now,
         Reply(r, 200) \/ Go(r, "gone")
  PROVE  IInv'
<1> DEFINE a == h[r].to
           b == h[r].path
<1>1. /\ h[r].pc = "u_rename" /\ h[r].op = "upload" /\ a # Root
      /\ disk[r] = Body(r, h[r].size)
  BY LocalFacts DEF At, Role, Stage
<1>2. PICK s \in Suffix : a = TmpSibling(b, s)
  BY <1>1, LocalFacts DEF Naming
<1>3. /\ a \in Path /\ b \in Path /\ b # Root /\ a \in DOMAIN tree
      /\ Last(a).tmp = s /\ TempNamed(a) /\ ~TempNamed(b)
  <2>1. b \in Path /\ b # Root /\ PlainPath(b) /\ a \in DOMAIN tree
    BY <1>1, LocalFacts DEF Handler, Naming, CanRename
  <2> QED
    BY <1>2, <2>1, TmpSiblingProperties, PlainLast
<1>4. tree[a] = r
  <2>1. TempFile(tree[a], a)
    BY <1>3, TreeFacts DEF Entry
  <2> QED
    BY <1>1, <2>1 DEF TempFile, IInv, HInv, OwnSuffix, Uploading, SuffixOf
<1>5. PICK x \in Handler :
        /\ Moves(r, x) /\ x.pc \in {"done", "gone"}
        /\ x.op = h[r].op /\ x.to = h[r].to
        /\ x.path = h[r].path /\ x.size = h[r].size
  <2>1. CASE Reply(r, 200)
    <3>1. PICK x \in Handler :
            Moves(r, x) /\ x = [h[r] EXCEPT !.pc = "done", !.status = 200]
      BY <2>1, ReplyMoves, LocalFacts
    <3> QED
      BY <3>1, LocalFacts, ZenonT(60) DEF Handler
  <2>2. CASE Go(r, "gone")
    <3>1. "gone" \in Label
      BY DEF Label
    <3>2. PICK x \in Handler : Moves(r, x) /\ x = [h[r] EXCEPT !.pc = "gone"]
      BY <2>2, <3>1, GoMoves, LocalFacts
    <3> QED
      BY <3>2, LocalFacts, ZenonT(60) DEF Handler
  <2> QED
    BY <2>1, <2>2
<1>7. Keeps(r, x) /\ Stage(r, x, disk'[r])
  BY <1>1, <1>5, LocalFacts DEF Keeps, Role, Naming, Stage
<1>8. Tree(tree')
  BY <1>3, TreeFacts, RenameKeepsTree
<1>9. Settled(r)'
  <2>1. h'[r] = x
    BY <1>5, MovesTypes, LocalFacts
  <2> QED
    BY <1>1, <1>5, <2>1, FileApiAssumption DEF Settled, Whole, Body
<1>10. ASSUME NEW q \in DOMAIN tree'
       PROVE  \/ tree'[q] \in Ino \union {Dir} /\ Entry(tree[q], q)'
              \/ \E p \in DOMAIN tree : /\ tree'[q] = tree[p]
                                        /\ Last(q).tmp = Last(p).tmp
  <2>1. \/ q = b /\ tree'[q] = r
        \/ \E p \in DOMAIN tree : tree'[q] = tree[p] /\ Last(q) = Last(p)
    BY <1>3, <1>4, TreeFacts, RenameNames
  <2> QED
    BY <1>3, <1>9, <2>1, LocalFacts DEF Entry
<1> QED
  BY <1>5, <1>7, <1>8, <1>10, TreeStep, TreeFacts

(* upload(): the final rename.                                             *)
LEMMA UploadRenameInv ==
  ASSUME IInv, NEW r \in Req, UploadRename(r)
  PROVE  IInv'
<1>1. CASE CanRename(tree, h[r].to, h[r].path)
  BY <1>1, CommitInv DEF UploadRename
<1>2. CASE ~CanRename(tree, h[r].to, h[r].path)
  <2>1. Quiet /\ h[r].pc = "u_rename"
    BY <1>2 DEF UploadRename, Quiet, At
  <2>2. PICK code \in Nat :
          /\ CleanCode(code)
          /\ h' = [h EXCEPT ![r].pc = "u_clean", ![r].status = code]
    BY <1>2 DEF UploadRename, CleanCode
  <2> QED
    BY <2>1, <2>2, CleanFine, FineQuiet
<1> QED
  BY <1>1, <1>2

(* upload(): the temporary file is removed, or stays because it cannot be. *)
LEMMA RemoveInv ==
  ASSUME IInv, NEW r \in Req, h[r].pc = "u_clean", RemoveFile(h[r].to),
         NEW label \in {"done", "gone"}, Go(r, label),
         disk' = disk, now' = now
  PROVE  IInv'
<1>1. tree' = tree \/ (IsFile(tree, h[r].to) /\ tree' = Unlink(tree, h[r].to))
  BY DEF RemoveFile
<1>2. PICK x \in Handler : /\ Moves(r, x) /\ Keeps(r, x)
                           /\ Stage(r, x, disk[r])
  <2>1. label \in Label
    BY DEF Label
  <2>2. /\ Role([h[r] EXCEPT !.pc = label])
        /\ Stage(r, [h[r] EXCEPT !.pc = label], disk[r])
    BY LocalFacts DEF Role, Stage, Handler
  <2> QED
    BY <2>1, <2>2, GoFine DEF Fine
<1>3. Tree(tree')
  BY <1>1, TreeFacts, UnlinkKeepsTree
<1>4. \A q \in DOMAIN tree' : q \in DOMAIN tree /\ tree'[q] = tree[q]
  BY <1>1 DEF Unlink
<1> QED
  BY <1>2, <1>3, <1>4, TreeStep, TreeFacts

(* upload(): the clean-up.                                                 *)
LEMMA UploadCleanInv ==
  ASSUME IInv, NEW r \in Req, UploadClean(r)
  PROVE  IInv'
BY RemoveInv DEF UploadClean, At

(* The directory a handler wants has a plain name, all the way down.       *)
LEMMA FrontPlain ==
  ASSUME NEW p \in Path, PlainPath(p)
  PROVE  Front(p) \in Path /\ PlainPath(Front(p))
<1>1. CASE p = Root
  <2>1. Len(p) = 0 /\ \A i \in 1 .. -1 : p[i] \in Name
    BY <1>1, EmptySeq DEF Root
  <2>2. Len(SubSeq(p, 1, -1)) = 0
    BY <2>1, SubSeqProperties
  <2> QED
    BY <2>1, <2>2, FrontProperties DEF Front, PlainPath
<1>2. CASE p # Root
  <2> DEFINE k == Len(p) - 1
  <2>1. k \in 0 .. Len(p) /\ Front(p) = SubSeq(p, 1, k) /\ Len(p) \in Nat
    BY <1>2, FrontProperties
  <2>2. /\ Len(SubSeq(p, 1, k)) = k
        /\ \A i \in 1 .. k : SubSeq(p, 1, k)[i] = p[i]
    BY <2>1, PrefixProperties
  <2>3. \A i \in 1 .. k : i \in 1 .. Len(p)
    BY <2>1
  <2> HIDE DEF k
  <2> QED
    BY <2>1, <2>2, <2>3, FrontProperties DEF PlainPath
<1> QED
  BY <1>1, <1>2

(* The directory that create_dir_all is called for.                        *)
LEMMA WantedProperties ==
  ASSUME IInv, NEW r \in Req, h[r].pc = "mkdirs"
  PROVE  Wanted(r) \in Path /\ PlainPath(Wanted(r))
<1>1. /\ h[r].path \in Path /\ h[r].to \in Path /\ PlainPath(h[r].path)
      /\ h[r].op # "upload" => PlainPath(h[r].to)
      /\ h[r].op \in {"upload", "mkdir", "rename", "delete"}
  BY LocalFacts DEF Handler, Naming, Role
<1> QED
  BY <1>1, FrontPlain, TrashPathProperties DEF Wanted

(* create_dir_all: one level.                                              *)
LEMMA MakeDirInv ==
  ASSUME IInv, NEW r \in Req, MakeDir(r)
  PROVE  IInv'
<1>1. h[r].pc = "mkdirs" /\ At(r, "mkdirs") /\ disk' = disk /\ now' = now
  BY DEF MakeDir, At
<1>2. PICK k \in 1 .. Len(Wanted(r)) :
        LET d == SubSeq(Wanted(r), 1, k)
        IN  IF IsFile(tree, d) \/ ~IsDir(tree, Front(d))
            THEN Reply(r, 500) /\ UNCHANGED tree
            ELSE /\ tree' = IF d \in DOMAIN tree THEN tree
                                                 ELSE Link(tree, d, Dir)
                 /\ IF k = Len(Wanted(r)) THEN AfterDirs(r)
                    ELSE h' = [h EXCEPT ![r].lvl = k]
  BY DEF MakeDir
<1> DEFINE d == SubSeq(Wanted(r), 1, k)
<1>3. d \in Path /\ d # Root /\ ~TempNamed(d)
  BY <1>1, WantedProperties, PlainPrefix, PlainLast
<1>4. k \in Nat
  BY <1>1, WantedProperties, LenProperties DEF Path
<1>5. CASE Reply(r, 500) /\ tree' = tree
  BY <1>1, <1>5, ReplyFine, FineQuiet DEF Quiet
<1>6. ASSUME IsDir(tree, Front(d)),
             AfterDirs(r) \/ h' = [h EXCEPT ![r].lvl = k],
             tree' = IF d \in DOMAIN tree THEN tree ELSE Link(tree, d, Dir)
      PROVE  IInv'
  <2>1. Fine(r)
    <3>1. CASE AfterDirs(r)
      BY <1>1, <3>1, AfterDirsFine
    <3>2. CASE h' = [h EXCEPT ![r].lvl = k]
      <4> DEFINE x == [h[r] EXCEPT !.lvl = k]
      <4>1. x \in Handler
        BY <1>4, LocalFacts, ZenonT(60) DEF Handler
      <4>2. Moves(r, x)
        BY <3>2, LocalFacts DEF Moves
      <4>3. /\ x.pc = h[r].pc /\ x.op = h[r].op /\ x.to = h[r].to
            /\ x.path = h[r].path /\ x.sent = h[r].sent
        BY LocalFacts DEF Handler
      <4> HIDE DEF x
      <4>4. Role(x) /\ Stage(r, x, disk[r])
        BY <1>1, <4>3, LocalFacts DEF Role, Stage
      <4> QED
        BY <1>1, <4>1, <4>2, <4>3, <4>4, SameFine
    <3> QED
      BY <1>6, <3>1, <3>2
  <2>2. PICK x \in Handler : /\ Moves(r, x) /\ Keeps(r, x)
                             /\ Stage(r, x, disk[r])
    BY <2>1 DEF Fine
  <2> HIDE DEF d
  <2>3. Tree(tree')
    BY <1>3, <1>6, TreeFacts, LinkKeepsTree DEF IsDir
  <2>4. ASSUME NEW q \in DOMAIN tree'
        PROVE  \/ tree'[q] \in Ino \union {Dir} /\ Entry(tree[q], q)'
               \/ \E p \in DOMAIN tree : /\ tree'[q] = tree[p]
                                         /\ Last(q).tmp = Last(p).tmp
    <3>1. \/ q \in DOMAIN tree /\ tree'[q] = tree[q]
          \/ q = d /\ tree'[q] = Dir
      BY <1>6 DEF Link
    <3> QED
      BY <1>3, <3>1 DEF Entry
  <2> QED
    BY <1>1, <2>2, <2>3, <2>4, TreeStep, TreeFacts
<1> QED
  BY <1>2, <1>5, <1>6

(* A fresh suffix makes a fresh name: the file is the upload's own.        *)
LEMMA CreateTempInv ==
  ASSUME IInv, NEW r \in Req, At(r, "u_create"), now' = now,
         NEW label \in {"u_stream", "gone"}, CreateTemp(r, label)
  PROVE  IInv'
<1>1. /\ h[r].pc = "u_create" /\ h[r].op = "upload"
      /\ h[r].to = Root /\ h[r].sent = 0 /\ h[r].path # Root
      /\ h[r].path \in Path /\ PlainPath(h[r].path) /\ h[r].size \in Nat
      /\ r \in Ino
  BY LocalFacts DEF At, Role, Stage, Naming, Handler
<1>2. PICK s \in FreshSuffix :
        LET tmp == TmpSibling(h[r].path, s)
            fd  == IF tmp \in DOMAIN tree THEN tree[tmp] ELSE r
        IN  /\ IsDir(tree, Front(tmp)) /\ ~IsDir(tree, tmp)
            /\ tree' = Link(tree, tmp, fd)
            /\ disk' = [disk EXCEPT ![fd] = << >>]
            /\ h' = [h EXCEPT ![r].pc = label, ![r].to = tmp, ![r].fd = fd]
  BY DEF CreateTemp
<1> DEFINE tmp == TmpSibling(h[r].path, s)
<1>3. /\ tmp \in Path /\ tmp # Root /\ TempNamed(tmp) /\ Last(tmp).tmp = s
      /\ s \in Suffix
  BY <1>1, TmpSiblingProperties DEF FreshSuffix
<1>4. \A q \in Req : Uploading(q) => SuffixOf(q) # s
  BY DEF FreshSuffix, Drawn, Uploading, SuffixOf
<1>5. tmp \notin DOMAIN tree
  BY <1>3, <1>4, TreeFacts DEF Entry, TempFile
<1>6. ASSUME IsDir(tree, Front(tmp)), ~IsDir(tree, tmp),
             tree' = Link(tree, tmp, r), disk' = [disk EXCEPT ![r] = << >>],
             h' = [h EXCEPT ![r].pc = label, ![r].to = tmp, ![r].fd = r]
      PROVE  IInv'
  <2> DEFINE x == [h[r] EXCEPT !.pc = label, !.to = tmp, !.fd = r]
  <2>1. << >> \in Seq(Chunk) /\ label \in Label
    BY DEF Label
  <2>2. /\ disk' \in [Ino -> Seq(Chunk)] /\ disk'[r] = << >>
        /\ \A i \in Ino \ {r} : disk'[i] = disk[i]
    BY <1>1, <1>6, <2>1, TreeFacts
  <2>3. << >> = Body(r, 0)
    <3>1. Body(r, 0) \in Seq(Chunk) /\ Len(Body(r, 0)) = 0
      BY <1>1, BodyTypes
    <3> QED
      BY <3>1, EmptySeq
  <2>4. tmp = TmpSibling(h[r].path, s)
    OBVIOUS
  <2> HIDE DEF tmp
  <2>5. x \in Handler
    <3>1. r \in Ino \union {Dir} /\ tmp \in Path /\ h[r] \in Handler
      BY <1>1, <1>3, LocalFacts
    <3> QED
      BY <2>1, <3>1, ZenonT(60) DEF Handler
  <2>6. Moves(r, x)
    BY <1>6, LocalFacts DEF Moves
  <2>7. /\ x.pc = label /\ x.op = "upload" /\ x.to = tmp /\ x.fd = r
        /\ x.path = h[r].path /\ x.sent = 0 /\ x.size = h[r].size
    BY <1>1, LocalFacts DEF Handler
  <2> HIDE DEF x
  <2>8. Role(x) /\ Naming(x) /\ Stage(r, x, disk'[r])
    BY <1>1, <1>3, <2>2, <2>3, <2>4, <2>7 DEF Role, Naming, Stage
  <2>9. Keeps(r, x)
    BY <1>1, <1>3, <1>4, <2>7, <2>8 DEF Keeps
  <2>10. Tree(tree')
    BY <1>3, <1>6, TreeFacts, LinkKeepsTree
  <2>11. Uploading(r)' /\ SuffixOf(r)' = s
    <3>1. h'[r] = x
      BY <2>5, <2>6, MovesTypes, LocalFacts
    <3> QED
      BY <1>3, <2>7, <3>1 DEF Uploading, SuffixOf
  <2>12. ASSUME NEW q \in DOMAIN tree'
         PROVE  \/ tree'[q] \in Ino \union {Dir} /\ Entry(tree[q], q)'
                \/ \E p \in DOMAIN tree : /\ tree'[q] = tree[p]
                                          /\ Last(q).tmp = Last(p).tmp
    <3>1. \/ q \in DOMAIN tree /\ tree'[q] = tree[q]
          \/ q = tmp /\ tree'[q] = r
      BY <1>6 DEF Link
    <3> QED
      BY <1>1, <1>3, <2>11, <3>1 DEF Entry, TempFile, TempNamed
  <2> QED
    BY <1>1, <2>2, <2>5, <2>6, <2>8, <2>9, <2>10, <2>12, TreeStep
<1> QED
  BY <1>2, <1>5, <1>6

(* upload(): the temporary file is created, or the reply is sent.          *)
LEMMA UploadCreateInv ==
  ASSUME IInv, NEW r \in Req, UploadCreate(r)
  PROVE  IInv'
<1>1. At(r, "u_create") /\ now' = now /\ h[r].pc \notin {"done", "gone"}
  BY DEF UploadCreate, At
<1>2. CASE CreateTemp(r, "u_stream")
  BY <1>1, <1>2, CreateTempInv
<1>3. CASE Reply(r, 500) /\ UNCHANGED << tree, disk >>
  BY <1>1, <1>3, ReplyFine, FineQuiet DEF Quiet
<1> QED
  BY <1>2, <1>3 DEF UploadCreate

(* upload(): its future is dropped.                                        *)
LEMMA UploadDroppedInv ==
  ASSUME IInv, NEW r \in Req, UploadDropped(r)
  PROVE  IInv'
<1>1. CASE At(r, "u_create") /\ CreateTemp(r, "gone")
  BY <1>1, CreateTempInv DEF UploadDropped
<1>2. CASE At(r, "u_clean") /\ RemoveFile(h[r].to) /\ Go(r, "gone")
           /\ disk' = disk
  BY <1>2, RemoveInv DEF UploadDropped, At
<1>3. CASE /\ At(r, "u_rename") /\ CanRename(tree, h[r].to, h[r].path)
           /\ tree' = Rename(tree, h[r].to, h[r].path)
           /\ Go(r, "gone") /\ disk' = disk
  BY <1>3, CommitInv DEF UploadDropped
<1>4. CASE /\ h[r].pc \in {"u_create", "u_stream", "u_rename"}
           /\ UNCHANGED << tree, disk >> /\ Go(r, "gone")
  <2>1. "gone" \in Label
    BY DEF Label
  <2>2. /\ Role([h[r] EXCEPT !.pc = "gone"])
        /\ Stage(r, [h[r] EXCEPT !.pc = "gone"], disk[r])
    BY LocalFacts DEF Role, Stage, Handler
  <2> QED
    BY <1>4, <2>1, <2>2, GoFine, FineQuiet DEF UploadDropped, Quiet
<1> QED
  BY <1>1, <1>2, <1>3, <1>4 DEF UploadDropped, At

-----------------------------------------------------------------------------
(* The theorems.                                                           *)

(* The invariant holds at start.                                           *)
LEMMA InitInv == Init => IInv
<1> SUFFICES ASSUME Init PROVE IInv
  OBVIOUS
<1>1. ASSUME NEW i \in Ino
      PROVE  /\ disk[i] \in Seq(Chunk)
             /\ i \in Seed => disk[i] = Body(i, 2)
  <2>1. Body(i, 2) \in Seq(Chunk) /\ << >> \in Seq(Chunk)
    BY BodyTypes
  <2> QED
    BY <2>1 DEF Init
<1>2. TypeOK
  <2>1. now \in 0 .. MaxTime /\ h \in [Req -> Handler]
    BY IdleProperties, FileApiAssumption DEF Init
  <2>2. disk \in [Ino -> Seq(Chunk)]
    BY <1>1 DEF Init
  <2>3. /\ DOMAIN tree \subseteq Path /\ WellFormed(tree)
        /\ \A p \in DOMAIN tree : tree[p] \in Ino \union {Dir}
    BY FileApiAssumption DEF Init
  <2> QED
    BY <2>1, <2>2, <2>3 DEF TypeOK
<1>3. \A r \in Req : h[r] = Idle
  BY DEF Init
<1>4. /\ Idle.pc = "idle" /\ Idle.op = "none"
      /\ Idle.path = Root /\ Idle.to = Root
  BY DEF Idle
<1>5. Role(Idle) /\ Naming(Idle) /\ \A r \in Req : Stage(r, Idle, disk[r])
  BY <1>4, IdleProperties DEF Role, Naming, Stage
<1>6. HInv
  BY <1>3, <1>4, <1>5 DEF HInv, Local, OwnSuffix, Uploading
<1>7. ASSUME NEW p \in DOMAIN tree
      PROVE  Entry(tree[p], p)
  <2>1. p \in Path /\ p # Root /\ PlainPath(p) /\ tree[p] \in Seed \union {Dir}
    BY FileApiAssumption DEF Init
  <2>2. ~TempNamed(p)
    BY <2>1, PlainLast
  <2>3. tree[p] # Dir => Settled(tree[p])
    BY <1>1, <2>1, FileApiAssumption DEF Settled, Whole
  <2> QED
    BY <2>2, <2>3 DEF Entry
<1> QED
  BY <1>2, <1>6, <1>7 DEF IInv, Entries

(* Every step keeps the invariant.                                         *)
LEMMA NextInv == IInv /\ [Next]_vars => IInv'
<1> SUFFICES ASSUME IInv, [Next]_vars PROVE IInv'
  OBVIOUS
<1>1. ASSUME NEW r \in Req, ServerStep(r)
      PROVE  IInv'
  BY <1>1, DirsThereInv, MakeDirInv, CheckInv, UploadCreateInv,
     UploadRenameInv, UploadCleanInv, FileStatInv, FileOpenInv, ListReadInv,
     ListMetaInv, MoveEntryInv, DeleteStampInv DEF ServerStep
<1>2. ASSUME NEW r \in Req, ClientStep(r)
      PROVE  IInv'
  BY <1>2, ArriveInv, UploadChunkInv, UploadFailsInv, UploadDroppedInv,
     FileBodyInv DEF ClientStep
<1>3. CASE Tick
  <2>1. now' \in 0 .. MaxTime /\ UNCHANGED << tree, disk, h >>
    BY <1>3, FileApiAssumption DEF Tick, IInv, TypeOK
  <2> QED
    BY <2>1, StutterInv
<1>4. CASE Crash
  BY <1>4, CrashInv
<1>5. CASE AllServed \/ UNCHANGED vars
  <2>1. UNCHANGED << tree, disk, now, h >>
    BY <1>5 DEF AllServed, vars
  <2> QED
    BY <2>1, StutterInv DEF IInv, TypeOK
<1> QED
  BY <1>1, <1>2, <1>3, <1>4, <1>5 DEF Next

(* The inductive invariant: types, what each handler works on and how far  *)
(* it has come, and whose content each entry of the share is.              *)
THEOREM Invariance == Spec => []IInv
<1>1. Init => IInv
  BY InitInv
<1>2. IInv /\ [Next]_vars => IInv'
  BY NextInv
<1> QED
  BY <1>1, <1>2, PTL DEF Spec

(* Every handler keeps its local variables, the share and the disk in      *)
(* their types, and the share well formed, whatever the requests do.       *)
THEOREM TypeCorrect == Spec => []TypeOK
<1>1. IInv => TypeOK
  BY DEF IInv
<1> QED
  BY <1>1, Invariance, PTL

(* Half-uploaded content is never reachable under a plain name.            *)
THEOREM NeverHalfUploaded == Spec => []WholeFiles
<1>1. IInv => WholeFiles
  BY DEF IInv, Entries, Entry, Settled, WholeFiles, IsFile
<1> QED
  BY <1>1, Invariance, PTL
=============================================================================
