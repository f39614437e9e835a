-------------------------- MODULE ConfLinesProofs ---------------------------
(***************************************************************************)
(* Proofs about ConfLines: for every line, what tokenize() cuts it into, one*)
(* character after the other, are its words, which are defined without a   *)
(* state.  The induction over the characters is one over a set of numbers, *)
(* since Nat is well-founded.                                              *)
(***************************************************************************)
EXTENDS ConfLines, FiniteSetTheorems, SequenceTheorems, TLAPS

(* Counting the members of a set of positions.                             *)

(* Induction over the natural numbers, from their being well-founded.      *)
LEMMA NatSetInduction ==
  ASSUME NEW T, T \subseteq Nat, 0 \in T, \A n \in T : n + 1 \in T
  PROVE  T = Nat
<1> DEFINE R == OpToRel(<,Nat)
           D == Nat \ T
<1>1. IsWellFoundedOn(R, Nat)
  BY NatLessThanWellFounded
<1>2. \A a, b \in Nat : << a, b >> \in R <=> a < b
  BY DEF OpToRel
<1> HIDE DEF R
<1>3. ASSUME D # {}
      PROVE  FALSE
  <2>1. PICK x \in D : \A y \in D : ~ << y, x >> \in R
    BY <1>1, <1>3, WFMin
  <2>2. x # 0 /\ x - 1 \in Nat /\ x - 1 < x
    BY <2>1
  <2>3. x - 1 \in T
    BY <1>2, <2>1, <2>2
  <2> QED
    BY <2>1, <2>2, <2>3
<1> QED
  BY <1>3

-----------------------------------------------------------------------------
(* The members of a set of numbers, counted.                               *)
UpTo(S, i) == {j \in S : j <= i}

(* A set of positions is finite, and so is what it has up to one of them.  *)
LEMMA UpToFinite ==
  ASSUME NEW n \in Nat, NEW S \in SUBSET (1 .. n)
  PROVE  /\ IsFiniteSet(S) /\ Cardinality(S) \in Nat
         /\ Cardinality(S) = 0 <=> S = {}
         /\ \A i : /\ IsFiniteSet(UpTo(S, i))
                   /\ Cardinality(UpTo(S, i)) \in 0 .. Cardinality(S)
<1>1. IsFiniteSet(1 .. n)
  BY FS_Interval
<1>2. IsFiniteSet(S)
  BY <1>1, FS_Subset
<1>3. Cardinality(S) \in Nat /\ (Cardinality(S) = 0 <=> S = {})
  BY <1>2, FS_CardinalityType, FS_EmptySet
<1>4. ASSUME NEW i
      PROVE  /\ IsFiniteSet(UpTo(S, i))
             /\ Cardinality(UpTo(S, i)) \in 0 .. Cardinality(S)
  <2>1. UpTo(S, i) \in SUBSET S
    BY DEF UpTo
  <2>2. /\ IsFiniteSet(UpTo(S, i))
        /\ Cardinality(UpTo(S, i)) <= Cardinality(S)
    BY <1>2, <2>1, FS_Subset
  <2>3. Cardinality(UpTo(S, i)) \in Nat
    BY <2>2, FS_CardinalityType
  <2> QED
    BY <1>3, <2>2, <2>3
<1> QED
  BY <1>2, <1>3, <1>4

(* Different members have different counts.                                *)
LEMMA CountsDiffer ==
  ASSUME NEW n \in Nat, NEW S \in SUBSET (1 .. n), NEW i \in S, NEW j \in S,
         Cardinality(UpTo(S, i)) = Cardinality(UpTo(S, j))
  PROVE  i = j
<1>1. ASSUME NEW a \in S, NEW b \in S, a < b,
             Cardinality(UpTo(S, a)) = Cardinality(UpTo(S, b))
      PROVE  FALSE
  <2>1. \A l \in S : l \in Int /\ (l <= a => l <= b)
    BY <1>1
  <2>2. UpTo(S, a) \in SUBSET UpTo(S, b)
    BY <2>1 DEF UpTo
  <2>3. IsFiniteSet(UpTo(S, b))
    BY UpToFinite
  <2>4. UpTo(S, a) = UpTo(S, b)
    BY <1>1, <2>2, <2>3, FS_Subset
  <2>5. b \in UpTo(S, b) /\ b \notin UpTo(S, a)
    BY <1>1, <2>1 DEF UpTo
  <2> QED
    BY <2>4, <2>5
<1> QED
  BY <1>1

(* The member with a count is the one that Nth finds.                      *)
LEMMA NthIs ==
  ASSUME NEW n \in Nat, NEW S \in SUBSET (1 .. n), NEW i \in S
  PROVE  Nth(S, Cardinality(UpTo(S, i))) = i
<1> DEFINE k == Cardinality(UpTo(S, i))
<1>1. \E j \in S : Cardinality({l \in S : l <= j}) = k
  BY DEF UpTo
<1> HIDE DEF k
<1>2. /\ Nth(S, k) \in S
      /\ Cardinality({l \in S : l <= Nth(S, k)}) = k
  BY <1>1 DEF Nth
<1>3. Cardinality(UpTo(S, Nth(S, k))) = Cardinality(UpTo(S, i))
  BY <1>2 DEF UpTo, k
<1>4. Nth(S, k) = i
  BY <1>2, <1>3, CountsDiffer
<1> QED
  BY <1>4 DEF k

(* A position beyond all members is counted last.                          *)
LEMMA CountBeyond ==
  ASSUME NEW n \in Nat, NEW S \in SUBSET (1 .. n)
  PROVE  /\ S \union {n + 1} \in SUBSET (1 .. n + 1)
         /\ Cardinality(S \union {n + 1}) = Cardinality(S) + 1
         /\ UpTo(S \union {n + 1}, n + 1) = S \union {n + 1}
         /\ \A i \in S : UpTo(S \union {n + 1}, i) = UpTo(S, i)
<1>1. /\ \A l \in S : l \in 1 .. n
      /\ n + 1 \notin S /\ IsFiniteSet(S)
  <2>1. IsFiniteSet(S)
    BY UpToFinite
  <2> QED
    BY <2>1
<1>2. Cardinality(S \union {n + 1}) = Cardinality(S) + 1
  BY <1>1, FS_AddElement
<1>3. UpTo(S \union {n + 1}, n + 1) = S \union {n + 1}
  <2>1. \A l \in S \union {n + 1} : l <= n + 1
    BY <1>1
  <2> QED
    BY <2>1 DEF UpTo
<1>4. \A i \in S : UpTo(S \union {n + 1}, i) = UpTo(S, i)
  BY <1>1 DEF UpTo
<1>5. S \union {n + 1} \in SUBSET (1 .. n + 1)
  BY <1>1
<1> QED
  BY <1>2, <1>3, <1>4, <1>5

(* There is a member for every count.                                      *)
LEMMA EveryCount ==
  \A n \in Nat : \A S \in SUBSET (1 .. n) : \A k \in 1 .. Cardinality(S) :
    \E i \in S : Cardinality(UpTo(S, i)) = k
<1> DEFINE T == {n \in Nat :
                   \A S \in SUBSET (1 .. n) : \A k \in 1 .. Cardinality(S) :
                     \E i \in S : Cardinality(UpTo(S, i)) = k}
<1>1. 0 \in T
  <2>1. ASSUME NEW S \in SUBSET (1 .. 0)
        PROVE  Cardinality(S) = 0
    <3>1. S = {}
      OBVIOUS
    <3> QED
      BY <3>1, FS_EmptySet
  <2> QED
    BY <2>1
<1>2. ASSUME NEW n \in T
      PROVE  n + 1 \in T
  <2> SUFFICES ASSUME NEW S \in SUBSET (1 .. n + 1),
                      NEW k \in 1 .. Cardinality(S)
               PROVE  \E i \in S : Cardinality(UpTo(S, i)) = k
    OBVIOUS
  <2>1. CASE n + 1 \notin S
    <3>1. S \in SUBSET (1 .. n)
      BY <2>1
    <3> QED
      BY <3>1
  <2>2. CASE n + 1 \in S
    <3> DEFINE R == S \ {n + 1}
    <3>1. R \in SUBSET (1 .. n) /\ S = R \union {n + 1}
      BY <2>2
    <3> HIDE DEF R
    <3>2. /\ Cardinality(S) = Cardinality(R) + 1 /\ UpTo(S, n + 1) = S
          /\ \A i \in R : UpTo(S, i) = UpTo(R, i)
          /\ Cardinality(R) \in Nat
      BY <3>1, CountBeyond, UpToFinite
    <3>3. CASE k = Cardinality(R) + 1
      BY <2>2, <3>2, <3>3
    <3>4. CASE k \in 1 .. Cardinality(R)
      <4>1. PICK i \in R : Cardinality(UpTo(R, i)) = k
        BY <3>1, <3>4
      <4> QED
        BY <3>1, <3>2, <4>1
    <3> QED
      BY <3>2, <3>3, <3>4
  <2> QED
    BY <2>1, <2>2
<1> HIDE DEF T
<1>3. T = Nat
  <2>1. T \subseteq Nat
    BY DEF T
  <2> QED
    BY <1>1, <1>2, <2>1, NatSetInduction
<1> QED
  BY <1>3 DEF T

(* So that Nth finds a member for every count, and one with that count.    *)
LEMMA NthIn ==
  ASSUME NEW n \in Nat, NEW S \in SUBSET (1 .. n),
         NEW k \in 1 .. Cardinality(S)
  PROVE  Nth(S, k) \in S /\ Cardinality(UpTo(S, Nth(S, k))) = k
<1>1. PICK i \in S : Cardinality(UpTo(S, i)) = k
  BY EveryCount
<1>2. Nth(S, k) = i
  BY <1>1, NthIs
<1> QED
  BY <1>1, <1>2

(* A position beyond all members is the last, and leaves the others.       *)
LEMMA NthBeyond ==
  ASSUME NEW n \in Nat, NEW S \in SUBSET (1 .. n)
  PROVE  LET R == S \union {n + 1}
         IN  /\ R \in SUBSET (1 .. n + 1)
             /\ Cardinality(S) \in Nat
             /\ Cardinality(R) = Cardinality(S) + 1
             /\ Nth(R, Cardinality(S) + 1) = n + 1
             /\ \A k \in 1 .. Cardinality(S) : Nth(R, k) = Nth(S, k)
<1> DEFINE R == S \union {n + 1}
<1>1. /\ R \in SUBSET (1 .. n + 1) /\ Cardinality(R) = Cardinality(S) + 1
      /\ UpTo(R, n + 1) = R /\ \A i \in S : UpTo(R, i) = UpTo(S, i)
      /\ Cardinality(S) \in Nat
  BY CountBeyond, UpToFinite
<1>2. n + 1 \in R /\ S \subseteq R /\ n + 1 \in Nat
  OBVIOUS
<1> HIDE DEF R
<1>3. Nth(R, Cardinality(S) + 1) = n + 1
  BY <1>1, <1>2, NthIs
<1>4. ASSUME NEW k \in 1 .. Cardinality(S)
      PROVE  Nth(R, k) = Nth(S, k)
  <2>1. Nth(S, k) \in S /\ Cardinality(UpTo(S, Nth(S, k))) = k
    BY NthIn
  <2>2. Nth(R, Cardinality(UpTo(R, Nth(S, k)))) = Nth(S, k)
    BY <1>1, <1>2, <2>1, NthIs
  <2> QED
    BY <1>1, <2>1, <2>2
<1> QED
  BY <1>1, <1>3, <1>4 DEF R

-----------------------------------------------------------------------------
(* Its first and its last, and the states of tokenize().                   *)

(* Every set of positions that is not empty has a last and a first one.    *)
LEMMA Extremes ==
  ASSUME NEW n \in Nat, NEW S \in SUBSET (1 .. n), S # {}
  PROVE  /\ Max(S) \in S /\ \A j \in S : j <= Max(S)
         /\ Min(S) \in S /\ \A j \in S : Min(S) <= j
<1>1. /\ IsFiniteSet(S) /\ Cardinality(S) \in Nat \ {0}
      /\ \A j \in S : j \in 1 .. n
  BY UpToFinite
<1>2. \E i \in S : \A j \in S : j <= i
  <2> DEFINE i == Nth(S, Cardinality(S))
  <2>1. i \in S /\ Cardinality(UpTo(S, i)) = Cardinality(S)
    BY <1>1, NthIn
  <2>2. UpTo(S, i) \in SUBSET S
    BY DEF UpTo
  <2>3. UpTo(S, i) = S
    BY <1>1, <2>1, <2>2, FS_Subset
  <2>4. \A j \in S : j <= i
    BY <2>3 DEF UpTo
  <2> QED
    BY <2>1, <2>4
<1>3. \E i \in S : \A j \in S : i <= j
  <2> DEFINE i == Nth(S, 1)
  <2>1. i \in S /\ Cardinality(UpTo(S, i)) = 1
    BY <1>1, NthIn
  <2>2. i \in UpTo(S, i) /\ IsFiniteSet(UpTo(S, i))
    <3> HIDE DEF i
    <3>1. i \in Int /\ i <= i
      BY <1>1, <2>1
    <3>2. \A j : IsFiniteSet(UpTo(S, j))
      BY UpToFinite
    <3> QED
      BY <2>1, <3>1, <3>2 DEF UpTo
  <2>3. \E x : UpTo(S, i) = {x}
    BY <2>1, <2>2, FS_Singleton
  <2>4. UpTo(S, i) = {i}
    BY <2>2, <2>3
  <2>5. ASSUME NEW j \in S
        PROVE  i <= j
    <3>1. i \in 1 .. n /\ j \in 1 .. n
      BY <1>1, <2>1
    <3>2. j <= i => j \in {i}
      BY <2>4 DEF UpTo
    <3> QED
      BY <3>1, <3>2
  <2> QED
    BY <2>1, <2>5
<1> QED
  <2>1. Max(S) \in S /\ \A j \in S : Max(S) >= j
    <3>1. \E x \in S : \A y \in S : x >= y
      BY <1>1, <1>2
    <3> QED
      BY <3>1 DEF Max
  <2>2. Min(S) \in S /\ \A j \in S : Min(S) <= j
    BY <1>3 DEF Min
  <2> QED
    BY <1>1, <2>1, <2>2

(* The last is the one that no other comes after.                          *)
LEMMA MaxIs ==
  ASSUME NEW n \in Nat, NEW S \in SUBSET (1 .. n), NEW i \in S,
         \A j \in S : j <= i
  PROVE  Max(S) = i
<1>1. Max(S) \in S /\ i <= Max(S)
  BY Extremes
<1>2. Max(S) \in 1 .. n /\ i \in 1 .. n /\ Max(S) <= i
  BY <1>1
<1> QED
  BY <1>1, <1>2

-----------------------------------------------------------------------------
(* Tokenize, one character after the other.                                *)
Fresh == [out |-> << >>, current |-> << >>, in_quotes |-> FALSE]

(* What FoldLeft defines by recursion over sets of positions exists.       *)
LEMMA FoldExists ==
  ASSUME NEW line
  PROVE  \A n \in Nat :
           \E f : f = [s \in SUBSET (1 .. n) |->
                         IF s = {} THEN Fresh
                         ELSE Lex(f[s \ {Max(s)}], line[Max(s)])]
<1> DEFINE T == {n \in Nat :
                   \E f : f = [s \in SUBSET (1 .. n) |->
                                 IF s = {} THEN Fresh
                                 ELSE Lex(f[s \ {Max(s)}], line[Max(s)])]}
<1>1. 0 \in T
  <2> DEFINE f == [s \in SUBSET (1 .. 0) |-> Fresh]
  <2>1. \A s \in SUBSET (1 .. 0) : s = {}
    OBVIOUS
  <2>2. f = [s \in SUBSET (1 .. 0) |->
               IF s = {} THEN Fresh
               ELSE Lex(f[s \ {Max(s)}], line[Max(s)])]
    BY <2>1
  <2> HIDE DEF f
  <2> QED
    BY <2>2
<1>2. ASSUME NEW n \in T
      PROVE  n + 1 \in T
  <2>1. PICK f : f = [s \in SUBSET (1 .. n) |->
                        IF s = {} THEN Fresh
                        ELSE Lex(f[s \ {Max(s)}], line[Max(s)])]
    OBVIOUS
  <2>2. /\ f[{}] = Fresh
        /\ \A s \in SUBSET (1 .. n) :
             s # {} => f[s] = Lex(f[s \ {Max(s)}], line[Max(s)])
    <3>1. {} \in SUBSET (1 .. n)
      OBVIOUS
    <3> QED
      BY <2>1, <3>1
  <2> DEFINE g == [s \in SUBSET (1 .. n + 1) |->
                     IF n + 1 \in s THEN Lex(f[s \ {n + 1}], line[n + 1])
                     ELSE f[s]]
  <2>3. ASSUME NEW s \in SUBSET (1 .. n + 1)
        PROVE  g[s] = IF s = {} THEN Fresh
                      ELSE Lex(g[s \ {Max(s)}], line[Max(s)])
    <3>1. CASE n + 1 \in s
      <4>1. n + 1 \in Nat /\ \A j \in s : j <= n + 1
        OBVIOUS
      <4>2. Max(s) = n + 1
        BY <3>1, <4>1, MaxIs
      <4>3. /\ s \ {n + 1} \in SUBSET (1 .. n + 1)
            /\ n + 1 \notin s \ {n + 1}
        OBVIOUS
      <4>4. g[s \ {n + 1}] = f[s \ {n + 1}]
        BY <4>3
      <4>5. g[s] = Lex(f[s \ {n + 1}], line[n + 1])
        BY <3>1
      <4> HIDE DEF g
      <4> QED
        BY <3>1, <4>2, <4>4, <4>5
    <3>2. CASE n + 1 \notin s /\ s = {}
      BY <2>2, <3>2
    <3>3. CASE n + 1 \notin s /\ s # {}
      <4>1. s \in SUBSET (1 .. n)
        BY <3>3
      <4>2. f[s] = Lex(f[s \ {Max(s)}], line[Max(s)])
        BY <2>2, <3>3, <4>1
      <4>3. g[s] = f[s] /\ g[s \ {Max(s)}] = f[s \ {Max(s)}]
        BY <3>3
      <4> HIDE DEF g
      <4> QED
        BY <3>3, <4>2, <4>3
    <3> QED
      BY <3>1, <3>2, <3>3
  <2>4. g = [s \in SUBSET (1 .. n + 1) |->
               IF s = {} THEN Fresh
               ELSE Lex(g[s \ {Max(s)}], line[Max(s)])]
    BY <2>3
  <2>5. n + 1 \in Nat
    OBVIOUS
  <2> HIDE DEF g
  <2> QED
    BY <2>4, <2>5
<1> HIDE DEF T
<1>3. T = Nat
  <2>1. T \subseteq Nat
    BY DEF T
  <2> QED
    BY <1>1, <1>2, <2>1, NatSetInduction
<1> QED
  BY <1>3 DEF T

(* The states of tokenize() before and after every character.              *)
LEMMA LexSteps ==
  ASSUME NEW X, NEW line \in Seq(X)
  PROVE  \E t : /\ t[0] = Fresh
                /\ \A i \in 1 .. Len(line) : t[i] = Lex(t[i - 1], line[i])
                /\ Tokenize(line) = Flush(t[Len(line)]).out
<1> DEFINE n == Len(line)
           f == CHOOSE f : f = [s \in SUBSET (1 .. n) |->
                         IF s = {} THEN Fresh
                         ELSE Lex(f[s \ {Max(s)}], line[Max(s)])]
           t == [i \in 0 .. n |-> f[1 .. i]]
<1>1. n \in Nat /\ DOMAIN line = 1 .. n
  OBVIOUS
<1>2. Tokenize(line) = Flush(f[1 .. n]).out
  BY <1>1 DEF Tokenize, FoldLeft, MapThenFoldSet, Fresh
<1>3. f = [s \in SUBSET (1 .. n) |->
             IF s = {} THEN Fresh ELSE Lex(f[s \ {Max(s)}], line[Max(s)])]
  BY <1>1, FoldExists
<1> HIDE DEF f
<1>4. f[{}] = Fresh
  <2>1. {} \in SUBSET (1 .. n)
    OBVIOUS
  <2> QED
    BY <1>3, <2>1
<1>5. ASSUME NEW i \in 1 .. n
      PROVE  f[1 .. i] = Lex(f[1 .. i - 1], line[i])
  <2>1. 1 .. i \in SUBSET (1 .. n) /\ 1 .. i # {} /\ i \in 1 .. i
    BY <1>1
  <2>2. Max(1 .. i) = i
    <3>1. \A j \in 1 .. i : j <= i
      BY <1>1
    <3> HIDE DEF n
    <3> QED
      BY <1>1, <2>1, <3>1, MaxIs
  <2>3. (1 .. i) \ {i} = 1 .. i - 1
    BY <1>1
  <2> QED
    BY <1>3, <2>1, <2>2, <2>3
<1>6. t[0] = Fresh
  <2>1. 1 .. 0 = {} /\ 0 \in 0 .. n
    BY <1>1
  <2> QED
    BY <1>4, <2>1
<1>7. \A i \in 1 .. n : t[i] = Lex(t[i - 1], line[i])
  BY <1>1, <1>5
<1>8. t[n] = f[1 .. n]
  BY <1>1
<1> HIDE DEF t
<1> QED
  BY <1>2, <1>6, <1>7, <1>8

-----------------------------------------------------------------------------
(* What one more character does to a line.                                 *)

(* The words of a line as it grows.                                        *)
Quotes(line) == {j \in DOMAIN line : line[j] = "q"}
Even(line) == Cardinality(Quotes(line)) % 2 = 0

(* The ink after the last gap; a word is open if there is any.             *)
Late(line) == {i \in Ink(line) : \A j \in Gaps(line) : j < i}

(* A character leaves what is before it as it is.                          *)
LEMMA AppendLine ==
  ASSUME NEW X, NEW l \in Seq(X), NEW ch \in X
  PROVE  LET l2 == Append(l, ch)
             n == Len(l)
         IN  /\ n \in Nat /\ DOMAIN l = 1 .. n
             /\ l2 \in Seq(X) /\ Len(l2) = n + 1 /\ DOMAIN l2 = 1 .. n + 1
             /\ \A i \in 1 .. n : l2[i] = l[i]
             /\ l2[n + 1] = ch
OBVIOUS

(* What it does to the gaps and the ink.                                   *)
LEMMA GapsAndInk ==
  ASSUME NEW X, NEW l \in Seq(X), NEW ch \in X
  PROVE  LET l2 == Append(l, ch)
             m == Len(l) + 1
             gap == ch = "s" /\ Even(l)
         IN  /\ Gaps(l) \in SUBSET (1 .. Len(l))
             /\ Ink(l) \in SUBSET (1 .. Len(l))
             /\ Gaps(l2) = IF gap THEN Gaps(l) \union {m} ELSE Gaps(l)
             /\ Ink(l2) = IF gap \/ ch = "q" THEN Ink(l) ELSE Ink(l) \union {m}
             /\ Even(l2) <=> IF ch = "q" THEN ~Even(l) ELSE Even(l)
<1> DEFINE l2 == Append(l, ch)
           n == Len(l)
           gap == ch = "s" /\ Even(l)
<1>1. /\ n \in Nat /\ DOMAIN l = 1 .. n
      /\ l2 \in Seq(X) /\ Len(l2) = n + 1 /\ DOMAIN l2 = 1 .. n + 1
      /\ \A i \in 1 .. n : l2[i] = l[i]
      /\ l2[n + 1] = ch
  BY AppendLine
<1> HIDE DEF l2, n
<1>2. Gaps(l) \in SUBSET (1 .. n) /\ Ink(l) \in SUBSET (1 .. n)
  BY <1>1 DEF Gaps, Ink
<1>3. \A i \in 1 .. n :
        {j \in 1 .. i : l2[j] = "q"} = {j \in 1 .. i : l[j] = "q"}
  <2> SUFFICES ASSUME NEW i \in 1 .. n
               PROVE  {j \in 1 .. i : l2[j] = "q"}
                        = {j \in 1 .. i : l[j] = "q"}
    OBVIOUS
  <2>1. \A j \in 1 .. i : j \in 1 .. n
    BY <1>1
  <2> QED
    BY <1>1, <2>1
<1>4. Quotes(l2) = IF ch = "q" THEN Quotes(l) \union {n + 1} ELSE Quotes(l)
  <2>1. 1 .. n + 1 = (1 .. n) \union {n + 1} /\ n + 1 \notin 1 .. n
    BY <1>1
  <2> QED
    BY <1>1, <2>1 DEF Quotes
<1>5. Even(l2) <=> IF ch = "q" THEN ~Even(l) ELSE Even(l)
  <2>1. Quotes(l) \in SUBSET (1 .. n)
    BY <1>1 DEF Quotes
  <2>2. /\ Cardinality(Quotes(l)) \in Nat
        /\ Cardinality(Quotes(l) \union {n + 1}) = Cardinality(Quotes(l)) + 1
    BY <1>1, <2>1, UpToFinite, CountBeyond
  <2> QED
    BY <1>4, <2>2 DEF Even
<1>6. ch = "s" => {j \in 1 .. n + 1 : l2[j] = "q"} = Quotes(l)
  <2>1. {j \in 1 .. n + 1 : l2[j] = "q"} = Quotes(l2)
    BY <1>1 DEF Quotes
  <2> QED
    BY <1>4, <2>1
<1>7. Gaps(l2) = IF gap THEN Gaps(l) \union {n + 1} ELSE Gaps(l)
  <2>1. \A i \in 1 .. n : i \in Gaps(l2) <=> i \in Gaps(l)
    <3> SUFFICES ASSUME NEW i \in 1 .. n
                 PROVE  i \in Gaps(l2) <=> i \in Gaps(l)
      OBVIOUS
    <3>1. i \in DOMAIN l /\ i \in DOMAIN l2 /\ l2[i] = l[i]
      BY <1>1
    <3>2. i \in Gaps(l2)
          <=> l2[i] = "s" /\ Cardinality({j \in 1 .. i : l2[j] = "q"}) % 2 = 0
      BY <3>1 DEF Gaps
    <3>3. i \in Gaps(l)
          <=> l[i] = "s" /\ Cardinality({j \in 1 .. i : l[j] = "q"}) % 2 = 0
      BY <3>1 DEF Gaps
    <3>4. {j \in 1 .. i : l2[j] = "q"} = {j \in 1 .. i : l[j] = "q"}
      BY <1>3
    <3> QED
      BY <3>1, <3>2, <3>3, <3>4
  <2>2. n + 1 \in Gaps(l2) <=> gap
    <3>1. n + 1 \in DOMAIN l2
      BY <1>1
    <3>2. n + 1 \in Gaps(l2)
          <=> /\ l2[n + 1] = "s"
              /\ Cardinality({j \in 1 .. n + 1 : l2[j] = "q"}) % 2 = 0
      BY <3>1 DEF Gaps
    <3> QED
      BY <1>1, <1>6, <3>2 DEF Even
  <2>3. Gaps(l2) \subseteq (1 .. n) \union {n + 1} /\ n + 1 \notin 1 .. n
    BY <1>1 DEF Gaps
  <2> HIDE DEF gap
  <2>4. CASE gap
    BY <1>2, <2>1, <2>2, <2>3, <2>4
  <2>5. CASE ~gap
    BY <1>2, <2>1, <2>2, <2>3, <2>5
  <2> QED
    BY <2>4, <2>5
<1>8. Ink(l2) = IF gap \/ ch = "q" THEN Ink(l) ELSE Ink(l) \union {n + 1}
  <2>1. 1 .. n + 1 = (1 .. n) \union {n + 1} /\ n + 1 \notin 1 .. n
    BY <1>1
  <2> HIDE DEF gap
  <2>2. \A i \in 1 .. n : i \in Ink(l2) <=> i \in Ink(l)
    BY <1>1, <1>2, <1>7, <2>1 DEF Ink
  <2>3. n + 1 \in Ink(l2) <=> ~gap /\ ch # "q"
    BY <1>1, <1>2, <1>7, <2>1 DEF Ink
  <2>4. Ink(l2) \subseteq (1 .. n) \union {n + 1}
    BY <1>1, <2>1 DEF Ink
  <2>5. CASE gap \/ ch = "q"
    <3>1. n + 1 \notin Ink(l2)
      BY <2>3, <2>5
    <3>2. Ink(l2) = Ink(l)
      BY <1>2, <2>2, <2>4, <3>1
    <3> QED
      BY <2>5, <3>2
  <2>6. CASE ~(gap \/ ch = "q")
    BY <1>2, <2>1, <2>2, <2>3, <2>4, <2>6
  <2> QED
    BY <2>5, <2>6
<1> QED
  BY <1>2, <1>5, <1>7, <1>8 DEF l2, n

(* How what is at some positions is spelled, before and after ch.          *)
Spells(X, l, ch) ==
  \A S \in SUBSET (1 .. Len(l)) :
    /\ Spelled(l, S) \in Seq(X)
    /\ Spelled(Append(l, ch), S) = Spelled(l, S)
    /\ Spelled(Append(l, ch), S \union {Len(l) + 1})
         = Append(Spelled(l, S), ch)

(* A character spells what it is added to, and leaves the rest.            *)
LEMMA SpelledGrows ==
  ASSUME NEW X, NEW l \in Seq(X), NEW ch \in X
  PROVE  Spells(X, l, ch)
<1> SUFFICES ASSUME NEW S \in SUBSET (1 .. Len(l))
             PROVE  /\ Spelled(l, S) \in Seq(X)
                    /\ Spelled(Append(l, ch), S) = Spelled(l, S)
                    /\ Spelled(Append(l, ch), S \union {Len(l) + 1})
                         = Append(Spelled(l, S), ch)
  BY DEF Spells
<1> DEFINE l2 == Append(l, ch)
           n == Len(l)
           R == S \union {n + 1}
           c == Cardinality(S)
<1>1. /\ n \in Nat /\ DOMAIN l = 1 .. n
      /\ l2 \in Seq(X) /\ Len(l2) = n + 1 /\ DOMAIN l2 = 1 .. n + 1
      /\ \A i \in 1 .. n : l2[i] = l[i]
      /\ l2[n + 1] = ch
  BY AppendLine
<1> HIDE DEF l2, n
<1>2. S \in SUBSET (1 .. n)
  BY DEF n
<1>3. /\ R \in SUBSET (1 .. n + 1) /\ c \in Nat /\ Cardinality(R) = c + 1
      /\ Nth(R, c + 1) = n + 1
      /\ \A k \in 1 .. c : Nth(R, k) = Nth(S, k)
  BY <1>1, <1>2, NthBeyond
<1>4. \A k \in 1 .. c : Nth(S, k) \in 1 .. n
  BY <1>1, <1>2, NthIn
<1> HIDE DEF R, c
<1>5. Spelled(l, S) = [k \in 1 .. c |-> l[Nth(S, k)]]
  BY DEF Spelled, c
<1>6. \A k \in 1 .. c : l[Nth(S, k)] \in X
  BY <1>1, <1>4
<1>7. Spelled(l, S) \in Seq(X) /\ Len(Spelled(l, S)) = c
  BY <1>3, <1>5, <1>6
<1>8. Spelled(l2, S) = Spelled(l, S)
  BY <1>1, <1>4, <1>5 DEF Spelled, c
<1>9. Spelled(l2, R) = Append(Spelled(l, S), ch)
  <2>1. Spelled(l2, R) = [k \in 1 .. c + 1 |-> l2[Nth(R, k)]]
    BY <1>3 DEF Spelled
  <2>2. \A k \in 1 .. c : l2[Nth(R, k)] = Spelled(l, S)[k]
    BY <1>1, <1>3, <1>4, <1>5
  <2>3. l2[Nth(R, c + 1)] = ch
    BY <1>1, <1>3
  <2>4. /\ Append(Spelled(l, S), ch) \in Seq(X)
        /\ Len(Append(Spelled(l, S), ch)) = c + 1
        /\ \A k \in 1 .. c :
             Append(Spelled(l, S), ch)[k] = Spelled(l, S)[k]
        /\ Append(Spelled(l, S), ch)[c + 1] = ch
    BY <1>7
  <2>5. Append(Spelled(l, S), ch)
          = [k \in 1 .. c + 1 |-> Append(Spelled(l, S), ch)[k]]
    <3> DEFINE a == Append(Spelled(l, S), ch)
    <3>1. a \in Seq(X) /\ Len(a) = c + 1
      BY <2>4
    <3> HIDE DEF a
    <3>2. a = [k \in 1 .. c + 1 |-> a[k]]
      BY <3>1
    <3> QED
      BY <3>2 DEF a
  <2>6. \A k \in 1 .. c + 1 : k \in 1 .. c \/ k = c + 1
    BY <1>3
  <2>7. \A k \in 1 .. c + 1 : l2[Nth(R, k)] = Append(Spelled(l, S), ch)[k]
    BY <2>2, <2>3, <2>4, <2>6
  <2> QED
    BY <2>1, <2>5, <2>7
<1> QED
  BY <1>7, <1>8, <1>9 DEF l2, n, R

-----------------------------------------------------------------------------
(* What it does to the words of a line.                                    *)

(* A function that continues a sequence by one value.                      *)
LEMMA Extended ==
  ASSUME NEW Y, NEW a \in Seq(Y), NEW v \in Y, NEW b \in Seq(Y),
         Len(b) = Len(a) + 1,
         \A k \in 1 .. Len(a) : b[k] = a[k], b[Len(a) + 1] = v
  PROVE  b = Append(a, v)
<1> DEFINE d == Append(a, v)
           c == Len(a)
<1>1. /\ c \in Nat /\ d \in Seq(Y) /\ Len(d) = c + 1
      /\ \A k \in 1 .. c : d[k] = a[k]
      /\ d[c + 1] = v
  OBVIOUS
<1> HIDE DEF d
<1>2. \A k \in 1 .. c + 1 : k \in 1 .. c \/ k = c + 1
  BY <1>1
<1> HIDE DEF c
<1>3. \A k \in 1 .. c + 1 : b[k] = d[k]
  BY <1>1, <1>2 DEF c
<1>4. b = d
  BY <1>1, <1>3, SeqEqual DEF c
<1> QED
  BY <1>4 DEF d

(* Where words are.                                                        *)
LEMMA WordPlaces ==
  ASSUME NEW X, NEW l \in Seq(X)
  PROVE  /\ Len(l) \in Nat
         /\ Ink(l) \in SUBSET (1 .. Len(l)) /\ Gaps(l) \in SUBSET (1 .. Len(l))
         /\ Starts(l) \in SUBSET (1 .. Len(l)) /\ Starts(l) \subseteq Ink(l)
         /\ Late(l) \in SUBSET (1 .. Len(l))
         /\ \A i : Word(l, i) \in SUBSET (1 .. Len(l))
<1>1. Ink(l) \in SUBSET (1 .. Len(l)) /\ Gaps(l) \in SUBSET (1 .. Len(l))
  BY DEF Ink, Gaps
<1> QED
  BY <1>1 DEF Starts, Late, Word

(* The words, and how many they are.                                       *)
LEMMA WordsAre ==
  ASSUME NEW X, NEW l \in Seq(X)
  PROVE  LET c == Cardinality(Starts(l))
         IN  /\ c \in Nat /\ Words(l) \in Seq(Seq(X)) /\ Len(Words(l)) = c
             /\ Words(l) = [k \in 1 .. c |->
                              Spelled(l, Word(l, Nth(Starts(l), k)))]
             /\ \A k \in 1 .. c : /\ Nth(Starts(l), k) \in Starts(l)
                                  /\ Nth(Starts(l), k) \in Ink(l)
<1> DEFINE c == Cardinality(Starts(l))
<1>1. /\ Len(l) \in Nat /\ Starts(l) \in SUBSET (1 .. Len(l))
      /\ Starts(l) \subseteq Ink(l)
      /\ \A i : Word(l, i) \in SUBSET (1 .. Len(l))
  BY WordPlaces
<1>2. c \in Nat
  BY <1>1, UpToFinite
<1>3. \A k \in 1 .. c : Nth(Starts(l), k) \in Starts(l)
  BY <1>1, NthIn
<1>4. Words(l) = [k \in 1 .. c |-> Spelled(l, Word(l, Nth(Starts(l), k)))]
  BY DEF Words
<1>5. \A k : Spelled(l, Word(l, Nth(Starts(l), k))) \in Seq(X)
  <2>1. CASE X = {}
    <3>1. Len(l) = 0
      BY <2>1
    <3>2. \A S \in SUBSET (1 .. Len(l)) : Spelled(l, S) = << >>
      <4>1. \A S \in SUBSET (1 .. Len(l)) : S = {}
        BY <3>1
      <4>2. Spelled(l, {}) = << >>
        BY FS_EmptySet DEF Spelled
      <4> QED
        BY <4>1, <4>2
    <3>3. << >> \in Seq(X)
      OBVIOUS
    <3> QED
      BY <1>1, <3>2, <3>3
  <2>2. CASE X # {}
    <3>1. PICK ch \in X : TRUE
      BY <2>2
    <3> QED
      BY <1>1, SpelledGrows DEF Spells
  <2> QED
    BY <2>1, <2>2
<1> HIDE DEF c
<1>6. Words(l) \in Seq(Seq(X)) /\ Len(Words(l)) = c
  BY <1>2, <1>4, <1>5
<1> QED
  BY <1>1, <1>2, <1>3, <1>4, <1>6 DEF c

(* A character that is no ink ends at most a word.                         *)
LEMMA NoInk ==
  ASSUME NEW X, NEW l \in Seq(X), NEW ch \in X,
         ch = "q" \/ (ch = "s" /\ Even(l))
  PROVE  Words(Append(l, ch)) = Words(l)
<1> DEFINE l2 == Append(l, ch)
           m == Len(l) + 1
<1>1. /\ Len(l) \in Nat /\ Ink(l) \in SUBSET (1 .. Len(l))
      /\ Ink(l2) = Ink(l)
      /\ Gaps(l) \subseteq Gaps(l2) /\ Gaps(l2) \subseteq Gaps(l) \union {m}
  BY GapsAndInk
<1> HIDE DEF l2
<1>2. ASSUME NEW i \in Ink(l)
      PROVE  Word(l2, i) = Word(l, i)
  <2>1. ASSUME NEW j \in Ink(l)
        PROVE  (i .. j \union j .. i) \intersect Gaps(l2) = {}
               <=> (i .. j \union j .. i) \intersect Gaps(l) = {}
    <3>1. i \in 1 .. Len(l) /\ j \in 1 .. Len(l)
      BY <1>1
    <3>2. m \notin i .. j \union j .. i
      BY <3>1
    <3> HIDE DEF m
    <3> QED
      BY <1>1, <3>2
  <2> QED
    BY <1>1, <2>1 DEF Word
<1>3. Starts(l2) = Starts(l)
  BY <1>1, <1>2 DEF Starts
<1>4. \A i : Spelled(l2, Word(l, i)) = Spelled(l, Word(l, i))
  <2>1. \A S \in SUBSET (1 .. Len(l)) : Spelled(l2, S) = Spelled(l, S)
    <3>1. Spells(X, l, ch)
      BY SpelledGrows
    <3> QED
      BY <3>1 DEF l2, Spells
  <2>2. \A i : Word(l, i) \in SUBSET (1 .. Len(l))
    BY WordPlaces
  <2> QED
    BY <2>1, <2>2
<1>5. \A k \in 1 .. Cardinality(Starts(l)) : Nth(Starts(l), k) \in Ink(l)
  BY WordsAre
<1>6. \A k \in 1 .. Cardinality(Starts(l)) :
        Spelled(l2, Word(l2, Nth(Starts(l2), k)))
        = Spelled(l, Word(l, Nth(Starts(l), k)))
  BY <1>2, <1>3, <1>4, <1>5
<1>7. Words(l2) = Words(l)
  BY <1>3, <1>6 DEF Words
<1> QED
  BY <1>7 DEF l2

(* Ink belongs to the word that is open, or else to a new one.             *)
LEMMA InkPlaces ==
  ASSUME NEW X, NEW l \in Seq(X), NEW ch \in X,
         ch # "q", ~(ch = "s" /\ Even(l))
  PROVE  LET l2 == Append(l, ch)
             m == Len(l) + 1
         IN  /\ \A i \in Ink(l) :
                  Word(l2, i) = IF i \in Late(l) THEN Word(l, i) \union {m}
                                ELSE Word(l, i)
             /\ Late(l) = {} => Word(l2, m) = {m}
             /\ Starts(l2) = IF Late(l) = {} THEN Starts(l) \union {m}
                             ELSE Starts(l)
<1> DEFINE l2 == Append(l, ch)
           m == Len(l) + 1
<1>1. /\ Len(l) \in Nat /\ Ink(l) \in SUBSET (1 .. Len(l))
      /\ Ink(l2) = Ink(l) \union {m}
      /\ Gaps(l) \in SUBSET (1 .. Len(l)) /\ Gaps(l2) = Gaps(l)
  BY GapsAndInk
<1> HIDE DEF l2
<1>2. \A i \in Ink(l) \union Gaps(l) : i \in 1 .. Len(l) /\ i < m
  BY <1>1
<1>3. m \notin Ink(l) /\ m \notin Gaps(l) /\ m \in Nat
  BY <1>1, <1>2
<1> HIDE DEF m
<1>4. \A i \in Ink(l) :
        (i .. m \union m .. i) \intersect Gaps(l) = {} <=> i \in Late(l)
  <2> SUFFICES ASSUME NEW i \in Ink(l)
               PROVE  (i .. m \union m .. i) \intersect Gaps(l) = {}
                      <=> i \in Late(l)
    OBVIOUS
  <2>1. /\ i \in Int /\ i < m
        /\ \A g \in Gaps(l) : g \in Int /\ g < m
    BY <1>2
  <2>2. \A g \in Gaps(l) : g \in i .. m \union m .. i <=> ~(g < i)
    BY <1>3, <2>1
  <2> QED
    BY <2>2 DEF Late
<1>5. ASSUME NEW i \in Ink(l)
      PROVE  Word(l2, i) = IF i \in Late(l) THEN Word(l, i) \union {m}
                           ELSE Word(l, i)
  <2>1. m \in Word(l2, i) <=> i \in Late(l)
    BY <1>1, <1>4 DEF Word
  <2>2. \A j \in Ink(l) : j \in Word(l2, i) <=> j \in Word(l, i)
    BY <1>1 DEF Word
  <2>3. Word(l2, i) \subseteq Ink(l) \union {m} /\ Word(l, i) \subseteq Ink(l)
    BY <1>1 DEF Word
  <2>4. CASE i \in Late(l)
    BY <1>3, <2>1, <2>2, <2>3, <2>4
  <2>5. CASE i \notin Late(l)
    <3>1. m \notin Word(l2, i)
      BY <2>1, <2>5
    <3>2. Word(l2, i) = Word(l, i)
      BY <2>2, <2>3, <3>1
    <3> QED
      BY <2>5, <3>2
  <2> QED
    BY <2>4, <2>5
<1>6. Word(l2, m) = Late(l) \union {m}
  <2>1. \A i \in Ink(l) : i \in Word(l2, m) <=> i \in Late(l)
    <3>1. \A i : i .. m \union m .. i = m .. i \union i .. m
      OBVIOUS
    <3> QED
      BY <1>1, <1>4, <3>1 DEF Word
  <2>2. m \in Word(l2, m)
    <3>1. m .. m = {m}
      BY <1>3
    <3> QED
      BY <1>1, <1>3, <3>1 DEF Word
  <2>3. Word(l2, m) \subseteq Ink(l) \union {m} /\ Late(l) \subseteq Ink(l)
    BY <1>1 DEF Word, Late
  <2> QED
    BY <1>3, <2>1, <2>2, <2>3
<1>7. Starts(l2) = IF Late(l) = {} THEN Starts(l) \union {m} ELSE Starts(l)
  <2>1. \A i \in Ink(l) : i \in Starts(l2) <=> i \in Starts(l)
    <3> SUFFICES ASSUME NEW i \in Ink(l)
                 PROVE  i \in Starts(l2) <=> i \in Starts(l)
      OBVIOUS
    <3>1. i <= m
      BY <1>2, <1>3
    <3>2. /\ Word(l, i) \subseteq Word(l2, i)
          /\ Word(l2, i) \subseteq Word(l, i) \union {m}
      BY <1>5
    <3> QED
      BY <1>1, <3>1, <3>2 DEF Starts
  <2>2. m \in Starts(l2) <=> Late(l) = {}
    <3>1. m \in Ink(l2) /\ m <= m
      BY <1>1, <1>3
    <3>2. Late(l) = {} => \A j \in Word(l2, m) : m <= j
      BY <1>6, <3>1
    <3>3. ASSUME Late(l) # {}
          PROVE  \E j \in Word(l2, m) : ~(m <= j)
      <4>1. PICK j \in Late(l) : TRUE
        BY <3>3
      <4>2. j \in Word(l2, m) /\ j \in Ink(l)
        BY <1>6 DEF Late
      <4>3. ~(m <= j)
        BY <1>2, <1>3, <4>2
      <4> QED
        BY <4>2, <4>3
    <3> QED
      BY <3>1, <3>2, <3>3 DEF Starts
  <2>3. Starts(l2) \subseteq Ink(l) \union {m} /\ Starts(l) \subseteq Ink(l)
    BY <1>1 DEF Starts
  <2>4. CASE Late(l) = {}
    BY <1>3, <2>1, <2>2, <2>3, <2>4
  <2>5. CASE Late(l) # {}
    <3>1. m \notin Starts(l2)
      BY <2>2, <2>5
    <3>2. Starts(l2) = Starts(l)
      BY <2>1, <2>3, <3>1
    <3> QED
      BY <2>5, <3>2
  <2> QED
    BY <2>4, <2>5
<1>8. Late(l) = {} => Word(l2, m) = {m}
  BY <1>6
<1> QED
  BY <1>5, <1>7, <1>8 DEF l2, m

(* Without an open word ink begins one ...                                 *)
LEMMA InkBegins ==
  ASSUME NEW X, NEW l \in Seq(X), NEW ch \in X,
         ch # "q", ~(ch = "s" /\ Even(l)), Late(l) = {}
  PROVE  Words(Append(l, ch)) = Append(Words(l), << ch >>)
<1>0. Spells(X, l, ch)
  BY SpelledGrows
<1> DEFINE l2 == Append(l, ch)
           n == Len(l)
           S == Starts(l)
           R == S \union {n + 1}
           c == Cardinality(S)
<1>1. /\ \A i \in Ink(l) : Word(l2, i) = Word(l, i)
      /\ Word(l2, n + 1) = {n + 1}
      /\ Starts(l2) = R
  BY InkPlaces
<1>2. /\ n \in Nat /\ S \in SUBSET (1 .. n)
      /\ \A i : Word(l, i) \in SUBSET (1 .. n)
  BY WordPlaces
<1>3. /\ c \in Nat /\ Words(l) \in Seq(Seq(X)) /\ Len(Words(l)) = c
      /\ Words(l) = [k \in 1 .. c |-> Spelled(l, Word(l, Nth(S, k)))]
      /\ \A k \in 1 .. c : Nth(S, k) \in Ink(l)
  BY WordsAre
<1>4. /\ Cardinality(R) = c + 1 /\ Nth(R, c + 1) = n + 1
      /\ \A k \in 1 .. c : Nth(R, k) = Nth(S, k)
  BY <1>2, NthBeyond
<1>6. Spelled(l2, {n + 1}) = << ch >>
  <2>2. Spelled(Append(l, ch), {} \union {Len(l) + 1})
          = Append(Spelled(l, {}), ch)
    <3>1. {} \in SUBSET (1 .. Len(l))
      OBVIOUS
    <3> QED
      BY <1>0, <3>1 DEF Spells
  <2>3. Spelled(l, {}) = << >>
    BY FS_EmptySet DEF Spelled
  <2>4. {} \union {Len(l) + 1} = {Len(l) + 1} /\ Append(<< >>, ch) = << ch >>
    OBVIOUS
  <2> QED
    BY <2>2, <2>3, <2>4
<1> HIDE DEF l2, n, S, R, c
<1>7. Words(l2) = [k \in 1 .. c + 1 |-> Spelled(l2, Word(l2, Nth(R, k)))]
  BY <1>1, <1>4 DEF Words
<1>8. \A k \in 1 .. c :
        Spelled(l2, Word(l2, Nth(R, k))) = Words(l)[k]
  <2> SUFFICES ASSUME NEW k \in 1 .. c
               PROVE  Spelled(l2, Word(l2, Nth(R, k))) = Words(l)[k]
    OBVIOUS
  <2>1. Word(l2, Nth(R, k)) = Word(l, Nth(S, k))
    BY <1>1, <1>3, <1>4
  <2>2. Words(l)[k] = Spelled(l, Word(l, Nth(S, k)))
    BY <1>3
  <2>3. Word(l, Nth(S, k)) \in SUBSET (1 .. Len(l))
    BY <1>2 DEF n
  <2>4. Spelled(l2, Word(l, Nth(S, k))) = Spelled(l, Word(l, Nth(S, k)))
    BY <1>0, <2>3 DEF l2, Spells
  <2> QED
    BY <2>1, <2>2, <2>4
<1>9. Spelled(l2, Word(l2, Nth(R, c + 1))) = << ch >>
  BY <1>1, <1>4, <1>6
<1>10. Words(l2) = Append(Words(l), << ch >>)
  <2>1. /\ \A k \in 1 .. c : Words(l2)[k] = Words(l)[k]
        /\ Words(l2)[c + 1] = << ch >>
    BY <1>3, <1>7, <1>8, <1>9
  <2>2. /\ << ch >> \in Seq(X) /\ l2 \in Seq(X)
        /\ Words(l2) \in Seq(Seq(X)) /\ Len(Words(l2)) = c + 1
    <3>1. << ch >> \in Seq(X) /\ l2 \in Seq(X)
      BY DEF l2
    <3> QED
      BY <1>1, <1>4, <3>1, WordsAre
  <2> QED
    BY <1>3, <2>1, <2>2, Extended
<1> QED
  BY <1>10 DEF l2

(* ... and the last word goes on with it if one is open.                   *)
Continues(X, l, ch) ==
  \A out \in Seq(Seq(X)), w \in Seq(X) :
    Words(l) = Append(out, w)
      => Words(Append(l, ch)) = Append(out, Append(w, ch))

(* Ink right after ink is more of the last word.                           *)
LEMMA InkContinues ==
  ASSUME NEW X, NEW l \in Seq(X), NEW ch \in X,
         ch # "q", ~(ch = "s" /\ Even(l)), Late(l) # {}
  PROVE  Continues(X, l, ch)
<1> SUFFICES ASSUME NEW out \in Seq(Seq(X)), NEW w \in Seq(X),
                    Words(l) = Append(out, w)
             PROVE  Words(Append(l, ch)) = Append(out, Append(w, ch))
  BY DEF Continues
<1>0. Spells(X, l, ch)
  BY SpelledGrows
<1> DEFINE l2 == Append(l, ch)
           n == Len(l)
           S == Starts(l)
           c == Cardinality(S)
           f == Min(Late(l))
<1>1. /\ \A i \in Ink(l) : Word(l2, i) = IF i \in Late(l)
                                         THEN Word(l, i) \union {n + 1}
                                         ELSE Word(l, i)
      /\ Starts(l2) = S
  BY InkPlaces
<1>2. /\ n \in Nat /\ S \in SUBSET (1 .. n) /\ S \subseteq Ink(l)
      /\ \A i : Word(l, i) \in SUBSET (1 .. n)
      /\ Late(l) \in SUBSET (1 .. n) /\ Gaps(l) \in SUBSET (1 .. n)
      /\ Ink(l) \in SUBSET (1 .. n)
  BY WordPlaces
<1>3. /\ c \in Nat /\ Len(Words(l)) = c
      /\ Words(l) = [k \in 1 .. c |-> Spelled(l, Word(l, Nth(S, k)))]
      /\ \A k \in 1 .. c : Nth(S, k) \in S /\ Nth(S, k) \in Ink(l)
  BY WordsAre
<1>4. f \in Late(l) /\ \A j \in Late(l) : f <= j
  BY <1>2, Extremes
<1> HIDE DEF l2, n, S, c, f
<1>6. \A i \in Ink(l) \union Gaps(l) \union S : i \in Int
  BY <1>2
<1>7. f \in Ink(l) /\ f \in Int /\ \A g \in Gaps(l) : g < f
  BY <1>4, <1>6 DEF Late
<1>8. f \in S
  <2>1. ASSUME NEW j \in Word(l, f), ~(f <= j)
        PROVE  FALSE
    <3>1. j \in Ink(l) /\ j \in Int /\ \A g \in Gaps(l) : g \notin j .. f
      BY <1>6 DEF Word
    <3>2. \A g \in Gaps(l) : g < j
      <4> SUFFICES ASSUME NEW g \in Gaps(l)
                   PROVE  g < j
        OBVIOUS
      <4>1. g \in Int /\ g < f /\ g \notin j .. f
        BY <1>6, <1>7, <3>1
      <4> QED
        BY <1>7, <3>1, <4>1
    <3>3. j \in Late(l)
      BY <3>1, <3>2 DEF Late
    <3> QED
      BY <1>4, <2>1, <3>3
  <2> QED
    BY <1>7, <2>1 DEF Starts, S
<1>9. \A i \in S : i <= f
  <2> SUFFICES ASSUME NEW i \in S, ~(i <= f)
               PROVE  FALSE
    OBVIOUS
  <2>1. i \in Int /\ f < i /\ \A j \in Word(l, i) : i <= j
    BY <1>6, <1>7 DEF Starts, S
  <2>2. (i .. f \union f .. i) \intersect Gaps(l) = {}
    BY <1>6, <1>7, <2>1
  <2>3. f \in Word(l, i)
    BY <1>7, <2>2 DEF Word
  <2> QED
    BY <1>7, <2>1, <2>3
<1>10. Cardinality(UpTo(S, f)) = c /\ c >= 1 /\ Nth(S, c) = f
  <2>1. UpTo(S, f) = S
    BY <1>9 DEF UpTo
  <2>2. c >= 1
    <3>1. c # 0
      BY <1>2, <1>8, UpToFinite DEF c
    <3> QED
      BY <1>3, <3>1
  <2> QED
    BY <1>2, <1>8, <2>1, <2>2, NthIs DEF c
<1>11. \A k \in 1 .. c - 1 : Nth(S, k) \notin Late(l)
  <2> SUFFICES ASSUME NEW k \in 1 .. c - 1
               PROVE  Nth(S, k) \notin Late(l)
    OBVIOUS
  <2>1. k \in 1 .. c /\ k # c
    BY <1>3
  <2>2. Nth(S, k) \in S /\ Cardinality(UpTo(S, Nth(S, k))) = k
    BY <1>2, <2>1, NthIn DEF c
  <2>3. Nth(S, k) # f
    BY <1>10, <2>1, <2>2
  <2>4. Nth(S, k) \in Int /\ Nth(S, k) <= f /\ f \in Int
    BY <1>6, <1>7, <1>9, <2>2
  <2> QED
    BY <1>4, <2>3, <2>4
<1>12. Words(l2) = [k \in 1 .. c |-> Spelled(l2, Word(l2, Nth(S, k)))]
  BY <1>1 DEF Words, c
<1>13. \A k \in 1 .. c - 1 :
         Spelled(l2, Word(l2, Nth(S, k))) = Words(l)[k]
  <2> SUFFICES ASSUME NEW k \in 1 .. c - 1
               PROVE  Spelled(l2, Word(l2, Nth(S, k))) = Words(l)[k]
    OBVIOUS
  <2>1. k \in 1 .. c
    BY <1>3
  <2>2. Word(l2, Nth(S, k)) = Word(l, Nth(S, k))
    BY <1>1, <1>3, <1>11, <2>1
  <2> QED
    BY <1>2, <1>3, <1>0, <2>1, <2>2 DEF l2, n, Spells
<1>14. Spelled(l2, Word(l2, Nth(S, c))) = Append(Words(l)[c], ch)
  <2>1. Word(l2, f) = Word(l, f) \union {n + 1}
    BY <1>1, <1>4, <1>7
  <2>2. Spelled(l2, Word(l2, f)) = Append(Spelled(l, Word(l, f)), ch)
    BY <1>2, <1>0, <2>1 DEF l2, n, Spells
  <2>3. Words(l)[c] = Spelled(l, Word(l, f))
    BY <1>3, <1>10
  <2> QED
    BY <1>10, <2>2, <2>3
<1>15. /\ Len(out) = c - 1 /\ Words(l)[c] = w
       /\ \A k \in 1 .. c - 1 : Words(l)[k] = out[k]
  <2>1. /\ Len(Append(out, w)) = Len(out) + 1
        /\ Append(out, w)[Len(out) + 1] = w
        /\ \A k \in 1 .. Len(out) : Append(out, w)[k] = out[k]
        /\ Len(out) \in Nat
    OBVIOUS
  <2>2. Len(out) = c - 1 /\ Len(out) + 1 = c
    BY <1>3, <2>1
  <2> QED
    BY <2>1, <2>2
<1>16. Words(l2) = Append(out, Append(w, ch))
  <2>1. c - 1 \in Nat /\ (c - 1) + 1 = c
    BY <1>3, <1>10
  <2>2. /\ \A k \in 1 .. c - 1 : Words(l2)[k] = out[k]
        /\ Words(l2)[(c - 1) + 1] = Append(w, ch)
    <3>1. /\ \A k \in 1 .. c - 1 : k \in 1 .. c
          /\ c \in 1 .. c
      BY <1>3, <1>10
    <3> QED
      BY <1>12, <1>13, <1>14, <1>15, <2>1, <3>1
  <2>3. /\ Append(w, ch) \in Seq(X)
        /\ Words(l2) \in Seq(Seq(X)) /\ Len(Words(l2)) = c
    <3>1. Append(w, ch) \in Seq(X) /\ l2 \in Seq(X)
      BY DEF l2
    <3> QED
      BY <1>1, <3>1, WordsAre DEF c
  <2> QED
    BY <1>15, <2>1, <2>2, <2>3, Extended
<1> QED
  BY <1>16 DEF l2

-----------------------------------------------------------------------------
(* Both together.                                                          *)

(* The state of tokenize() after the characters l.                         *)
After(X, l, t) ==
  /\ t = [out |-> t.out, current |-> t.current, in_quotes |-> t.in_quotes]
  /\ t.out \in Seq(Seq(X)) /\ t.current \in Seq(X)
  /\ t.in_quotes \in BOOLEAN /\ (t.in_quotes <=> ~Even(l))
  /\ IF Late(l) = {} THEN t.current = << >> /\ Words(l) = t.out
     ELSE t.current # << >> /\ Words(l) = Append(t.out, t.current)

(* Before the first character there is no word.                            *)
LEMMA AfterNothing == ASSUME NEW X PROVE After(X, << >>, Fresh)
<1>1. Gaps(<< >>) = {} /\ Ink(<< >>) = {} /\ Quotes(<< >>) = {}
  BY DEF Gaps, Ink, Quotes
<1>2. Late(<< >>) = {} /\ Starts(<< >>) = {}
  BY <1>1 DEF Late, Starts
<1>3. Words(<< >>) = << >>
  BY <1>2, FS_EmptySet DEF Words
<1>4. Even(<< >>)
  BY <1>1, FS_EmptySet DEF Even
<1> QED
  BY <1>2, <1>3, <1>4 DEF After, Fresh

(* One character more, and one step of the loop.                           *)
LEMMA AfterOneMore ==
  ASSUME NEW X, NEW l \in Seq(X), NEW ch \in X, NEW t, After(X, l, t)
  PROVE  After(X, Append(l, ch), Lex(t, ch))
<1> DEFINE l2 == Append(l, ch)
           m == Len(l) + 1
           gap == ch = "s" /\ Even(l)
<1>1. /\ Gaps(l) \in SUBSET (1 .. Len(l)) /\ Ink(l) \in SUBSET (1 .. Len(l))
      /\ Gaps(l2) = IF gap THEN Gaps(l) \union {m} ELSE Gaps(l)
      /\ Ink(l2) = IF gap \/ ch = "q" THEN Ink(l) ELSE Ink(l) \union {m}
      /\ Even(l2) <=> IF ch = "q" THEN ~Even(l) ELSE Even(l)
  BY GapsAndInk
<1>2. \A i \in Ink(l) \union Gaps(l) : i \in Int /\ i < m
  <2>1. Len(l) \in Nat
    OBVIOUS
  <2> QED
    BY <1>1, <2>1
<1>3. m \in Int
  OBVIOUS
<1> HIDE DEF l2, m
<1>4. CASE ch = "q"
  <2>1. Late(l2) = Late(l)
    BY <1>1, <1>4 DEF Late
  <2>2. Words(l2) = Words(l)
    BY <1>4, NoInk DEF l2
  <2>3. Lex(t, ch) = [t EXCEPT !.in_quotes = ~@]
    BY <1>4 DEF Lex
  <2>4. After(X, l2, Lex(t, ch))
    BY <1>1, <1>4, <2>1, <2>2, <2>3 DEF After
  <2> QED
    BY <2>4 DEF l2
<1>5. CASE gap
  <2>1. Late(l2) = {}
    <3> SUFFICES ASSUME NEW i \in Late(l2)
                 PROVE  FALSE
      OBVIOUS
    <3>1. i \in Ink(l) /\ m < i
      BY <1>1, <1>5 DEF Late
    <3> QED
      BY <1>2, <1>3, <3>1
  <2>2. Words(l2) = Words(l)
    BY <1>5, NoInk DEF l2
  <2>3. Lex(t, ch) = Flush(t)
    BY <1>5 DEF Lex, After
  <2>4. Even(l2) <=> Even(l)
    BY <1>1, <1>5
  <2>5. After(X, l2, Flush(t))
    <3>1. CASE Late(l) = {}
      BY <2>1, <2>2, <2>4, <3>1 DEF After, Flush
    <3>2. CASE Late(l) # {}
      <4>1. /\ t.current # << >> /\ Words(l) = Append(t.out, t.current)
            /\ Words(l) \in Seq(Seq(X))
        BY <3>2, WordsAre DEF After
      <4>2. Flush(t) = [out |-> Words(l), current |-> << >>,
                        in_quotes |-> t.in_quotes]
        BY <4>1 DEF After, Flush
      <4>3. << >> \in Seq(X)
        OBVIOUS
      <4> QED
        BY <2>1, <2>2, <2>4, <4>1, <4>2, <4>3 DEF After
    <3> QED
      BY <3>1, <3>2
  <2> QED
    BY <2>3, <2>5 DEF l2
<1>6. CASE ch # "q" /\ ~gap
  <2>1. m \in Late(l2)
    <3>1. m \in Ink(l2) /\ Gaps(l2) = Gaps(l)
      BY <1>1, <1>6
    <3>2. \A g \in Gaps(l2) : g < m
      BY <1>2, <3>1
    <3> QED
      BY <3>1, <3>2 DEF Late
  <2>2. Lex(t, ch) = [out |-> t.out, current |-> Append(t.current, ch),
                      in_quotes |-> t.in_quotes]
    BY <1>6 DEF Lex, After
  <2>3. Append(t.current, ch) \in Seq(X) /\ Append(t.current, ch) # << >>
    <3>1. t.current \in Seq(X)
      BY DEF After
    <3>2. /\ Append(t.current, ch) \in Seq(X)
          /\ Len(Append(t.current, ch)) = Len(t.current) + 1
          /\ Len(t.current) \in Nat /\ Len(<< >>) = 0
      BY <3>1
    <3> QED
      BY <3>2
  <2>4. Words(l2) = Append(t.out, Append(t.current, ch))
    <3>1. CASE Late(l) = {}
      <4>1. Words(l2) = Append(Words(l), << ch >>)
        BY <1>6, <3>1, InkBegins DEF l2
      <4>2. t.current = << >> /\ Words(l) = t.out
        BY <3>1 DEF After
      <4>3. Append(<< >>, ch) = << ch >>
        OBVIOUS
      <4> QED
        BY <4>1, <4>2, <4>3
    <3>2. CASE Late(l) # {}
      <4>1. /\ t.out \in Seq(Seq(X)) /\ t.current \in Seq(X)
            /\ Words(l) = Append(t.out, t.current)
        BY <3>2 DEF After
      <4>2. Continues(X, l, ch)
        BY <1>6, <3>2, InkContinues
      <4> QED
        BY <4>1, <4>2 DEF Continues, l2
    <3> QED
      BY <3>1, <3>2
  <2>5. Even(l2) <=> Even(l)
    BY <1>1, <1>6
  <2>6. After(X, l2, Lex(t, ch))
    BY <2>1, <2>2, <2>3, <2>4, <2>5 DEF After
  <2> QED
    BY <2>6 DEF l2
<1> QED
  BY <1>4, <1>5, <1>6

(* tokenize() cuts every line into its words: quotes, spaces in them and   *)
(* empty tokens included.                                                  *)
THEOREM TokensAreWords ==
  ASSUME NEW X, NEW line \in Seq(X)
  PROVE  Tokenize(line) = Words(line) /\ Words(line) \in Seq(Seq(X))
<1> DEFINE n == Len(line)
<1>1. PICK t : /\ t[0] = Fresh
               /\ \A i \in 1 .. n : t[i] = Lex(t[i - 1], line[i])
               /\ Tokenize(line) = Flush(t[n]).out
  BY LexSteps
<1> DEFINE T == {i \in Nat : i <= n => After(X, SubSeq(line, 1, i), t[i])}
<1>2. 0 \in T
  <2>1. SubSeq(line, 1, 0) = << >>
    OBVIOUS
  <2> QED
    BY <1>1, <2>1, AfterNothing
<1>3. ASSUME NEW i \in T
      PROVE  i + 1 \in T
  <2> SUFFICES ASSUME i + 1 <= n
               PROVE  After(X, SubSeq(line, 1, i + 1), t[i + 1])
    BY <1>3
  <2>1. i \in Nat /\ n \in Nat /\ i <= n /\ i + 1 \in 1 .. n
    BY <1>3
  <2>2. /\ SubSeq(line, 1, i) \in Seq(X) /\ line[i + 1] \in X
        /\ SubSeq(line, 1, i + 1) = Append(SubSeq(line, 1, i), line[i + 1])
    BY <2>1
  <2>3. t[i + 1] = Lex(t[i], line[i + 1])
    BY <1>1, <2>1
  <2>4. After(X, SubSeq(line, 1, i), t[i])
    BY <1>3, <2>1
  <2> HIDE DEF T
  <2> QED
    BY <2>2, <2>3, <2>4, AfterOneMore
<1> HIDE DEF T
<1>4. T = Nat
  <2>1. T \subseteq Nat
    BY DEF T
  <2> QED
    BY <1>2, <1>3, <2>1, NatSetInduction
<1>5. After(X, line, t[n])
  <2>1. n \in Nat /\ n <= n /\ SubSeq(line, 1, n) = line
    OBVIOUS
  <2> HIDE DEF n
  <2>2. n \in T
    BY <1>4, <2>1
  <2> QED
    BY <2>1, <2>2 DEF T
<1>6. Flush(t[n]).out = Words(line)
  BY <1>5 DEF After, Flush
<1>7. Words(line) \in Seq(Seq(X))
  BY WordsAre
<1> QED
  BY <1>1, <1>6, <1>7
=============================================================================
