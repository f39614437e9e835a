--------------------------- MODULE StartupProofs ----------------------------
(***************************************************************************)
(* Proofs about Startup, for files of any length and of any lines: the types;*)
(* that no line of a file that was accepted is a bad one; and that the     *)
(* configuration, and how the proxy serves, is what the file says.         *)
(***************************************************************************)
EXTENDS Startup, ConfLinesProofs

(* A rate limit is a number, a slash and a unit.                           *)

(* The members of S: those from a to b, then p, then q.                    *)
Places(S, a, b, p, q) ==
  /\ Cardinality(S) = b - a + 3
  /\ \A k \in 1 .. b - a + 1 : Nth(S, k) = a + k - 1
  /\ Nth(S, b - a + 2) = p /\ Nth(S, b - a + 3) = q

(* These are their places.                                                 *)
LEMMA RatePlaces ==
  ASSUME NEW n \in Nat, NEW a \in 1 .. n, NEW b \in a .. n,
         NEW p \in b + 1 .. n, NEW q \in p + 1 .. n
  PROVE  Places(((a .. b) \union {p}) \union {q}, a, b, p, q)
<1> DEFINE I == a .. b
           R == I \union {p}
           S == R \union {q}
<1>1. /\ a \in Nat /\ b \in Nat /\ p \in Nat /\ q \in Nat
      /\ a <= b /\ b < p /\ p < q /\ S \in SUBSET (1 .. n)
  OBVIOUS
<1>2. IsFiniteSet(a .. b) /\ Cardinality(a .. b) = b - a + 1
  BY <1>1, FS_Interval
<1>3. IsFiniteSet(R) /\ Cardinality(R) = b - a + 2
  <2>1. p \notin I /\ IsFiniteSet(I) /\ Cardinality(I) + 1 = b - a + 2
    BY <1>1, <1>2
  <2> HIDE DEF I
  <2> QED
    BY <2>1, FS_AddElement
<1>4. Cardinality(S) = b - a + 3
  <2>1. q \notin R /\ Cardinality(R) + 1 = b - a + 3
    BY <1>1, <1>3
  <2> HIDE DEF R
  <2> QED
    BY <1>3, <2>1, FS_AddElement
<1>5. \A i \in a .. b : UpTo(S, i) = a .. i
  BY <1>1 DEF UpTo
<1>6. UpTo(S, p) = R /\ UpTo(S, q) = S
  BY <1>1 DEF UpTo
<1>7. (a .. b) \subseteq S /\ p \in S /\ q \in S
  OBVIOUS
<1> HIDE DEF S, R
<1>8. \A k \in 1 .. b - a + 1 : Nth(S, k) = a + k - 1
  <2> SUFFICES ASSUME NEW k \in 1 .. b - a + 1
               PROVE  Nth(S, k) = a + k - 1
    OBVIOUS
  <2> DEFINE i == a + k - 1
  <2>1. i \in a .. b /\ i \in Int /\ i - a + 1 = k /\ a <= i
    BY <1>1
  <2> HIDE DEF i
  <2>2. Cardinality(a .. i) = k
    BY <1>1, <2>1, FS_Interval
  <2>3. Nth(S, Cardinality(UpTo(S, i))) = i
    BY <1>1, <1>7, <2>1, NthIs
  <2>4. Nth(S, k) = i
    BY <1>5, <2>1, <2>2, <2>3
  <2> QED
    BY <2>4 DEF i
<1>9. Nth(S, b - a + 2) = p
  <2>1. Nth(S, Cardinality(UpTo(S, p))) = p
    BY <1>1, <1>7, NthIs
  <2> QED
    BY <1>3, <1>6, <2>1
<1>10. Nth(S, b - a + 3) = q
  <2>1. Nth(S, Cardinality(UpTo(S, q))) = q
    BY <1>1, <1>7, NthIs
  <2> QED
    BY <1>4, <1>6, <2>1
<1> QED
  BY <1>4, <1>8, <1>9, <1>10 DEF S, R, Places

(* What trim() leaves of a token.                                          *)
LEMMA Trimmed ==
  ASSUME NEW X, NEW t \in Seq(X), Trim(t) # << >>
  PROVE  \E a, b \in 1 .. Len(t) :
           /\ a <= b /\ Trim(t) = SubSeq(t, a, b)
           /\ t[a] # "s" /\ t[b] # "s"
           /\ \A i \in DOMAIN t : t[i] # "s" => i \in a .. b
<1> DEFINE ink == {i \in DOMAIN t : t[i] # "s"}
<1>1. Len(t) \in Nat /\ DOMAIN t = 1 .. Len(t)
  OBVIOUS
<1>2. ink # {} /\ Trim(t) = SubSeq(t, Min(ink), Max(ink))
  BY DEF Trim
<1>3. ink \in SUBSET (1 .. Len(t))
  BY <1>1
<1>4. /\ Min(ink) \in ink /\ \A j \in ink : Min(ink) <= j
      /\ Max(ink) \in ink /\ \A j \in ink : j <= Max(ink)
  <2> HIDE DEF ink
  <2> QED
    BY <1>1, <1>2, <1>3, Extremes
<1>5. Min(ink) \in 1 .. Len(t) /\ Max(ink) \in 1 .. Len(t)
  BY <1>3, <1>4
<1>6. Min(ink) <= Max(ink)
  BY <1>4
<1>7. \A i \in DOMAIN t : t[i] # "s" => i \in Min(ink) .. Max(ink)
  BY <1>1, <1>4, <1>5
<1>8. t[Min(ink)] # "s" /\ t[Max(ink)] # "s"
  BY <1>4
<1> HIDE DEF ink
<1> QED
  BY <1>2, <1>5, <1>6, <1>7, <1>8

(* A sequence with two more values.                                        *)
LEMMA PairAdded ==
  ASSUME NEW X, NEW x \in Seq(X), NEW y \in X, NEW z \in X
  PROVE  LET w == x \o << y, z >>
             m == Len(x)
         IN  /\ m \in Nat /\ w \in Seq(X) /\ Len(w) = m + 2
             /\ \A k \in 1 .. m : w[k] = x[k]
             /\ w[m + 1] = y /\ w[m + 2] = z
<1> DEFINE v == << y, z >>
           m == Len(x)
<1>1. v \in Seq(X) /\ Len(v) = 2 /\ v[1] = y /\ v[2] = z /\ m \in Nat
  OBVIOUS
<1> HIDE DEF v
<1>2. /\ x \o v \in Seq(X)
      /\ Len(x \o v) = Len(x) + Len(v)
      /\ \A i \in 1 .. Len(x) + Len(v) :
           (x \o v)[i] = IF i <= Len(x) THEN x[i] ELSE v[i - Len(x)]
  BY <1>1, ConcatProperties
<1>3. /\ \A i \in 1 .. m : i \in 1 .. m + 2 /\ i <= m
      /\ m + 1 \in 1 .. m + 2 /\ ~(m + 1 <= m) /\ (m + 1) - m = 1
      /\ m + 2 \in 1 .. m + 2 /\ ~(m + 2 <= m) /\ (m + 2) - m = 2
  BY <1>1
<1> HIDE DEF m
<1> QED
  BY <1>1, <1>2, <1>3 DEF v, m

(* A limit that parse_rate() takes is a number, a slash and a unit.        *)
LEMMA RateForm ==
  ASSUME NEW raw \in Seq(STRING), ParseRate(raw) # << >>
  PROVE  \E n \in Numbers, u \in Units :
           /\ Reads(raw, n, u)
           /\ ParseRate(raw) = << [requests |-> n, window |-> Period(u)] >>
<1> DEFINE len == Len(raw)
           at == {i \in 1 .. Len(raw) : raw[i] = "/"}
           slash == SelectInSeq(raw, LAMBDA ch : ch = "/")
           left == SubSeq(raw, 1, slash - 1)
           right == SubSeq(raw, slash + 1, Len(raw))
           n == Trim(left)
           S == {i \in DOMAIN raw : raw[i] # "s"}
<1>1. /\ slash # 0 /\ n \in Numbers /\ Window(Trim(right)) # 0
      /\ ParseRate(raw) =
           << [requests |-> n, window |-> Window(Trim(right))] >>
  BY DEF ParseRate
<1>2. slash \in 1 .. len /\ raw[slash] = "/" /\ len \in Nat
  <2>1. at # {} /\ slash = Min(at)
    BY <1>1 DEF SelectInSeq
  <2>2. len \in Nat /\ at \in SUBSET (1 .. len)
    OBVIOUS
  <2>3. Min(at) \in at
    <3> HIDE DEF at, len
    <3> QED
      BY <2>1, <2>2, Extremes
  <2> HIDE DEF slash
  <2> QED
    BY <2>1, <2>2, <2>3
<1> HIDE DEF slash
<1>3. /\ left \in Seq(STRING) /\ Len(left) = slash - 1
      /\ \A i \in 1 .. slash - 1 : left[i] = raw[i]
      /\ right \in Seq(STRING) /\ Len(right) = len - slash
      /\ \A i \in 1 .. len - slash : right[i] = raw[slash + i]
  BY <1>2
<1> HIDE DEF left, right
<1>4. PICK a, b \in 1 .. slash - 1 :
        /\ a <= b /\ n = SubSeq(left, a, b)
        /\ \A i \in 1 .. slash - 1 : raw[i] # "s" => i \in a .. b
  <2>1. n # << >>
    BY <1>1, NumbersAssumption
  <2>2. DOMAIN left = 1 .. slash - 1
    BY <1>3
  <2> QED
    BY <1>3, <2>1, <2>2, Trimmed
<1>5. /\ a \in Nat /\ b \in Nat /\ Len(n) = b - a + 1
      /\ \A k \in 1 .. b - a + 1 : n[k] = raw[a + k - 1]
  BY <1>2, <1>3, <1>4
<1> HIDE DEF n
<1>6. \A i \in a .. b : raw[i] # "s"
  <2> SUFFICES ASSUME NEW i \in a .. b
               PROVE  raw[i] # "s"
    OBVIOUS
  <2> DEFINE k == i - a + 1
  <2>1. k \in 1 .. b - a + 1 /\ a + k - 1 = i
    BY <1>5
  <2>2. n[k] = raw[i]
    BY <1>5, <2>1
  <2>3. n \in Seq(STRING) /\ ~Has(n, "s")
    BY <1>1, NumbersAssumption
  <2>4. k \in DOMAIN n
    BY <1>5, <2>1, <2>3
  <2>5. n[k] # "s"
    BY <2>3, <2>4 DEF Has, ToSet
  <2> QED
    BY <2>2, <2>5
<1>7. PICK u \in Units :
        Trim(right) = << u >> /\ Window(Trim(right)) = Period(u)
  <2> DEFINE t == Trim(right)
  <2>1. \/ t \in {<< "s" >>, << "sec" >>, << "second" >>}
        \/ t \in {<< "m" >>, << "min" >>, << "minute" >>}
        \/ t \in {<< "h" >>, << "hour" >>}
    <3> HIDE DEF t
    <3>1. Window(t) # 0
      BY <1>1 DEF t
    <3> QED
      BY <3>1 DEF Window
  <2>2. PICK u \in Units : t = << u >>
    <3> HIDE DEF t
    <3> QED
      BY <2>1 DEF Units
  <2>3. Window(<< u >>) = Period(u)
    BY DEF Window, Period, Units
  <2> HIDE DEF t
  <2> QED
    BY <2>2, <2>3 DEF t
<1>8. PICK c \in 1 .. len - slash :
        /\ right[c] = u /\ u # "s"
        /\ \A i \in 1 .. len - slash : right[i] # "s" => i = c
  <2>1. Trim(right) # << >> /\ DOMAIN right = 1 .. len - slash
    BY <1>3, <1>7
  <2>2. PICK c, d \in 1 .. Len(right) :
          /\ c <= d /\ Trim(right) = SubSeq(right, c, d)
          /\ right[c] # "s" /\ right[d] # "s"
          /\ \A i \in DOMAIN right : right[i] # "s" => i \in c .. d
    BY <1>3, <2>1, Trimmed
  <2>3. /\ Len(SubSeq(right, c, d)) = d - c + 1
        /\ SubSeq(right, c, d)[1] = right[c]
    BY <1>3, <2>2
  <2>4. Len(<< u >>) = 1 /\ << u >>[1] = u
    OBVIOUS
  <2>5. d - c + 1 = 1 /\ right[c] = u
    BY <1>7, <2>2, <2>3, <2>4
  <2>6. c = d
    BY <1>3, <2>5
  <2>7. \A i \in 1 .. len - slash : right[i] # "s" => i = c
    BY <1>2, <2>1, <2>2, <2>6
  <2>8. c \in 1 .. len - slash /\ u # "s"
    BY <1>3, <2>2, <2>5
  <2> QED
    BY <2>5, <2>7, <2>8
<1> DEFINE q == slash + c
<1>9. /\ a \in 1 .. len /\ b \in a .. len /\ slash \in b + 1 .. len
      /\ q \in slash + 1 .. len /\ raw[q] = u
  BY <1>2, <1>3, <1>4, <1>8
<1>10. S = ((a .. b) \union {slash}) \union {q}
  <2>1. ASSUME NEW i \in 1 .. len, raw[i] # "s"
        PROVE  i \in ((a .. b) \union {slash}) \union {q}
    <3>1. CASE i \in 1 .. slash - 1
      BY <1>4, <2>1, <3>1
    <3>2. CASE i > slash
      <4> DEFINE j == i - slash
      <4>1. j \in 1 .. len - slash /\ slash + j = i
        BY <1>2, <3>2
      <4>2. right[j] = raw[i]
        BY <1>3, <4>1
      <4>3. j = c
        BY <1>8, <2>1, <4>1, <4>2
      <4> QED
        BY <4>1, <4>3
    <3> QED
      BY <1>2, <3>1, <3>2
  <2>2. DOMAIN raw = 1 .. len
    OBVIOUS
  <2>3. ((a .. b) \union {slash}) \union {q} \subseteq S
    <3>1. a .. b \subseteq 1 .. len /\ slash \in 1 .. len /\ q \in 1 .. len
      BY <1>2, <1>9
    <3>2. raw[slash] # "s" /\ raw[q] # "s"
      BY <1>2, <1>8, <1>9
    <3> HIDE DEF q, len
    <3> QED
      BY <1>6, <2>2, <3>1, <3>2
  <2> HIDE DEF len, q
  <2> QED
    BY <2>1, <2>2, <2>3
<1> HIDE DEF q, len, S
<1>11. /\ Cardinality(S) = b - a + 3
       /\ \A k \in 1 .. b - a + 1 : Nth(S, k) = a + k - 1
       /\ Nth(S, b - a + 2) = slash /\ Nth(S, b - a + 3) = q
  <2>1. Places(S, a, b, slash, q)
    BY <1>2, <1>9, <1>10, RatePlaces
  <2> QED
    BY <2>1 DEF Places
<1>12. Spelled(raw, S) = n \o << "/", u >>
  <2> DEFINE s == Spelled(raw, S)
             w == n \o << "/", u >>
             m == b - a + 1
  <2>1. m \in Nat /\ b - a + 2 = m + 1 /\ b - a + 3 = m + 2
    BY <1>4, <1>5
  <2>2. /\ \A k \in 1 .. m : raw[Nth(S, k)] = n[k]
        /\ raw[Nth(S, m + 1)] = "/" /\ raw[Nth(S, m + 2)] = u
    BY <1>2, <1>5, <1>9, <1>11, <2>1
  <2>3. /\ n \in Seq(STRING) /\ Len(n) = m
        /\ u \in STRING /\ "/" \in STRING
    <3>1. n \in Seq(STRING)
      BY <1>1, NumbersAssumption
    <3>2. u \in STRING /\ "/" \in STRING
      BY <1>2, <1>9 DEF len
    <3> QED
      BY <1>5, <3>1, <3>2
  <2> HIDE DEF m
  <2>4. /\ w \in Seq(STRING) /\ Len(w) = m + 2
        /\ \A k \in 1 .. m : w[k] = n[k]
        /\ w[m + 1] = "/" /\ w[m + 2] = u
    BY <2>3, PairAdded
  <2>5. s = [k \in 1 .. m + 2 |-> raw[Nth(S, k)]]
    BY <1>11, <2>1 DEF Spelled
  <2> HIDE DEF w, s
  <2>6. \A k \in 1 .. m + 2 : k \in 1 .. m \/ k = m + 1 \/ k = m + 2
    BY <2>1
  <2>7. \A k \in 1 .. m + 2 : s[k] = w[k]
    BY <2>2, <2>4, <2>5, <2>6
  <2>8. s \in Seq(STRING) /\ Len(s) = m + 2
    <3>1. \A k \in 1 .. m + 2 : w[k] \in STRING
      BY <2>4
    <3>2. m + 2 \in Nat
      BY <2>1
    <3> QED
      BY <2>5, <2>7, <3>1, <3>2
  <2>9. s = w
    BY <2>4, <2>7, <2>8, SeqEqual
  <2> QED
    BY <2>9 DEF s, w
<1> QED
  BY <1>1, <1>7, <1>12 DEF S, Reads

-----------------------------------------------------------------------------
(* Lines, directives and types.                                            *)

AllLines == Lines["flyo"] \union Lines["proxy"]

(* Every line of a file is cut into its words.                             *)
LEMMA LineCut ==
  ASSUME NEW line \in AllLines
  PROVE  Tokenize(line) = WordsOf[line] /\ WordsOf[line] \in Seq(Seq(STRING))
<1>1. line \in Seq(STRING)
  BY StartupAssumption DEF AllLines
<1>2. Tokenize(line) = Words(line) /\ Words(line) \in Seq(Seq(STRING))
  BY <1>1, TokensAreWords
<1> QED
  BY <1>2 DEF WordsOf, AllLines

(* What is left of the words of a directive.                               *)
LEMMA Arguments ==
  ASSUME NEW w \in Seq(Seq(STRING)), w # << >>
  PROVE  /\ Tail(w) \in Seq(Seq(STRING)) /\ Len(Tail(w)) = Len(w) - 1
         /\ Len(w) \in Nat
         /\ \A i \in 1 .. Len(w) - 1 : Tail(w)[i] = w[i + 1]
OBVIOUS

(* The three things parse() does with a line whose words are w.            *)
PassedOver(w) ==
  /\ \A k \in DOMAIN Needs : ~Names(w, k)
  /\ UNCHANGED << cfg, st >>

Rejected(w) ==
  /\ st' \in {"bail", "panic"} /\ (prog = "flyo" => st' = "bail")
  /\ UNCHANGED cfg

Taken(w, key) ==
  /\ Names(w, key) /\ Len(Tail(w)) >= Needs[key]
  /\ prog = "proxy" => ~Refused(key, Tail(w))
  /\ cfg' = IF prog = "flyo" THEN WebdSet(cfg, key, Tail(w))
            ELSE ProxySet(cfg, key, Tail(w))
  /\ UNCHANGED st

Parsed(w) ==
  PassedOver(w) \/ Rejected(w) \/ \E key \in DOMAIN Needs : Taken(w, key)

(* parse() reads a line by its words.                                      *)
LEMMA LineStep ==
  ASSUME prog \in {"flyo", "proxy"}, NEW line \in Lines[prog], ReadLine(line)
  PROVE  /\ line \in AllLines /\ st = "reading"
         /\ file' = Append(file, line)
         /\ UNCHANGED << prog, found, served >>
         /\ Parsed(WordsOf[line])
<1>1. line \in AllLines
  BY DEF AllLines
<1>2. Tokenize(line) = WordsOf[line]
  BY <1>1, LineCut
<1> DEFINE w == WordsOf[line]
<1> HIDE DEF w
<1>3. /\ st = "reading" /\ file' = Append(file, line)
      /\ UNCHANGED << prog, found, served >>
      /\ \/ PassOver(w)
         \/ \E key \in DOMAIN Needs :
              Names(w, key) /\ (Reject(key, Tail(w)) \/ Take(key, Tail(w)))
  BY <1>2 DEF ReadLine, w
<1>4. PassOver(w) => PassedOver(w)
  BY DEF PassOver, PassedOver
<1>5. ASSUME NEW key \in DOMAIN Needs, Reject(key, Tail(w))
      PROVE  Rejected(w)
  BY <1>5 DEF Reject, Rejected
<1>6. ASSUME NEW key \in DOMAIN Needs, Names(w, key), Take(key, Tail(w))
      PROVE  Taken(w, key)
  BY <1>6 DEF Take, Taken
<1>7. Parsed(w)
  BY <1>3, <1>4, <1>5, <1>6 DEF Parsed
<1> QED
  BY <1>1, <1>3, <1>7 DEF w

(* A program knows its own directives, and a line has one at most.         *)
LEMMA Directives ==
  ASSUME prog \in {"flyo", "proxy"}
  PROVE  /\ prog = "flyo" => Needs = WebdArgs /\ DOMAIN Needs = WebdKeys
         /\ prog = "proxy" => Needs = ProxyArgs /\ DOMAIN Needs = ProxyKeys
         /\ \A k \in DOMAIN Needs : Needs[k] \in Nat
         /\ \A w, k, j : Names(w, k) /\ Names(w, j) => k = j
<1>1. \A w, k, j : Names(w, k) /\ Names(w, j) => k = j
  BY DEF Names
<1> QED
  BY <1>1 DEF Needs, WebdArgs, ProxyArgs

-----------------------------------------------------------------------------
(* Types.                                                                  *)
SInv == TypeOK /\ file \in Seq(AllLines)

(* An address that is normalised is one still.                             *)
LEMMA Normalized ==
  ASSUME NEW raw \in Seq(STRING)
  PROVE  NormalizeListen(raw) \in Seq(STRING)
<1>1. << "0.0.0.0", ":" >> \in Seq(STRING)
  BY DefaultAssumption
<1>2. << "0.0.0.0", ":" >> \o raw \in Seq(STRING)
  BY <1>1
<1> QED
  BY <1>2 DEF NormalizeListen

(* One directive of flyo.                                                  *)
LEMMA WebdTakeTypes ==
  ASSUME cfg \in WebdConfig, Len(cfg.users) <= 3, NEW key \in WebdKeys,
         NEW args \in Seq(Seq(STRING)), Len(args) >= WebdArgs[key]
  PROVE  /\ WebdSet(cfg, key, args) \in WebdConfig
         /\ Len(WebdSet(cfg, key, args).users) <= 3
<1> DEFINE Users == Seq([perms : SUBSET Permissions, name : Seq(STRING),
                        pass : Seq(STRING)])
<1> HIDE DEF Users
<1>1. /\ \A i \in 1 .. Len(args) : args[i] \in Seq(STRING)
      /\ Len(args) \in Nat
  OBVIOUS
<1>0. WebdConfig = [root : Seq(STRING), listen : Seq(Seq(STRING)),
                    guest : SUBSET Permissions, users : Users,
                    hide_tray : BOOLEAN, browser : Seq(STRING)]
  BY DEF WebdConfig, Users
<1>9. cfg.users \in Users /\ cfg.listen \in Seq(Seq(STRING))
  BY <1>0
<1>2. FromTag(args[1]) \in SUBSET Permissions
  BY DEF FromTag
<1>3. CASE key = "webd.root"
  <2>1. args[1] \in Seq(STRING)
    BY <1>1, <1>3 DEF WebdArgs
  <2>2. WebdSet(cfg, key, args) = [cfg EXCEPT !.root = args[1]]
    BY <1>3 DEF WebdSet
  <2> QED
    BY <1>0, <2>1, <2>2
<1>4. CASE key = "webd.listen"
  <2>1. NormalizeListen(args[1]) \in Seq(STRING)
    BY <1>1, <1>4, Normalized DEF WebdArgs
  <2>2. Append(cfg.listen, NormalizeListen(args[1])) \in Seq(Seq(STRING))
    BY <1>9, <2>1
  <2>3. WebdSet(cfg, key, args)
          = [cfg EXCEPT !.listen = Append(@, NormalizeListen(args[1]))]
    BY <1>4 DEF WebdSet
  <2> QED
    BY <1>0, <2>2, <2>3
<1>5. CASE key = "webd.user"
  <2> DEFINE user == [perms |-> FromTag(args[1]), name |-> args[2],
                      pass |-> args[3]]
             users == AddUser(cfg.users, args)
  <2>1. args[2] \in Seq(STRING) /\ args[3] \in Seq(STRING)
    BY <1>1, <1>5 DEF WebdArgs, WebdKeys
  <2>2. user \in [perms : SUBSET Permissions, name : Seq(STRING),
                  pass : Seq(STRING)]
    BY <1>2, <2>1
  <2>3. users = IF Len(cfg.users) >= 3 THEN cfg.users
                ELSE Append(cfg.users, user)
    BY DEF AddUser
  <2> HIDE DEF user, users
  <2>4. /\ Append(cfg.users, user) \in Users
        /\ Len(Append(cfg.users, user)) = Len(cfg.users) + 1
        /\ Len(cfg.users) \in Nat
    BY <1>9, <2>2 DEF Users
  <2>5. users \in Users /\ Len(users) <= 3
    BY <1>9, <2>3, <2>4
  <2>6. WebdSet(cfg, key, args) = [cfg EXCEPT !.users = users]
    BY <1>5 DEF WebdSet, users
  <2> QED
    BY <1>0, <2>5, <2>6
<1>6. CASE key = "webd.guest"
  <2>1. WebdSet(cfg, key, args) = [cfg EXCEPT !.guest = FromTag(args[1])]
    BY <1>6 DEF WebdSet
  <2> QED
    BY <1>0, <1>2, <2>1
<1>7. CASE key = "webd.hide"
  <2>1. WebdSet(cfg, key, args) = [cfg EXCEPT !.hide_tray = TRUE]
    BY <1>7 DEF WebdSet
  <2> QED
    BY <1>0, <2>1
<1>8. CASE key = "webd.browser"
  <2> DEFINE app == IF args = << >> THEN << >> ELSE args[1]
  <2>1. app \in Seq(STRING)
    <3>1. args # << >> => 1 \in 1 .. Len(args)
      OBVIOUS
    <3> QED
      BY <1>1, <3>1
  <2>2. WebdSet(cfg, key, args) = [cfg EXCEPT !.browser = app]
    BY <1>8 DEF WebdSet
  <2> HIDE DEF app
  <2> QED
    BY <1>0, <2>1, <2>2
<1> QED
  BY <1>3, <1>4, <1>5, <1>6, <1>7, <1>8 DEF WebdKeys

(* The first state is well typed.                                          *)
LEMMA InitTypes == Init => SInv
<1> SUFFICES ASSUME Init
             PROVE  SInv
  OBVIOUS
<1>1. /\ DefaultListen \in Seq(STRING)
      /\ << DefaultListen >> \in Seq(Seq(STRING))
      /\ << DefaultListen >> # << >>
  <2>1. DefaultListen \in Seq(STRING)
    BY DefaultAssumption DEF DefaultListen
  <2> HIDE DEF DefaultListen
  <2> QED
    BY <2>1
<1>2. << "cwd" >> \in Seq(STRING)
  BY DefaultAssumption
<1>3. WebdDefault \in WebdConfig /\ Len(WebdDefault.users) = 0
  BY DEF WebdDefault, WebdConfig, GuestDefault, Permissions
<1>4. WebdNoFile \in WebdConfig /\ Len(WebdNoFile.users) = 0
      /\ WebdNoFile.listen # << >>
  BY <1>1, <1>2, <1>3 DEF WebdNoFile, WebdConfig, WebdDefault
<1> QED
  BY <1>3, <1>4 DEF Init, SInv, TypeOK, NotServed

(* The end of either main(): nothing is bound, or something is served.     *)
LEMMA BindTypes ==
  ASSUME NEW addr, NEW scheme, NEW cert, Bind(addr, scheme, cert),
         scheme \in {"http", "https"}, served = NotServed
  PROVE  /\ st' \in {"bail", "serving"}
         /\ st' = "serving" <=> served' # NotServed
<1>1. CASE st' = "bail" /\ UNCHANGED served
  BY <1>1
<1>2. CASE st' = "serving" /\ served' = [addr |-> addr, scheme |-> scheme,
                                        cert |-> cert]
  <2>1. served'.scheme # NotServed.scheme
    BY <1>2 DEF NotServed
  <2> QED
    BY <1>2, <2>1
<1> QED
  BY <1>1, <1>2 DEF Bind

(* The end of parse() of flyo: there is an address to listen on.           *)
LEMMA EndTypes ==
  ASSUME cfg \in WebdConfig
  PROVE  /\ WebdEnd(cfg) \in WebdConfig /\ WebdEnd(cfg).users = cfg.users
         /\ WebdEnd(cfg).listen # << >>
<1>1. CASE cfg.listen = << >>
  <2> DEFINE only == << DefaultListen >>
  <2>1. only \in Seq(Seq(STRING)) /\ only # << >>
    <3>1. DefaultListen \in Seq(STRING)
      BY DefaultAssumption DEF DefaultListen
    <3> HIDE DEF DefaultListen
    <3> QED
      BY <3>1
  <2>2. WebdEnd(cfg) = [cfg EXCEPT !.listen = only]
    BY <1>1 DEF WebdEnd
  <2> HIDE DEF only
  <2> QED
    BY <2>1, <2>2 DEF WebdConfig
<1>2. CASE cfg.listen # << >>
  BY <1>2 DEF WebdEnd
<1> QED
  BY <1>1, <1>2

(* So is every next one.                                                   *)
LEMMA NextTypes == SInv /\ [Next]_vars => SInv'
<1> SUFFICES ASSUME SInv, [Next]_vars
             PROVE  SInv'
  OBVIOUS
<1> USE DEF SInv, TypeOK, Ended
<1>1. CASE \E line \in Lines[prog] : ReadLine(line)
  <2>1. PICK line \in Lines[prog] : ReadLine(line)
    BY <1>1
  <2> DEFINE w == WordsOf[line]
  <2>2. /\ line \in AllLines /\ st = "reading"
        /\ file' = Append(file, line)
        /\ UNCHANGED << prog, found, served >>
        /\ Parsed(w)
    BY <2>1, LineStep
  <2>3. w \in Seq(Seq(STRING)) /\ file' \in Seq(AllLines)
    BY <2>2, LineCut
  <2> HIDE DEF w
  <2>4. CASE PassedOver(w)
    BY <2>2, <2>3, <2>4 DEF PassedOver
  <2>5. CASE Rejected(w)
    BY <2>2, <2>3, <2>5 DEF Rejected
  <2>6. ASSUME NEW key \in DOMAIN Needs, Taken(w, key)
        PROVE  SInv'
    <3>1. CASE prog = "flyo"
      <4>1. /\ cfg' = WebdSet(cfg, key, Tail(w)) /\ st' = st
            /\ key \in WebdKeys /\ Len(Tail(w)) >= WebdArgs[key]
        BY <2>6, <3>1, Directives DEF Taken
      <4>2. w # << >>
        BY <2>6 DEF Taken, Names
      <4>3. Tail(w) \in Seq(Seq(STRING))
        BY <2>3, <4>2
      <4>4. cfg' \in WebdConfig /\ Len(cfg'.users) <= 3
        BY <3>1, <4>1, <4>3, WebdTakeTypes
      <4> QED
        BY <2>2, <2>3, <3>1, <4>1, <4>4
    <3>2. CASE prog = "proxy"
      BY <2>2, <2>3, <2>6, <3>2 DEF Taken
    <3> QED
      BY <3>1, <3>2
  <2> QED
    BY <2>2, <2>4, <2>5, <2>6 DEF Parsed
<1>2. CASE Unreadable
  BY <1>2 DEF Unreadable
<1>3. CASE EndOfFile
  <2>1. CASE prog = "flyo"
    <3>1. cfg' = WebdEnd(cfg) /\ st = "reading" /\ st' = "parsed"
          /\ UNCHANGED << prog, found, file, served >>
      BY <1>3, <2>1 DEF EndOfFile
    <3>2. cfg' \in WebdConfig /\ Len(cfg'.users) <= 3 /\ cfg'.listen # << >>
      BY <2>1, <3>1, EndTypes
    <3> QED
      BY <2>1, <3>1, <3>2
  <2>2. CASE prog = "proxy"
    BY <1>3, <2>2 DEF EndOfFile
  <2> QED
    BY <2>1, <2>2
<1>4. CASE FlyoMain
  <2>1. /\ st = "parsed" /\ prog = "flyo"
        /\ Bind(cfg.listen[1], "http", "none")
        /\ UNCHANGED << prog, found, file, cfg >>
    BY <1>4 DEF FlyoMain
  <2>2. served = NotServed
    BY <2>1
  <2>3. /\ st' \in {"bail", "serving"}
        /\ st' = "serving" <=> served' # NotServed
    BY <2>1, <2>2, BindTypes
  <2> QED
    BY <2>1, <2>3
<1>5. CASE ProxyMain
  <2>1. /\ st = "parsed" /\ prog = "proxy"
        /\ UNCHANGED << prog, found, file, cfg >>
        /\ \/ st' = "bail" /\ UNCHANGED served
           \/ Bind(cfg.listen, "http", "none")
           \/ Bind(cfg.listen, "https", cfg.tls)
    BY <1>5 DEF ProxyMain
  <2>2. served = NotServed
    BY <2>1
  <2>3. /\ st' \in {"bail", "serving"}
        /\ st' = "serving" <=> served' # NotServed
    BY <2>1, <2>2, BindTypes
  <2> QED
    BY <2>1, <2>3
<1>6. CASE Stopped \/ UNCHANGED vars
  BY <1>6 DEF Stopped, vars
<1> QED
  BY <1>1, <1>2, <1>3, <1>4, <1>5, <1>6 DEF Next

(* Either start is well typed, flyo keeps at most three users, and it never*)
(* comes to bind() without an address.                                     *)
THEOREM StartupTypes == Spec => []TypeOK
<1>1. SInv => TypeOK
  BY DEF SInv
<1> QED
  BY <1>1, InitTypes, NextTypes, PTL DEF Spec

-----------------------------------------------------------------------------
(* Only good lines are taken.                                              *)

(* A line that names no directive has nothing that could be wrong.         *)
LEMMA PassedOverGood ==
  ASSUME NEW w, PassedOver(w)
  PROVE  Good(w)
BY DEF PassedOver, Good

(* A directive that is taken has the arguments it needs, in their form.    *)
LEMMA TakenGood ==
  ASSUME prog \in {"flyo", "proxy"}, NEW w \in Seq(Seq(STRING)),
         NEW key \in DOMAIN Needs, Taken(w, key)
  PROVE  Good(w)
<1>1. /\ Names(w, key) /\ Len(Tail(w)) >= Needs[key]
      /\ prog = "proxy" => ~Refused(key, Tail(w))
  BY DEF Taken
<1>2. /\ Tail(w) \in Seq(Seq(STRING)) /\ Len(Tail(w)) = Len(w) - 1
      /\ Len(w) \in Nat
      /\ \A i \in 1 .. Len(w) - 1 : Tail(w)[i] = w[i + 1]
  <2>1. w # << >>
    BY <1>1 DEF Names
  <2> QED
    BY <2>1, Arguments
<1>3. \A k \in DOMAIN Needs : Names(w, k) => k = key
  BY <1>1, Directives
<1>4. Needs[key] \in Nat /\ Len(w) > Needs[key]
  BY <1>1, <1>2, Directives
<1>5. ASSUME key \in {"proxy.allow", "proxy.block", "proxy.ratelimit"}
      PROVE  /\ prog = "proxy" /\ Tail(w)[1] = w[2] /\ w[2] \in Seq(STRING)
  <2>1. key \notin WebdKeys
    BY <1>5 DEF WebdKeys
  <2>2. prog = "proxy" /\ Needs[key] = 1
    BY <1>5, <2>1, Directives DEF ProxyArgs, ProxyKeys
  <2>3. 1 \in 1 .. Len(w) - 1 /\ 2 \in 1 .. Len(w)
    BY <1>2, <1>4, <2>2
  <2>4. Tail(w)[1] = w[1 + 1]
    BY <1>2, <2>3
  <2> QED
    BY <2>2, <2>3, <2>4
<1>6. key \in {"proxy.allow", "proxy.block"} => w[2] \in Nets
  BY <1>1, <1>5 DEF Refused
<1>7. ASSUME key = "proxy.ratelimit"
      PROVE  \E n \in Numbers, u \in Units : Reads(w[2], n, u)
  <2>1. ParseRate(w[2]) # << >> /\ w[2] \in Seq(STRING)
    BY <1>1, <1>5, <1>7 DEF Refused
  <2> QED
    BY <2>1, RateForm
<1> QED
  BY <1>3, <1>4, <1>6, <1>7 DEF Good

(* Every step keeps the lines good.                                        *)
LEMMA NextGood == SInv /\ StopsAtFirstBad /\ [Next]_vars => StopsAtFirstBad'
<1> SUFFICES ASSUME SInv, StopsAtFirstBad, [Next]_vars
             PROVE  StopsAtFirstBad'
  OBVIOUS
<1>0. /\ prog \in {"flyo", "proxy"} /\ file \in Seq(AllLines)
      /\ Len(file) \in Nat /\ DOMAIN file = 1 .. Len(file)
  BY DEF SInv, TypeOK
<1>1. CASE \E line \in Lines[prog] : ReadLine(line)
  <2>1. PICK line \in Lines[prog] : ReadLine(line)
    BY <1>1
  <2> DEFINE w == WordsOf[line]
  <2>2. /\ line \in AllLines /\ st = "reading"
        /\ file' = Append(file, line)
        /\ prog' = prog
        /\ Parsed(w)
    BY <1>0, <2>1, LineStep
  <2>3. w \in Seq(Seq(STRING))
    BY <2>2, LineCut
  <2>4. /\ Len(file') = Len(file) + 1 /\ DOMAIN file' = 1 .. Len(file) + 1
        /\ \A i \in 1 .. Len(file) : file'[i] = file[i]
        /\ file'[Len(file) + 1] = line
    BY <1>0, <2>2
  <2>5. \A i \in 1 .. Len(file) : Good(WordsOf[file[i]])
    BY <1>0, <2>2 DEF StopsAtFirstBad
  <2>6. Needs' = Needs
    BY <2>2 DEF Needs
  <2>7. Good(w) \/ st' \in {"bail", "panic"}
    BY <1>0, <2>2, <2>3, PassedOverGood, TakenGood DEF Parsed, Rejected
  <2>8. \A i \in DOMAIN file' :
          \/ Good(WordsOf[file'[i]])
          \/ st' \in {"bail", "panic"} /\ i = Len(file')
    <3> SUFFICES ASSUME NEW i \in 1 .. Len(file) + 1
                 PROVE  \/ Good(WordsOf[file'[i]])
                        \/ st' \in {"bail", "panic"} /\ i = Len(file')
      BY <2>4
    <3>1. CASE i \in 1 .. Len(file)
      <4>1. Good(WordsOf[file[i]])
        BY <2>5, <3>1
      <4>2. file'[i] = file[i]
        BY <2>4, <3>1
      <4> QED
        BY <4>1, <4>2
    <3>2. CASE i = Len(file) + 1
      <4>1. file'[i] = line
        BY <2>4, <3>2
      <4> QED
        BY <2>4, <2>7, <3>2, <4>1
    <3> QED
      BY <1>0, <3>1, <3>2
  <2> QED
    BY <2>6, <2>8 DEF StopsAtFirstBad, Good, Names
<1>2. ASSUME UNCHANGED << prog, file >>,
             st' \notin {"bail", "panic"} => st \notin {"bail", "panic"}
      PROVE  StopsAtFirstBad'
  <2>1. Needs' = Needs
    BY <1>2 DEF Needs
  <2> QED
    BY <1>2, <2>1 DEF StopsAtFirstBad, Good, Names
<1>3. CASE Unreadable
  BY <1>3, <1>2 DEF Unreadable
<1>4. CASE EndOfFile
  BY <1>4, <1>2 DEF EndOfFile
<1>5. CASE FlyoMain
  BY <1>5, <1>2 DEF FlyoMain, Bind
<1>6. CASE ProxyMain
  BY <1>6, <1>2 DEF ProxyMain, Bind
<1>7. CASE Stopped \/ UNCHANGED vars
  BY <1>7, <1>2 DEF Stopped, vars
<1> QED
  BY <1>1, <1>3, <1>4, <1>5, <1>6, <1>7 DEF Next

(* parse() never gets past a line that has too few arguments, or a network *)
(* or a rate that is none: what is served was read from good lines only.   *)
THEOREM OnlyGoodLines == Spec => []StopsAtFirstBad
<1>1. Init => StopsAtFirstBad
  BY DEF Init, StopsAtFirstBad
<1> QED
  BY <1>1, InitTypes, NextTypes, NextGood, PTL DEF Spec

-----------------------------------------------------------------------------
(* The lines with a directive, as a list that grows.                       *)

Line == Seq(Seq(STRING))

(* A sequence with one more value.                                         *)
LEMMA AppendIs ==
  ASSUME NEW m \in Nat, NEW s, s = [n \in 1 .. m |-> s[n]], NEW e
  PROVE  Append(s, e) = [n \in 1 .. m + 1 |-> IF n = m + 1 THEN e ELSE s[n]]
<1> DEFINE X == {s[n] : n \in 1 .. m} \union {e}
           t == [n \in 1 .. m + 1 |-> IF n = m + 1 THEN e ELSE s[n]]
<1>1. e \in X /\ \A n \in 1 .. m : s[n] \in X
  OBVIOUS
<1> HIDE DEF X
<1>2. s \in Seq(X) /\ Len(s) = m
  BY <1>1
<1>3. /\ Append(s, e) \in Seq(X) /\ Len(Append(s, e)) = m + 1
      /\ \A n \in 1 .. m : Append(s, e)[n] = s[n]
      /\ Append(s, e)[m + 1] = e
  BY <1>1, <1>2
<1>4. t \in Seq(X) /\ Len(t) = m + 1
  <2> DEFINE M == m + 1
  <2>1. \A n \in 1 .. M : t[n] \in X
    <3>1. \A n \in 1 .. m + 1 : n = m + 1 \/ n \in 1 .. m
      OBVIOUS
    <3> QED
      BY <1>1, <3>1
  <2>2. t = [n \in 1 .. M |-> t[n]] /\ M \in Nat
    OBVIOUS
  <2> HIDE DEF t, M
  <2>3. t \in Seq(X) /\ Len(t) = M
    BY <2>1, <2>2
  <2> QED
    BY <2>3 DEF M
<1>5. \A n \in 1 .. m + 1 : t[n] = Append(s, e)[n]
  <2> SUFFICES ASSUME NEW n \in 1 .. m + 1
               PROVE  t[n] = Append(s, e)[n]
    OBVIOUS
  <2>1. CASE n = m + 1
    BY <1>3, <2>1
  <2>2. CASE n # m + 1
    <3>1. n \in 1 .. m
      BY <2>2
    <3> QED
      BY <1>3, <2>2, <3>1
  <2> QED
    BY <2>1, <2>2
<1> HIDE DEF t
<1>6. Append(s, e) = t
  BY <1>3, <1>4, <1>5, SeqEqual
<1> QED
  BY <1>6 DEF t

(* The lines of f that name k, as a sequence of their words.               *)
OfIn(f, k) == {i \in DOMAIN f : Names(WordsOf[f[i]], k)}

ListIn(f, k) == [n \in 1 .. Cardinality(OfIn(f, k)) |->
                   WordsOf[f[Nth(OfIn(f, k), n)]]]

(* The second word of the last.                                            *)
Said(words) == IF Len(words) > 1 THEN words[2] ELSE << >>

LastSaid(l, default) == IF l = << >> THEN default ELSE Said(l[Len(l)])

(* The list has the lines there are, in their order.                       *)
LEMMA ListTypes ==
  ASSUME NEW f \in Seq(AllLines), NEW k
  PROVE  /\ OfIn(f, k) \in SUBSET (1 .. Len(f)) /\ Len(f) \in Nat
         /\ Cardinality(OfIn(f, k)) \in Nat
         /\ ListIn(f, k) \in Seq(Line)
         /\ Len(ListIn(f, k)) = Cardinality(OfIn(f, k))
         /\ ListIn(f, k) = << >> <=> OfIn(f, k) = {}
<1> DEFINE S == OfIn(f, k)
<1>1. S \in SUBSET (1 .. Len(f)) /\ Len(f) \in Nat
      /\ \A i \in 1 .. Len(f) : f[i] \in AllLines
  BY DEF OfIn
<1> HIDE DEF S
<1>2. Cardinality(S) \in Nat /\ (Cardinality(S) = 0 <=> S = {})
  BY <1>1, UpToFinite
<1>3. \A n \in 1 .. Cardinality(S) : WordsOf[f[Nth(S, n)]] \in Line
  <2> SUFFICES ASSUME NEW n \in 1 .. Cardinality(S)
               PROVE  WordsOf[f[Nth(S, n)]] \in Line
    OBVIOUS
  <2>1. Nth(S, n) \in S
    BY <1>1, NthIn
  <2>2. f[Nth(S, n)] \in AllLines
    BY <1>1, <2>1
  <2> QED
    BY <2>2, LineCut DEF Line
<1>4. ListIn(f, k) = [n \in 1 .. Cardinality(S) |-> WordsOf[f[Nth(S, n)]]]
  BY DEF ListIn, S
<1>5. ListIn(f, k) \in Seq(Line) /\ Len(ListIn(f, k)) = Cardinality(S)
  <2> HIDE DEF Line
  <2> QED
    BY <1>2, <1>3, <1>4
<1>6. ListIn(f, k) = << >> <=> S = {}
  <2> HIDE DEF Line
  <2> QED
    BY <1>2, <1>5
<1> QED
  BY <1>1, <1>2, <1>5, <1>6 DEF S

(* The last of them is the last in the file.                               *)
LEMMA LastIs ==
  ASSUME NEW f \in Seq(AllLines), NEW k, OfIn(f, k) # {}
  PROVE  WordsOf[f[Max(OfIn(f, k))]] = ListIn(f, k)[Len(ListIn(f, k))]
<1> DEFINE S == OfIn(f, k)
<1>1. /\ S \in SUBSET (1 .. Len(f)) /\ Len(f) \in Nat /\ S # {}
      /\ Cardinality(S) \in Nat /\ Len(ListIn(f, k)) = Cardinality(S)
  BY ListTypes
<1>2. ListIn(f, k) = [n \in 1 .. Cardinality(S) |-> WordsOf[f[Nth(S, n)]]]
  BY DEF ListIn
<1> HIDE DEF S
<1>3. Max(S) \in S /\ \A j \in S : j <= Max(S)
  BY <1>1, Extremes
<1>4. UpTo(S, Max(S)) = S
  BY <1>3 DEF UpTo
<1>5. Nth(S, Cardinality(S)) = Max(S)
  BY <1>1, <1>3, <1>4, NthIs
<1>6. Cardinality(S) \in 1 .. Cardinality(S)
  <2>1. Cardinality(S) # 0
    BY <1>1, UpToFinite
  <2> QED
    BY <1>1, <2>1
<1> QED
  BY <1>1, <1>2, <1>5, <1>6 DEF S

(* What a line that is appended adds to the lists.                         *)
Grows(f, g, k, w) ==
  ListIn(g, k) = IF Names(w, k) THEN Append(ListIn(f, k), w) ELSE ListIn(f, k)

(* One more line of the file is one more of the list it belongs to.        *)
LEMMA ListGrows ==
  ASSUME NEW f \in Seq(AllLines), NEW line \in AllLines, NEW k
  PROVE  Grows(f, Append(f, line), k, WordsOf[line])
<1> DEFINE g == Append(f, line)
           w == WordsOf[line]
           S == OfIn(f, k)
           R == OfIn(g, k)
           m == Len(f)
           c == Cardinality(S)
<1>1. /\ m \in Nat /\ g \in Seq(AllLines) /\ DOMAIN g = 1 .. m + 1
      /\ DOMAIN f = 1 .. m /\ g[m + 1] = line
      /\ \A i \in 1 .. m : g[i] = f[i]
  OBVIOUS
<1>2. S \in SUBSET (1 .. m) /\ c \in Nat
  BY ListTypes
<1>3. /\ ListIn(f, k) = [n \in 1 .. c |-> WordsOf[f[Nth(S, n)]]]
      /\ ListIn(g, k) = [n \in 1 .. Cardinality(R) |-> WordsOf[g[Nth(R, n)]]]
  BY DEF ListIn
<1>4. \A n \in 1 .. c : Nth(S, n) \in 1 .. m
  <2> HIDE DEF S, m
  <2> QED
    BY <1>1, <1>2, NthIn
<1>5. R = IF Names(w, k) THEN S \union {m + 1} ELSE S
  <2>1. \A i \in 1 .. m : i \in R <=> i \in S
    BY <1>1 DEF OfIn
  <2>2. m + 1 \in R <=> Names(w, k)
    BY <1>1 DEF OfIn
  <2>3. R \subseteq 1 .. m + 1 /\ S \subseteq 1 .. m
    BY <1>1, <1>2 DEF OfIn
  <2>4. \A i \in 1 .. m + 1 : i \in 1 .. m \/ i = m + 1
    BY <1>1
  <2>5. m + 1 \notin 1 .. m
    BY <1>1
  <2> HIDE DEF R, S, w, m, g
  <2>6. CASE Names(w, k)
    <3>1. R = S \union {m + 1}
      BY <2>1, <2>2, <2>3, <2>4, <2>6
    <3> QED
      BY <2>6, <3>1
  <2>7. CASE ~Names(w, k)
    <3>1. R = S
      BY <2>1, <2>2, <2>3, <2>4, <2>5, <2>7
    <3> QED
      BY <2>7, <3>1
  <2> QED
    BY <2>6, <2>7
<1> HIDE DEF R, g, w
<1>6. CASE ~Names(w, k)
  <2>1. ListIn(g, k) = [n \in 1 .. c |-> WordsOf[g[Nth(S, n)]]]
    BY <1>3, <1>5, <1>6
  <2>2. \A n \in 1 .. c : WordsOf[g[Nth(S, n)]] = WordsOf[f[Nth(S, n)]]
    BY <1>1, <1>4
  <2>3. ListIn(g, k) = ListIn(f, k)
    <3> HIDE DEF S, c
    <3> QED
      BY <1>3, <2>1, <2>2
  <2> QED
    BY <1>6, <2>3 DEF Grows, g, w
<1>7. CASE Names(w, k)
  <2>1. /\ Cardinality(R) = c + 1 /\ Nth(R, c + 1) = m + 1
        /\ \A n \in 1 .. c : Nth(R, n) = Nth(S, n)
    <3>1. R = S \union {m + 1}
      BY <1>5, <1>7
    <3> HIDE DEF S, m
    <3> QED
      BY <1>1, <1>2, <3>1, NthBeyond
  <2> DEFINE l == ListIn(f, k)
  <2>2. /\ l = [n \in 1 .. c |-> l[n]]
        /\ \A n \in 1 .. c : l[n] = WordsOf[f[Nth(S, n)]]
    <3> HIDE DEF c, S
    <3> QED
      BY <1>3
  <2>3. ListIn(g, k) = [n \in 1 .. c + 1 |-> WordsOf[g[Nth(R, n)]]]
    BY <1>3, <2>1
  <2> HIDE DEF l, c, S, m
  <2>4. Append(l, w) = [n \in 1 .. c + 1 |-> IF n = c + 1 THEN w ELSE l[n]]
    BY <1>2, <2>2, AppendIs
  <2>5. \A n \in 1 .. c + 1 :
          WordsOf[g[Nth(R, n)]] = IF n = c + 1 THEN w ELSE l[n]
    <3> SUFFICES ASSUME NEW n \in 1 .. c + 1
                 PROVE  WordsOf[g[Nth(R, n)]] = IF n = c + 1 THEN w ELSE l[n]
      OBVIOUS
    <3>1. CASE n = c + 1
      BY <1>1, <2>1, <3>1 DEF w
    <3>2. CASE n # c + 1
      <4>1. n \in 1 .. c
        BY <1>2, <3>2
      <4>2. Nth(R, n) = Nth(S, n) /\ g[Nth(S, n)] = f[Nth(S, n)]
        BY <1>1, <1>4, <2>1, <4>1
      <4> QED
        BY <2>2, <3>2, <4>1, <4>2
    <3> QED
      BY <3>1, <3>2
  <2>6. ListIn(g, k) = Append(l, w)
    BY <2>3, <2>4, <2>5
  <2> QED
    BY <1>7, <2>6 DEF Grows, g, w, l
<1> QED
  BY <1>6, <1>7

-----------------------------------------------------------------------------
(* What the directives of a file add up to.                                *)

UserSaid(w) == [perms |-> Granted(w[2]), name |-> w[3], pass |-> w[4]]

FirstThree(l) == [n \in {i \in 1 .. Len(l) : i <= 3} |-> UserSaid(l[n])]

Listens(l) == [n \in 1 .. Len(l) |-> NormalizeListen(l[n][2])]

Seconds(l) == [n \in 1 .. Len(l) |-> l[n][2]]

(* What the last line says of a rate, of a path and of the names.          *)
Rated(r, l) ==
  IF l = << >> THEN r = << >>
  ELSE \E n \in Numbers, u \in Units :
         /\ Reads(Said(l[Len(l)]), n, u)
         /\ r = << [requests |-> n, window |-> Period(u)] >>

PathSaid(l) == IF l = << >> THEN << >> ELSE << Said(l[Len(l)]) >>

NamesOn(w) == IF Len(w) = 1 THEN << << "localhost" >> >> ELSE Tail(w)

NamesSaid(l) == IF l = << >> THEN << >> ELSE NamesOn(l[Len(l)])

(* Where flyo serves from if its file does not say.                        *)
Home == IF found THEN << >> ELSE << "cwd" >>

(* A configuration c of flyo is what the file f says, or else the          *)
(* directory d.                                                            *)
FlyoSays(c, f, d) ==
  /\ c.root = LastSaid(ListIn(f, "webd.root"), d)
  /\ c.guest = Granted(LastSaid(ListIn(f, "webd.guest"), << "r", "l" >>))
  /\ c.browser = LastSaid(ListIn(f, "webd.browser"), << >>)
  /\ c.hide_tray <=> ListIn(f, "webd.hide") # << >>
  /\ c.users = FirstThree(ListIn(f, "webd.user"))

FlyoListens(c, f) == c.listen = Listens(ListIn(f, "webd.listen"))

(* The same of the proxy.                                                  *)
ProxySays(c, f) ==
  /\ c.listen = NormalizeListen(LastSaid(ListIn(f, "proxy.listen"),
                                         << "0.0.0.0", ":", "8443" >>))
  /\ c.upstream = LastSaid(ListIn(f, "proxy.upstream"),
                           << "http://", "127.0.0.1", ":", "9212" >>)
  /\ Rated(c.rate_limit, ListIn(f, "proxy.ratelimit"))
  /\ c.allow = Seconds(ListIn(f, "proxy.allow"))
  /\ c.block = Seconds(ListIn(f, "proxy.block"))
  /\ c.log_level = LastSaid(ListIn(f, "proxy.loglevel"), << "info" >>)
  /\ c.cert = PathSaid(ListIn(f, "proxy.cert"))
  /\ c.key = PathSaid(ListIn(f, "proxy.key"))
  /\ c.selfsigned = NamesSaid(ListIn(f, "proxy.selfsigned"))
  /\ c.selfsigned # << >> <=> ListIn(f, "proxy.selfsigned") # << >>

ProxyShape(c) ==
  c = [listen |-> c.listen, upstream |-> c.upstream, allow |-> c.allow,
       block |-> c.block, rate_limit |-> c.rate_limit,
       log_level |-> c.log_level, cert |-> c.cert, key |-> c.key,
       selfsigned |-> c.selfsigned, tls |-> c.tls]

(* What one more line of a directive says.                                 *)
LEMMA Added ==
  ASSUME NEW l \in Seq(Line), NEW w \in Line
  PROVE  /\ Append(l, w) # << >> /\ Append(l, w) \in Seq(Line)
         /\ \A d : LastSaid(Append(l, w), d) = Said(w)
         /\ PathSaid(Append(l, w)) = << Said(w) >>
         /\ NamesSaid(Append(l, w)) = NamesOn(w)
         /\ \A n \in Numbers, u \in Units :
              Reads(Said(w), n, u)
              => Rated(<< [requests |-> n, window |-> Period(u)] >>,
                       Append(l, w))
         /\ Listens(Append(l, w)) = Append(Listens(l), NormalizeListen(w[2]))
         /\ Seconds(Append(l, w)) = Append(Seconds(l), w[2])
         /\ Len(l) >= 3 => FirstThree(Append(l, w)) = FirstThree(l)
         /\ Len(l) < 3 =>
              FirstThree(Append(l, w)) = Append(FirstThree(l), UserSaid(w))
<1> HIDE DEF Line
<1> DEFINE m == Len(l)
           a == Append(l, w)
<1>1. /\ m \in Nat /\ a \in Seq(Line) /\ Len(a) = m + 1 /\ a[m + 1] = w
      /\ \A n \in 1 .. m : a[n] = l[n]
      /\ a # << >>
  OBVIOUS
<1> HIDE DEF m, a
<1>2. \A d : LastSaid(a, d) = Said(w)
  BY <1>1 DEF LastSaid
<1>8. /\ PathSaid(a) = << Said(w) >> /\ NamesSaid(a) = NamesOn(w)
      /\ \A n \in Numbers, u \in Units :
           Reads(Said(w), n, u)
           => Rated(<< [requests |-> n, window |-> Period(u)] >>, a)
  <2>1. a # << >> /\ a[Len(a)] = w
    BY <1>1
  <2> QED
    BY <2>1 DEF PathSaid, NamesSaid, Rated
<1>3. /\ \A n \in 1 .. m + 1 : n = m + 1 \/ n \in 1 .. m
      /\ m + 1 \notin 1 .. m
  BY <1>1
<1>4. Listens(a) = Append(Listens(l), NormalizeListen(w[2]))
  <2> DEFINE s == Listens(l)
             e == NormalizeListen(w[2])
  <2>1. s = [n \in 1 .. m |-> s[n]]
        /\ \A n \in 1 .. m : s[n] = NormalizeListen(l[n][2])
    BY DEF Listens, m
  <2>2. Listens(a) = [n \in 1 .. m + 1 |-> NormalizeListen(a[n][2])]
    BY <1>1 DEF Listens
  <2>3. a[m + 1][2] = w[2]
    BY <1>1
  <2> HIDE DEF s
  <2>4. Append(s, e) = [n \in 1 .. m + 1 |-> IF n = m + 1 THEN e ELSE s[n]]
    BY <1>1, <2>1, AppendIs
  <2>5. \A n \in 1 .. m + 1 :
          NormalizeListen(a[n][2]) = IF n = m + 1 THEN e ELSE s[n]
    BY <1>1, <1>3, <2>1, <2>3
  <2> QED
    BY <2>2, <2>4, <2>5 DEF s
<1>5. Seconds(a) = Append(Seconds(l), w[2])
  <2> DEFINE s == Seconds(l)
             e == w[2]
  <2>1. s = [n \in 1 .. m |-> s[n]] /\ \A n \in 1 .. m : s[n] = l[n][2]
    BY DEF Seconds, m
  <2>2. Seconds(a) = [n \in 1 .. m + 1 |-> a[n][2]]
    BY <1>1 DEF Seconds
  <2> HIDE DEF s
  <2>4. Append(s, e) = [n \in 1 .. m + 1 |-> IF n = m + 1 THEN e ELSE s[n]]
    BY <1>1, <2>1, AppendIs
  <2>5. \A n \in 1 .. m + 1 : a[n][2] = IF n = m + 1 THEN e ELSE s[n]
    BY <1>1, <1>3, <2>1
  <2> QED
    BY <2>2, <2>4, <2>5 DEF s
<1>6. ASSUME m >= 3
      PROVE  FirstThree(a) = FirstThree(l)
  <2>1. {i \in 1 .. Len(a) : i <= 3} = {i \in 1 .. m : i <= 3}
    BY <1>1, <1>6
  <2>2. \A n \in {i \in 1 .. m : i <= 3} : UserSaid(a[n]) = UserSaid(l[n])
    BY <1>1
  <2>3. FirstThree(a) = [n \in {i \in 1 .. m : i <= 3} |-> UserSaid(a[n])]
    BY <2>1 DEF FirstThree
  <2>4. FirstThree(l) = [n \in {i \in 1 .. m : i <= 3} |-> UserSaid(l[n])]
    BY DEF FirstThree, m
  <2> QED
    BY <2>2, <2>3, <2>4
<1>7. ASSUME m < 3
      PROVE  FirstThree(a) = Append(FirstThree(l), UserSaid(w))
  <2> DEFINE s == FirstThree(l)
             e == UserSaid(w)
  <2>1. /\ {i \in 1 .. Len(a) : i <= 3} = 1 .. m + 1
        /\ {i \in 1 .. m : i <= 3} = 1 .. m
    BY <1>1, <1>7
  <2>2. s = [n \in 1 .. m |-> UserSaid(l[n])]
    BY <2>1 DEF FirstThree, m
  <2>3. FirstThree(a) = [n \in 1 .. m + 1 |-> UserSaid(a[n])]
    BY <2>1 DEF FirstThree
  <2> HIDE DEF s, e
  <2>4. s = [n \in 1 .. m |-> s[n]] /\ \A n \in 1 .. m : s[n] = UserSaid(l[n])
    BY <2>2
  <2>5. Append(s, e) = [n \in 1 .. m + 1 |-> IF n = m + 1 THEN e ELSE s[n]]
    BY <1>1, <2>4, AppendIs
  <2>6. \A n \in 1 .. m + 1 : UserSaid(a[n]) = IF n = m + 1 THEN e ELSE s[n]
    BY <1>1, <1>3, <2>4 DEF e
  <2> QED
    BY <2>3, <2>5, <2>6 DEF s, e
<1> QED
  BY <1>1, <1>2, <1>8, <1>4, <1>5, <1>6, <1>7 DEF m, a

(* A tag and the permissions it grants.                                    *)
LEMMA TagGrants ==
  ASSUME NEW tag
  PROVE  FromTag(tag) = Granted(tag)
<1>1. CASE tag = << "0" >>
  <2>1. ToSet(tag) = {"0"}
    BY <1>1 DEF ToSet
  <2>2. "0" \notin Permissions
    BY DEF Permissions
  <2> QED
    BY <1>1, <2>1, <2>2 DEF FromTag, Granted, Has
<1>2. CASE tag # << "0" >>
  BY <1>2 DEF FromTag, Granted, Has
<1> QED
  BY <1>1, <1>2

(* One directive of flyo.                                                  *)
LEMMA FlyoTake ==
  ASSUME NEW c \in WebdConfig, NEW f \in Seq(AllLines), NEW g,
         NEW dir, FlyoSays(c, f, dir), FlyoListens(c, f), NEW w \in Line,
         NEW key \in WebdKeys, Names(w, key), Len(Tail(w)) >= WebdArgs[key],
         \A k \in WebdKeys : Grows(f, g, k, w)
  PROVE  /\ FlyoSays(WebdSet(c, key, Tail(w)), g, dir)
         /\ FlyoListens(WebdSet(c, key, Tail(w)), g)
<1> DEFINE d == WebdSet(c, key, Tail(w))
           L(k) == ListIn(f, k)
           G(k) == ListIn(g, k)
<1>1. /\ \A k \in WebdKeys : k # key => G(k) = L(k)
      /\ G(key) = Append(L(key), w)
  BY DEF Grows, Names
<1>2. L(key) \in Seq(Line)
  BY ListTypes
<1>3. w \in Seq(Seq(STRING)) /\ w # << >>
  BY DEF Line, Names
<1>4. /\ Len(Tail(w)) = Len(w) - 1 /\ Len(w) \in Nat
      /\ \A i \in 1 .. Len(w) - 1 : Tail(w)[i] = w[i + 1]
  BY <1>3
<1>5. /\ Len(w) > 1 => Tail(w)[1] = w[2]
      /\ Len(w) > 3 => Tail(w)[2] = w[3] /\ Tail(w)[3] = w[4]
      /\ Tail(w) = << >> <=> ~(Len(w) > 1)
  <2>1. Len(w) > 1 => 1 \in 1 .. Len(w) - 1
    BY <1>4
  <2>2. Len(w) > 3 => 2 \in 1 .. Len(w) - 1 /\ 3 \in 1 .. Len(w) - 1
    BY <1>4
  <2>3. Tail(w) = << >> <=> Len(Tail(w)) = 0
    <3> DEFINE t == Tail(w)
    <3>1. t \in Seq(Seq(STRING))
      BY <1>3
    <3> HIDE DEF t
    <3>2. t = << >> <=> Len(t) = 0
      BY <3>1
    <3> QED
      BY <3>2 DEF t
  <2> QED
    BY <1>4, <2>1, <2>2, <2>3
<1>6. /\ \A x : LastSaid(G(key), x) = Said(w)
      /\ G(key) # << >>
      /\ Listens(G(key)) = Append(Listens(L(key)), NormalizeListen(w[2]))
      /\ Len(L(key)) >= 3 => FirstThree(G(key)) = FirstThree(L(key))
      /\ Len(L(key)) < 3 =>
              FirstThree(G(key)) = Append(FirstThree(L(key)), UserSaid(w))
  BY <1>1, <1>2, Added
<1>7. /\ key # "webd.hide" /\ key # "webd.browser" => Len(w) > 1
      /\ key = "webd.user" => Len(w) > 3
  BY <1>4 DEF WebdArgs, WebdKeys
<1>8. {"webd.root", "webd.listen", "webd.user", "webd.guest", "webd.hide",
       "webd.browser"} = WebdKeys
  BY DEF WebdKeys
<1> HIDE DEF L, G, d
<1>10. /\ FlyoSays(c, f, dir) <=>
          /\ c.root = LastSaid(L("webd.root"), dir)
          /\ c.guest = Granted(LastSaid(L("webd.guest"), << "r", "l" >>))
          /\ c.browser = LastSaid(L("webd.browser"), << >>)
          /\ c.hide_tray <=> L("webd.hide") # << >>
          /\ c.users = FirstThree(L("webd.user"))
       /\ FlyoListens(c, f) <=> c.listen = Listens(L("webd.listen"))
  BY DEF FlyoSays, FlyoListens, L
<1>11. /\ FlyoSays(d, g, dir) <=>
          /\ d.root = LastSaid(G("webd.root"), dir)
          /\ d.guest = Granted(LastSaid(G("webd.guest"), << "r", "l" >>))
          /\ d.browser = LastSaid(G("webd.browser"), << >>)
          /\ d.hide_tray <=> G("webd.hide") # << >>
          /\ d.users = FirstThree(G("webd.user"))
       /\ FlyoListens(d, g) <=> d.listen = Listens(G("webd.listen"))
  BY DEF FlyoSays, FlyoListens, G
<1>12. /\ FlyoSays(d, g, dir) /\ FlyoListens(d, g)
  <2> USE <1>1, <1>8, <1>10, <1>11
  <2>1. CASE key = "webd.root"
    <3>1. d = [c EXCEPT !.root = w[2]]
      BY <1>5, <1>7, <2>1 DEF WebdSet, d
    <3>2. LastSaid(G("webd.root"), dir) = w[2]
      BY <1>6, <1>7, <2>1 DEF Said
    <3> QED
      BY <2>1, <3>1, <3>2 DEF WebdConfig
  <2>2. CASE key = "webd.listen"
    <3>1. d = [c EXCEPT !.listen = Append(c.listen, NormalizeListen(w[2]))]
      BY <1>5, <1>7, <2>2 DEF WebdSet, d
    <3> QED
      BY <1>6, <2>2, <3>1 DEF WebdConfig
  <2>3. CASE key = "webd.user"
    <3>1. d = [c EXCEPT !.users = AddUser(c.users, Tail(w))]
      BY <2>3 DEF WebdSet, d
    <3> DEFINE l == L("webd.user")
    <3>2. AddUser(c.users, Tail(w)) = IF Len(c.users) >= 3 THEN c.users
                                      ELSE Append(c.users, UserSaid(w))
      BY <1>5, <1>7, <2>3, TagGrants DEF AddUser, UserSaid
    <3>3. Len(c.users) >= 3 <=> Len(l) >= 3
      <4>1. c.users = FirstThree(l) /\ l \in Seq(Line)
        BY <1>2, <2>3
      <4>2. Len(c.users) \in Nat /\ DOMAIN c.users = 1 .. Len(c.users)
        BY DEF WebdConfig
      <4>3. DOMAIN FirstThree(l) = {i \in 1 .. Len(l) : i <= 3}
        BY DEF FirstThree
      <4>4. Len(l) \in Nat
        BY <4>1
      <4> HIDE DEF l
      <4> DEFINE m == Len(l)
                 u == Len(c.users)
      <4>5. 1 .. u = {i \in 1 .. m : i <= 3} /\ u \in Nat /\ m \in Nat
        BY <4>1, <4>2, <4>3, <4>4
      <4> HIDE DEF u, m
      <4>6. 3 \in {i \in 1 .. m : i <= 3} <=> 3 \in 1 .. m
        OBVIOUS
      <4>7. 3 \in 1 .. u <=> 3 \in 1 .. m
        BY <4>5, <4>6
      <4>8. u >= 3 <=> m >= 3
        BY <4>5, <4>7
      <4> QED
        BY <4>8 DEF u, m
    <3>4. Len(l) \in Nat /\ Len(c.users) \in Nat
      BY <1>2, <2>3 DEF WebdConfig
    <3>5. AddUser(c.users, Tail(w)) = FirstThree(G("webd.user"))
      <4>1. CASE Len(l) >= 3
        BY <1>6, <2>3, <3>2, <3>3, <4>1
      <4>2. CASE Len(l) < 3
        BY <1>6, <2>3, <3>2, <3>3, <3>4, <4>2
      <4> QED
        BY <3>4, <4>1, <4>2
    <3> QED
      BY <2>3, <3>1, <3>5 DEF WebdConfig
  <2>4. CASE key = "webd.guest"
    <3>1. d = [c EXCEPT !.guest = Granted(w[2])]
      BY <1>5, <1>7, <2>4, TagGrants DEF WebdSet, d
    <3>2. LastSaid(G("webd.guest"), << "r", "l" >>) = w[2]
      BY <1>6, <1>7, <2>4 DEF Said
    <3> QED
      BY <2>4, <3>1, <3>2 DEF WebdConfig
  <2>5. CASE key = "webd.hide"
    <3>1. d = [c EXCEPT !.hide_tray = TRUE]
      BY <2>5 DEF WebdSet, d
    <3> QED
      BY <1>6, <2>5, <3>1 DEF WebdConfig
  <2>6. CASE key = "webd.browser"
    <3>1. d = [c EXCEPT !.browser = Said(w)]
      BY <1>5, <2>6 DEF WebdSet, d, Said
    <3>2. LastSaid(G("webd.browser"), << >>) = Said(w)
      BY <1>6, <2>6
    <3> QED
      BY <2>6, <3>1, <3>2 DEF WebdConfig
  <2> QED
    BY <2>1, <2>2, <2>3, <2>4, <2>5, <2>6 DEF WebdKeys
<1> QED
  BY <1>12 DEF d

(* One directive of the proxy.                                             *)
LEMMA ProxyTake ==
  ASSUME NEW c, ProxyShape(c), NEW f \in Seq(AllLines), NEW g,
         ProxySays(c, f), NEW w \in Line,
         NEW key \in ProxyKeys, Names(w, key), Len(Tail(w)) >= ProxyArgs[key],
         ~Refused(key, Tail(w)),
         \A k \in ProxyKeys : Grows(f, g, k, w)
  PROVE  /\ ProxySays(ProxySet(c, key, Tail(w)), g)
         /\ ProxyShape(ProxySet(c, key, Tail(w)))
<1> DEFINE d == ProxySet(c, key, Tail(w))
           L(k) == ListIn(f, k)
           G(k) == ListIn(g, k)
<1>1. /\ \A k \in ProxyKeys : k # key => G(k) = L(k)
      /\ G(key) = Append(L(key), w)
  BY DEF Grows, Names
<1>2. L(key) \in Seq(Line)
  BY ListTypes
<1>3. w \in Seq(Seq(STRING)) /\ w # << >>
  BY DEF Line, Names
<1>4. /\ Len(Tail(w)) = Len(w) - 1 /\ Len(w) \in Nat
      /\ \A i \in 1 .. Len(w) - 1 : Tail(w)[i] = w[i + 1]
  BY <1>3
<1>5. Len(w) > 1 => Tail(w)[1] = w[2]
  <2>1. Len(w) > 1 => 1 \in 1 .. Len(w) - 1
    BY <1>4
  <2> QED
    BY <1>4, <2>1
<1>6. /\ \A x : LastSaid(G(key), x) = Said(w)
      /\ G(key) # << >>
      /\ PathSaid(G(key)) = << Said(w) >> /\ NamesSaid(G(key)) = NamesOn(w)
      /\ \A n \in Numbers, u \in Units :
           Reads(Said(w), n, u)
           => Rated(<< [requests |-> n, window |-> Period(u)] >>, G(key))
      /\ Seconds(G(key)) = Append(Seconds(L(key)), w[2])
  BY <1>1, <1>2, Added
<1>7. key # "proxy.selfsigned" =>
        Len(w) > 1 /\ Tail(w)[1] = w[2] /\ Said(w) = w[2]
  <2>1. key # "proxy.selfsigned" => Len(w) > 1
    BY <1>4 DEF ProxyArgs, ProxyKeys
  <2> QED
    BY <1>5, <2>1 DEF Said
<1>8. {"proxy.listen", "proxy.upstream", "proxy.cert", "proxy.key",
       "proxy.selfsigned", "proxy.allow", "proxy.block",
       "proxy.ratelimit", "proxy.loglevel"} = ProxyKeys
  BY DEF ProxyKeys
<1>9. Tail(w) = << >> <=> Len(w) = 1
  <2>1. Tail(w) = << >> <=> Len(Tail(w)) = 0
    <3> DEFINE t == Tail(w)
    <3>1. t \in Seq(Seq(STRING))
      BY <1>3
    <3> HIDE DEF t
    <3>2. t = << >> <=> Len(t) = 0
      BY <3>1
    <3> QED
      BY <3>2 DEF t
  <2> QED
    BY <1>4, <2>1
<1> HIDE DEF L, G, d
<1>10. ProxySays(c, f) <=>
          /\ c.listen = NormalizeListen(LastSaid(L("proxy.listen"),
                                         << "0.0.0.0", ":", "8443" >>))
          /\ c.upstream = LastSaid(L("proxy.upstream"),
                                   << "http://", "127.0.0.1", ":", "9212" >>)
          /\ Rated(c.rate_limit, L("proxy.ratelimit"))
          /\ c.allow = Seconds(L("proxy.allow"))
          /\ c.block = Seconds(L("proxy.block"))
          /\ c.log_level = LastSaid(L("proxy.loglevel"), << "info" >>)
          /\ c.cert = PathSaid(L("proxy.cert"))
          /\ c.key = PathSaid(L("proxy.key"))
          /\ c.selfsigned = NamesSaid(L("proxy.selfsigned"))
          /\ c.selfsigned # << >> <=> L("proxy.selfsigned") # << >>
  BY DEF ProxySays, L
<1>11. ProxySays(d, g) <=>
          /\ d.listen = NormalizeListen(LastSaid(G("proxy.listen"),
                                         << "0.0.0.0", ":", "8443" >>))
          /\ d.upstream = LastSaid(G("proxy.upstream"),
                                   << "http://", "127.0.0.1", ":", "9212" >>)
          /\ Rated(d.rate_limit, G("proxy.ratelimit"))
          /\ d.allow = Seconds(G("proxy.allow"))
          /\ d.block = Seconds(G("proxy.block"))
          /\ d.log_level = LastSaid(G("proxy.loglevel"), << "info" >>)
          /\ d.cert = PathSaid(G("proxy.cert"))
          /\ d.key = PathSaid(G("proxy.key"))
          /\ d.selfsigned = NamesSaid(G("proxy.selfsigned"))
          /\ d.selfsigned # << >> <=> G("proxy.selfsigned") # << >>
  BY DEF ProxySays, G
<1>12. ProxySays(d, g) /\ ProxyShape(d)
  <2> USE <1>1, <1>8, <1>10, <1>11
  <2>1. CASE key = "proxy.listen"
    <3>1. d = [c EXCEPT !.listen = NormalizeListen(w[2])]
      BY <1>7, <2>1 DEF ProxySet, d
    <3>2. LastSaid(G("proxy.listen"), << "0.0.0.0", ":", "8443" >>) = w[2]
      BY <1>6, <1>7, <2>1
    <3> QED
      BY <2>1, <3>1, <3>2 DEF ProxyShape
  <2>2. CASE key = "proxy.upstream"
    <3>1. d = [c EXCEPT !.upstream = w[2]]
      BY <1>7, <2>2 DEF ProxySet, d
    <3>2. LastSaid(G("proxy.upstream"),
                   << "http://", "127.0.0.1", ":", "9212" >>) = w[2]
      BY <1>6, <1>7, <2>2
    <3> QED
      BY <2>2, <3>1, <3>2 DEF ProxyShape
  <2>3. CASE key = "proxy.cert"
    <3>1. d = [c EXCEPT !.cert = << w[2] >>]
      BY <1>7, <2>3 DEF ProxySet, d
    <3>2. PathSaid(G("proxy.cert")) = << w[2] >>
      BY <1>6, <1>7, <2>3
    <3> QED
      BY <2>3, <3>1, <3>2 DEF ProxyShape
  <2>4. CASE key = "proxy.key"
    <3>1. d = [c EXCEPT !.key = << w[2] >>]
      BY <1>7, <2>4 DEF ProxySet, d
    <3>2. PathSaid(G("proxy.key")) = << w[2] >>
      BY <1>6, <1>7, <2>4
    <3> QED
      BY <2>4, <3>1, <3>2 DEF ProxyShape
  <2>5. CASE key = "proxy.selfsigned"
    <3> DEFINE names == IF Tail(w) = << >> THEN << << "localhost" >> >>
                        ELSE Tail(w)
    <3>1. d = [c EXCEPT !.selfsigned = names]
      BY <2>5 DEF ProxySet, d
    <3>2. names # << >> /\ names = NamesSaid(G("proxy.selfsigned"))
      BY <1>6, <1>9, <2>5 DEF NamesOn
    <3> HIDE DEF names
    <3> QED
      BY <1>6, <2>5, <3>1, <3>2 DEF ProxyShape
  <2>6. CASE key = "proxy.allow"
    <3>1. d = [c EXCEPT !.allow = Append(c.allow, w[2])]
      BY <1>7, <2>6 DEF ProxySet, d
    <3> QED
      BY <1>6, <2>6, <3>1 DEF ProxyShape
  <2>7. CASE key = "proxy.block"
    <3>1. d = [c EXCEPT !.block = Append(c.block, w[2])]
      BY <1>7, <2>7 DEF ProxySet, d
    <3> QED
      BY <1>6, <2>7, <3>1 DEF ProxyShape
  <2>8. CASE key = "proxy.ratelimit"
    <3>1. d = [c EXCEPT !.rate_limit = ParseRate(w[2])]
      BY <1>7, <2>8 DEF ProxySet, d
    <3>2. Rated(ParseRate(w[2]), G("proxy.ratelimit"))
      <4>1. Len(w) > 1 /\ w[2] = Said(w) /\ ParseRate(w[2]) # << >>
        BY <1>7, <2>8 DEF Refused
      <4>2. 2 \in 1 .. Len(w)
        BY <1>4, <4>1
      <4>3. w[2] \in Seq(STRING)
        BY <1>3, <4>2
      <4>4. PICK n \in Numbers, u \in Units :
              /\ Reads(w[2], n, u)
              /\ ParseRate(w[2])
                   = << [requests |-> n, window |-> Period(u)] >>
        BY <4>1, <4>3, RateForm
      <4> QED
        BY <1>6, <2>8, <4>1, <4>4
    <3> QED
      BY <2>8, <3>1, <3>2 DEF ProxyShape
  <2>9. CASE key = "proxy.loglevel"
    <3>1. d = [c EXCEPT !.log_level = w[2]]
      BY <1>7, <2>9 DEF ProxySet, d
    <3>2. LastSaid(G("proxy.loglevel"), << "info" >>) = w[2]
      BY <1>6, <1>7, <2>9
    <3> QED
      BY <2>9, <3>1, <3>2 DEF ProxyShape
  <2> QED
    BY <2>1, <2>2, <2>3, <2>4, <2>5, <2>6, <2>7, <2>8, <2>9 DEF ProxyKeys
<1> QED
  BY <1>12 DEF d

-----------------------------------------------------------------------------
(* The configuration is what the file says, as far as it is read; and what *)
(* main() makes of it.                                                     *)
Says ==
  /\ prog = "flyo" /\ st # "bail" =>
       /\ FlyoSays(cfg, file, Home)
       /\ IF ListIn(file, "webd.listen") = << >> /\ st # "reading"
          THEN cfg.listen = << DefaultListen >> ELSE FlyoListens(cfg, file)
  /\ prog = "proxy" =>
       /\ ProxyShape(cfg)
       /\ st \notin {"bail", "panic"} => ProxySays(cfg, file)
       /\ st \in {"parsed", "serving"} => cfg.tls = TlsMode(cfg)
       /\ st = "serving" =>
            IF cfg.tls = "plain"
            THEN served.scheme = "http" /\ served.cert = "none"
            ELSE served.scheme = "https" /\ served.cert = cfg.tls

(* No line, no words.                                                      *)
LEMMA EmptyFile ==
  \A k : ListIn(<< >>, k) = << >>
<1> SUFFICES ASSUME NEW k
             PROVE  ListIn(<< >>, k) = << >>
  OBVIOUS
<1>1. OfIn(<< >>, k) = {}
  BY DEF OfIn
<1>2. << >> \in Seq(AllLines)
  OBVIOUS
<1> QED
  BY <1>1, <1>2, ListTypes

(* Before the first line the configuration has its defaults.               *)
LEMMA InitSays == Init => Says
<1> SUFFICES ASSUME Init
             PROVE  Says
  OBVIOUS
<1>1. file = << >> /\ \A k : ListIn(file, k) = << >>
  BY EmptyFile DEF Init
<1>2. CASE prog = "flyo"
  <2>1. IF found THEN cfg = WebdDefault /\ st = "reading"
        ELSE cfg = WebdNoFile /\ st = "parsed"
    BY <1>2 DEF Init
  <2>2. GuestDefault = Granted(<< "r", "l" >>)
    <3>1. ToSet(<< "r", "l" >>) = {"r", "l"}
      BY DEF ToSet
    <3> QED
      BY <3>1 DEF GuestDefault, Granted, Has, Permissions
  <2>3. /\ FirstThree(<< >>) = << >> /\ Listens(<< >>) = << >>
        /\ \A d : LastSaid(<< >>, d) = d
    BY DEF FirstThree, Listens, LastSaid
  <2>4. /\ cfg.root = Home /\ cfg.guest = GuestDefault /\ cfg.users = << >>
        /\ cfg.browser = << >> /\ cfg.hide_tray = FALSE
        /\ IF st = "reading" THEN cfg.listen = << >>
           ELSE cfg.listen = << DefaultListen >>
    <3>1. CASE found
      BY <2>1, <3>1 DEF WebdDefault, Home
    <3>2. CASE ~found
      BY <2>1, <3>2 DEF WebdDefault, WebdNoFile, Home
    <3> QED
      BY <3>1, <3>2
  <2>5. FlyoSays(cfg, file, Home)
    BY <1>1, <2>2, <2>3, <2>4 DEF FlyoSays
  <2> QED
    BY <1>1, <1>2, <2>3, <2>4, <2>5 DEF Says, FlyoListens
<1>3. CASE prog = "proxy"
  <2>1. cfg = ProxyDefault /\ st \in {"reading", "parsed"}
    BY <1>3 DEF Init
  <2> DEFINE addr == << "0.0.0.0", ":", "8443" >>
  <2>2. NormalizeListen(addr) = addr
    <3>1. ":" \in ToSet(addr)
      <4>1. addr[2] = ":" /\ 2 \in DOMAIN addr
        OBVIOUS
      <4> QED
        BY <4>1 DEF ToSet
    <3> HIDE DEF addr
    <3> QED
      BY <3>1 DEF NormalizeListen, Has
  <2>3. Seconds(<< >>) = << >> /\ \A d : LastSaid(<< >>, d) = d
    BY DEF Seconds, LastSaid
  <2>6. /\ PathSaid(<< >>) = << >> /\ NamesSaid(<< >>) = << >>
        /\ Rated(<< >>, << >>)
    BY DEF PathSaid, NamesSaid, Rated
  <2>4. ProxyShape(cfg) /\ cfg.tls = TlsMode(cfg)
    BY <2>1 DEF ProxyShape, ProxyDefault, TlsMode
  <2>5. ProxySays(cfg, file)
    <3>1. cfg.listen = addr
      BY <2>1 DEF ProxyDefault
    <3> HIDE DEF addr
    <3> QED
      BY <1>1, <2>1, <2>2, <2>3, <2>6, <3>1
         DEF ProxySays, ProxyDefault, addr
  <2> QED
    BY <1>3, <2>1, <2>4, <2>5 DEF Says
<1> QED
  BY <1>2, <1>3 DEF Init, Says

(* Every step keeps the configuration to what has been read.               *)
LEMMA NextSays == SInv /\ Says /\ [Next]_vars => Says'
<1> SUFFICES ASSUME SInv, Says, [Next]_vars
             PROVE  Says'
  OBVIOUS
<1>0. prog \in {"flyo", "proxy"} /\ file \in Seq(AllLines)
  BY DEF SInv, TypeOK
<1>7. UNCHANGED found => Home' = Home
  BY DEF Home
<1>1. CASE \E line \in Lines[prog] : ReadLine(line)
  <2>1. PICK line \in Lines[prog] : ReadLine(line)
    BY <1>1
  <2> DEFINE w == WordsOf[line]
  <2>2. /\ line \in AllLines /\ st = "reading"
        /\ file' = Append(file, line)
        /\ UNCHANGED << prog, found, served >>
        /\ Parsed(w)
    BY <1>0, <2>1, LineStep
  <2>3. w \in Line /\ \A k : Grows(file, file', k, w)
    <3>1. w \in Line
      BY <2>2, LineCut DEF Line
    <3>2. \A k : Grows(file, Append(file, line), k, WordsOf[line])
      BY <1>0, <2>2, ListGrows
    <3> QED
      BY <2>2, <3>1, <3>2
  <2> HIDE DEF w
  <2>4. CASE PassedOver(w)
    <3>1. /\ \A k \in DOMAIN Needs : ListIn(file', k) = ListIn(file, k)
          /\ UNCHANGED << cfg, st >>
      BY <2>3, <2>4 DEF PassedOver, Grows
    <3>2. CASE prog = "flyo"
      <4>1. /\ \A k \in WebdKeys : ListIn(file', k) = ListIn(file, k)
            /\ {"webd.root", "webd.listen", "webd.user", "webd.guest",
                "webd.hide", "webd.browser"} = WebdKeys
        BY <1>0, <3>1, <3>2, Directives DEF WebdKeys
      <4>2. /\ FlyoSays(cfg, file, Home) <=> FlyoSays(cfg', file', Home)
            /\ FlyoListens(cfg, file) <=> FlyoListens(cfg', file')
            /\ ListIn(file', "webd.listen") = ListIn(file, "webd.listen")
        BY <3>1, <4>1 DEF FlyoSays, FlyoListens
      <4> QED
        BY <1>7, <2>2, <3>1, <3>2, <4>2 DEF Says
    <3>3. CASE prog = "proxy"
      <4>1. /\ \A k \in ProxyKeys : ListIn(file', k) = ListIn(file, k)
            /\ {"proxy.listen", "proxy.upstream", "proxy.cert", "proxy.key",
                "proxy.selfsigned", "proxy.allow", "proxy.block",
                "proxy.ratelimit", "proxy.loglevel"} = ProxyKeys
        BY <1>0, <3>1, <3>3, Directives DEF ProxyKeys
      <4>2. ProxySays(cfg, file) <=> ProxySays(cfg', file')
        BY <3>1, <4>1 DEF ProxySays
      <4> QED
        BY <2>2, <3>1, <3>3, <4>2 DEF Says
    <3> QED
      BY <1>0, <3>2, <3>3
  <2>5. CASE Rejected(w)
    BY <2>2, <2>5 DEF Rejected, Says
  <2>6. ASSUME NEW key \in DOMAIN Needs, Taken(w, key)
        PROVE  Says'
    <3>1. CASE prog = "flyo"
      <4>1. /\ cfg' = WebdSet(cfg, key, Tail(w)) /\ st' = st
            /\ key \in WebdKeys /\ Len(Tail(w)) >= WebdArgs[key]
            /\ Names(w, key)
        BY <1>0, <2>6, <3>1, Directives DEF Taken
      <4>2. FlyoSays(cfg', file', Home) /\ FlyoListens(cfg', file')
        <5>1. /\ FlyoSays(cfg, file, Home) /\ FlyoListens(cfg, file)
              /\ cfg \in WebdConfig
          BY <2>2, <3>1 DEF Says, SInv, TypeOK
        <5>2. \A k \in WebdKeys : Grows(file, file', k, w)
          BY <2>3
        <5>3. /\ FlyoSays(WebdSet(cfg, key, Tail(w)), file', Home)
              /\ FlyoListens(WebdSet(cfg, key, Tail(w)), file')
          BY <1>0, <2>3, <4>1, <5>1, <5>2, FlyoTake
        <5> QED
          BY <4>1, <5>3
      <4> QED
        BY <1>7, <2>2, <3>1, <4>1, <4>2 DEF Says
    <3>2. CASE prog = "proxy"
      <4>1. /\ cfg' = ProxySet(cfg, key, Tail(w)) /\ st' = st
            /\ key \in ProxyKeys /\ Len(Tail(w)) >= ProxyArgs[key]
            /\ Names(w, key) /\ ~Refused(key, Tail(w))
        BY <1>0, <2>6, <3>2, Directives DEF Taken
      <4>2. ProxyShape(cfg) /\ ProxySays(cfg, file)
        BY <2>2, <3>2 DEF Says
      <4>3. \A k \in ProxyKeys : Grows(file, file', k, w)
        BY <2>3
      <4>4. /\ ProxySays(ProxySet(cfg, key, Tail(w)), file')
            /\ ProxyShape(ProxySet(cfg, key, Tail(w)))
        BY <1>0, <2>3, <4>1, <4>2, <4>3, ProxyTake
      <4> QED
        BY <2>2, <3>2, <4>1, <4>4 DEF Says
    <3> QED
      BY <1>0, <3>1, <3>2
  <2> QED
    BY <2>2, <2>4, <2>5, <2>6 DEF Parsed
<1>2. CASE Unreadable
  BY <1>7, <1>2 DEF Unreadable, Says
<1>3. CASE EndOfFile
  <2>1. /\ st = "reading" /\ st' = "parsed"
        /\ UNCHANGED << prog, found, file, served >>
    BY <1>3 DEF EndOfFile
  <2>2. CASE prog = "flyo"
    <3>1. cfg' = WebdEnd(cfg) /\ cfg \in WebdConfig
      BY <1>3, <2>2 DEF EndOfFile, SInv, TypeOK
    <3> DEFINE l == ListIn(file, "webd.listen")
    <3>2. l \in Seq(Line)
      BY <1>0, ListTypes
    <3>3. /\ FlyoSays(cfg', file, Home)
          /\ IF l = << >> THEN cfg'.listen = << DefaultListen >>
             ELSE FlyoListens(cfg', file)
      <4>1. FlyoSays(cfg, file, Home) /\ cfg.listen = Listens(l)
        BY <2>1, <2>2 DEF Says, FlyoListens
      <4>2. /\ cfg' = [cfg EXCEPT !.listen = cfg'.listen]
            /\ cfg'.listen = IF cfg.listen = << >> THEN << DefaultListen >>
                             ELSE cfg.listen
        <5>1. CASE cfg.listen = << >>
          BY <3>1, <5>1 DEF WebdEnd, WebdConfig
        <5>2. CASE cfg.listen # << >>
          BY <3>1, <5>2 DEF WebdEnd, WebdConfig
        <5> QED
          BY <5>1, <5>2
      <4>3. FlyoSays(cfg', file, Home)
        BY <3>1, <4>1, <4>2 DEF FlyoSays, WebdConfig
      <4>4. l = << >> <=> Listens(l) = << >>
        <5> HIDE DEF l, Line
        <5>1. l # << >> => 1 \in 1 .. Len(l)
          BY <3>2
        <5>2. l # << >> => 1 \in DOMAIN Listens(l)
          BY <5>1 DEF Listens
        <5>3. Listens(<< >>) = << >>
          BY DEF Listens
        <5> QED
          BY <5>2, <5>3
      <4> QED
        BY <4>1, <4>2, <4>3, <4>4 DEF FlyoListens
    <3>4. /\ FlyoSays(cfg', file', Home')
          /\ IF ListIn(file', "webd.listen") = << >>
             THEN cfg'.listen = << DefaultListen >>
             ELSE FlyoListens(cfg', file')
      BY <1>7, <2>1, <3>3
    <3> HIDE DEF l
    <3> QED
      BY <2>1, <2>2, <3>4 DEF Says
  <2>3. CASE prog = "proxy"
    <3>1. cfg' = [cfg EXCEPT !.tls = TlsMode(cfg)]
      BY <1>3, <2>3 DEF EndOfFile, ProxyEnd
    <3>2. ProxyShape(cfg) /\ ProxySays(cfg, file)
      BY <2>1, <2>3 DEF Says
    <3>3. /\ ProxyShape(cfg') /\ ProxySays(cfg', file)
          /\ cfg'.tls = TlsMode(cfg')
      BY <3>1, <3>2 DEF ProxyShape, ProxySays, TlsMode
    <3> QED
      BY <2>1, <2>3, <3>3 DEF Says
  <2> QED
    BY <1>0, <2>2, <2>3
<1>4. CASE FlyoMain
  BY <1>7, <1>4 DEF FlyoMain, Bind, Says
<1>5. CASE ProxyMain
  <2>1. /\ st = "parsed" /\ prog = "proxy"
        /\ UNCHANGED << prog, found, file, cfg >>
        /\ \/ st' = "bail"
           \/ /\ st' = "serving"
              /\ IF cfg.tls = "plain"
                 THEN served'.scheme = "http" /\ served'.cert = "none"
                 ELSE served'.scheme = "https" /\ served'.cert = cfg.tls
    BY <1>5 DEF ProxyMain, Bind
  <2>2. /\ ProxyShape(cfg) /\ ProxySays(cfg, file) /\ cfg.tls = TlsMode(cfg)
    BY <2>1 DEF Says
  <2>3. /\ ProxyShape(cfg') /\ ProxySays(cfg', file')
        /\ cfg'.tls = TlsMode(cfg')
    BY <2>1, <2>2
  <2> QED
    BY <2>1, <2>3 DEF Says
<1>6. CASE Stopped \/ UNCHANGED vars
  BY <1>7, <1>6 DEF Stopped, vars, Says
<1> QED
  BY <1>1, <1>2, <1>3, <1>4, <1>5, <1>6 DEF Next

(* The references of Startup, in terms of the lists.                       *)
LEMMA LastOfIs ==
  ASSUME file \in Seq(AllLines), NEW k, NEW d
  PROVE  /\ LastOf(k, d) = LastSaid(ListIn(file, k), d)
         /\ Of(k) = {} <=> ListIn(file, k) = << >>
         /\ Of(k) # {} =>
              LastLine(k) = ListIn(file, k)[Len(ListIn(file, k))]
<1>1. Of(k) = OfIn(file, k)
  BY DEF Of, OfIn
<1>2. Of(k) = {} <=> ListIn(file, k) = << >>
  BY <1>1, ListTypes
<1>3. CASE Of(k) = {}
  BY <1>2, <1>3 DEF LastOf, LastSaid
<1>4. CASE Of(k) # {}
  <2>1. LastLine(k) = ListIn(file, k)[Len(ListIn(file, k))]
    BY <1>1, <1>4, LastIs DEF LastLine
  <2> QED
    BY <1>2, <1>4, <2>1 DEF LastOf, LastSaid, Said
<1> QED
  BY <1>2, <1>3, <1>4

(* The same of all lines with a directive.                                 *)
LEMMA AllOfIs ==
  ASSUME file \in Seq(AllLines), NEW k
  PROVE  /\ Cardinality(Of(k)) = Len(ListIn(file, k))
         /\ \A n \in 1 .. Cardinality(Of(k)) : NthOf(k, n) = ListIn(file, k)[n]
         /\ AllOf(k) = Seconds(ListIn(file, k))
         /\ DOMAIN AllOf(k) = 1 .. Len(ListIn(file, k))
         /\ AllOf(k) = << >> <=> ListIn(file, k) = << >>
<1>1. Of(k) = OfIn(file, k)
  BY DEF Of, OfIn
<1> DEFINE c == Cardinality(Of(k))
           l == ListIn(file, k)
<1>2. c = Len(l)
  BY <1>1, ListTypes
<1>3. \A n \in 1 .. c : NthOf(k, n) = l[n]
  BY <1>1 DEF NthOf, ListIn
<1>4. AllOf(k) = [n \in 1 .. c |-> NthOf(k, n)[2]]
  BY DEF AllOf
<1> HIDE DEF c, l
<1>5. AllOf(k) = Seconds(l)
  <2>1. \A n \in 1 .. c : NthOf(k, n)[2] = l[n][2]
    BY <1>3
  <2> QED
    BY <1>2, <1>4, <2>1 DEF Seconds
<1>6. AllOf(k) = << >> <=> l = << >>
  <2>1. l \in Seq(Line)
    BY ListTypes DEF l
  <2>2. l # << >> => 1 \in 1 .. Len(l)
    <3> HIDE DEF Line
    <3> QED
      BY <2>1
  <2>3. l # << >> => 1 \in DOMAIN Seconds(l)
    BY <2>2 DEF Seconds
  <2>4. Seconds(<< >>) = << >>
    BY DEF Seconds
  <2> QED
    BY <1>5, <2>3, <2>4
<1> QED
  BY <1>2, <1>3, <1>4, <1>5, <1>6 DEF c, l

(* What the invariant says of the configuration.                           *)
LEMMA SaysAsWritten == SInv /\ Says => AsWritten
<1> SUFFICES ASSUME SInv, Says
             PROVE  AsWritten
  OBVIOUS
<1>0. prog \in {"flyo", "proxy"} /\ file \in Seq(AllLines)
  BY DEF SInv, TypeOK
<1>1. ASSUME prog = "flyo", st # "bail"
      PROVE  /\ cfg.root =
                  LastOf("webd.root", IF found THEN << >> ELSE << "cwd" >>)
             /\ cfg.guest = Granted(LastOf("webd.guest", << "r", "l" >>))
             /\ cfg.browser = LastOf("webd.browser", << >>)
             /\ cfg.hide_tray <=> Of("webd.hide") # {}
  <2>1. /\ cfg.root = LastSaid(ListIn(file, "webd.root"), Home)
        /\ cfg.guest =
             Granted(LastSaid(ListIn(file, "webd.guest"), << "r", "l" >>))
        /\ cfg.browser = LastSaid(ListIn(file, "webd.browser"), << >>)
        /\ cfg.hide_tray <=> ListIn(file, "webd.hide") # << >>
    BY <1>1 DEF Says, FlyoSays
  <2> QED
    BY <1>0, <2>1, LastOfIs DEF Home
<1>2. ASSUME prog = "flyo", st # "bail"
      PROVE  cfg.users =
               [n \in {i \in 1 .. Cardinality(Of("webd.user")) : i <= 3} |->
                  LET w == NthOf("webd.user", n)
                  IN  [perms |-> Granted(w[2]), name |-> w[3], pass |-> w[4]]]
  <2> DEFINE l == ListIn(file, "webd.user")
             c == Cardinality(Of("webd.user"))
             D == {i \in 1 .. c : i <= 3}
  <2>1. cfg.users = [n \in {i \in 1 .. Len(l) : i <= 3} |-> UserSaid(l[n])]
    BY <1>2 DEF Says, FlyoSays, FirstThree
  <2>2. c = Len(l) /\ \A n \in 1 .. c : NthOf("webd.user", n) = l[n]
    BY <1>0, AllOfIs
  <2> HIDE DEF l, c
  <2>3. cfg.users = [n \in D |-> UserSaid(l[n])]
    BY <2>1, <2>2
  <2>4. \A n \in D : NthOf("webd.user", n) = l[n]
    BY <2>2
  <2>5. cfg.users = [n \in D |-> UserSaid(NthOf("webd.user", n))]
    BY <2>3, <2>4
  <2> QED
    BY <2>5 DEF UserSaid, c
<1>3. ASSUME prog = "flyo", st # "bail",
             ~(AllOf("webd.listen") = << >> /\ st # "reading")
      PROVE  cfg.listen = [n \in DOMAIN AllOf("webd.listen") |->
                             NormalizeListen(AllOf("webd.listen")[n])]
  <2> DEFINE l == ListIn(file, "webd.listen")
             a == AllOf("webd.listen")
  <2>1. a = Seconds(l) /\ DOMAIN a = 1 .. Len(l) /\ (a = << >> <=> l = << >>)
    BY <1>0, AllOfIs
  <2>2. cfg.listen = Listens(l)
    BY <1>3, <2>1 DEF Says, FlyoListens
  <2> HIDE DEF a, l
  <2>3. \A n \in 1 .. Len(l) : a[n] = l[n][2]
    BY <2>1 DEF Seconds
  <2>4. cfg.listen = [n \in DOMAIN a |-> NormalizeListen(a[n])]
    BY <2>1, <2>2, <2>3 DEF Listens
  <2> QED
    BY <2>4 DEF a
<1>4. ASSUME prog = "flyo", st # "bail",
             AllOf("webd.listen") = << >> /\ st # "reading"
      PROVE  cfg.listen = << << "0.0.0.0", ":", "9212" >> >>
  <2>1. ListIn(file, "webd.listen") = << >>
    BY <1>0, <1>4, AllOfIs
  <2> QED
    BY <1>4, <2>1 DEF Says, DefaultListen
<1>5. ASSUME prog = "proxy", st \notin {"bail", "panic"}
      PROVE  IF Of("proxy.ratelimit") = {} THEN cfg.rate_limit = << >>
             ELSE \E n \in Numbers, u \in Units :
                    /\ Reads(LastOf("proxy.ratelimit", << >>), n, u)
                    /\ cfg.rate_limit =
                         << [requests |-> n, window |-> Period(u)] >>
  <2> DEFINE l == ListIn(file, "proxy.ratelimit")
  <2>1. Rated(cfg.rate_limit, l)
    BY <1>5 DEF Says, ProxySays
  <2>2. /\ Of("proxy.ratelimit") = {} <=> l = << >>
        /\ LastOf("proxy.ratelimit", << >>) = LastSaid(l, << >>)
    BY <1>0, LastOfIs
  <2> HIDE DEF l
  <2> QED
    BY <2>1, <2>2 DEF Rated, LastSaid
<1>6. ASSUME prog = "proxy", st \notin {"bail", "panic"},
             NEW k \in {"proxy.cert", "proxy.key"}
      PROVE  PathSaid(ListIn(file, k)) = IF Of(k) = {} THEN << >>
                                         ELSE << LastOf(k, << >>) >>
  BY <1>0, LastOfIs DEF PathSaid, LastSaid
<1>7. ASSUME prog = "proxy", st \notin {"bail", "panic"}
      PROVE  /\ cfg.cert = IF Of("proxy.cert") = {} THEN << >>
                           ELSE << LastOf("proxy.cert", << >>) >>
             /\ cfg.key = IF Of("proxy.key") = {} THEN << >>
                          ELSE << LastOf("proxy.key", << >>) >>
             /\ cfg.selfsigned =
                  IF Of("proxy.selfsigned") = {} THEN << >>
                  ELSE IF Len(LastLine("proxy.selfsigned")) = 1
                       THEN << << "localhost" >> >>
                       ELSE Tail(LastLine("proxy.selfsigned"))
  <2>1. /\ cfg.cert = PathSaid(ListIn(file, "proxy.cert"))
        /\ cfg.key = PathSaid(ListIn(file, "proxy.key"))
        /\ cfg.selfsigned = NamesSaid(ListIn(file, "proxy.selfsigned"))
    BY <1>7 DEF Says, ProxySays
  <2>2. NamesSaid(ListIn(file, "proxy.selfsigned")) =
          IF Of("proxy.selfsigned") = {} THEN << >>
          ELSE NamesOn(LastLine("proxy.selfsigned"))
    BY <1>0, LastOfIs DEF NamesSaid
  <2> QED
    BY <1>6, <1>7, <2>1, <2>2 DEF NamesOn
<1>8. ASSUME prog = "proxy", st \notin {"bail", "panic"}
      PROVE  /\ cfg.listen = NormalizeListen(
                  LastOf("proxy.listen", << "0.0.0.0", ":", "8443" >>))
             /\ cfg.upstream = LastOf("proxy.upstream",
                                << "http://", "127.0.0.1", ":", "9212" >>)
             /\ cfg.allow = AllOf("proxy.allow")
             /\ cfg.block = AllOf("proxy.block")
             /\ cfg.log_level = LastOf("proxy.loglevel", << "info" >>)
  <2>1. /\ cfg.listen = NormalizeListen(
             LastSaid(ListIn(file, "proxy.listen"),
                      << "0.0.0.0", ":", "8443" >>))
        /\ cfg.upstream = LastSaid(ListIn(file, "proxy.upstream"),
                             << "http://", "127.0.0.1", ":", "9212" >>)
        /\ cfg.allow = Seconds(ListIn(file, "proxy.allow"))
        /\ cfg.block = Seconds(ListIn(file, "proxy.block"))
        /\ cfg.log_level = LastSaid(ListIn(file, "proxy.loglevel"),
                                    << "info" >>)
    BY <1>8 DEF Says, ProxySays
  <2>2. \A k, d : LastOf(k, d) = LastSaid(ListIn(file, k), d)
    BY <1>0, LastOfIs
  <2>3. \A k : AllOf(k) = Seconds(ListIn(file, k))
    BY <1>0, AllOfIs
  <2> QED
    BY <2>1, <2>2, <2>3
<1> QED
  BY <1>1, <1>2, <1>3, <1>4, <1>5, <1>7, <1>8 DEF AsWritten

(* What it says of TLS.                                                    *)
LEMMA SaysTls == SInv /\ Says => TlsAsAsked
<1> SUFFICES ASSUME SInv, Says, prog = "proxy", st = "serving"
             PROVE  TlsAsAsked
  BY DEF TlsAsAsked
<1> DEFINE has(k) == \E i \in DOMAIN file : Names(WordsOf[file[i]], k)
<1>1. \A k : has(k) <=> ListIn(file, k) # << >>
  <2> SUFFICES ASSUME NEW k
               PROVE  has(k) <=> ListIn(file, k) # << >>
    OBVIOUS
  <2>1. OfIn(file, k) = {} <=> ListIn(file, k) = << >>
    BY ListTypes DEF SInv
  <2> QED
    BY <2>1 DEF OfIn
<1>2. /\ ProxySays(cfg, file) /\ cfg.tls = TlsMode(cfg)
      /\ IF cfg.tls = "plain"
         THEN served.scheme = "http" /\ served.cert = "none"
         ELSE served.scheme = "https" /\ served.cert = cfg.tls
  BY DEF Says
<1>3. /\ cfg.cert # << >> <=> has("proxy.cert")
      /\ cfg.key # << >> <=> has("proxy.key")
      /\ cfg.selfsigned # << >> <=> has("proxy.selfsigned")
  BY <1>1, <1>2 DEF ProxySays, PathSaid
<1> QED
  BY <1>2, <1>3 DEF TlsAsAsked, TlsMode

(* For a file of any length, in whatever order its lines stand, parse() makes*)
(* of it what the file says.                                               *)
THEOREM ConfiguredAsWritten == Spec => []AsWritten
BY InitTypes, NextTypes, InitSays, NextSays, SaysAsWritten, PTL DEF Spec

(* For files of any length and in any order, the proxy serves HTTPS if and *)
(* only if the file asks for it, and with the certificate it asks for.     *)
THEOREM TlsChosen == Spec => []TlsAsAsked
BY InitTypes, NextTypes, InitSays, NextSays, SaysTls, PTL DEF Spec
=============================================================================
