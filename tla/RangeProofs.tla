---------------------------- MODULE RangeProofs ----------------------------
(***************************************************************************)
(* For every file length and every Range header, not only small ones: a    *)
(* partial reply announces exactly the bytes it was asked for, a whole one *)
(* those of the file, but one byte for a file of none, and a range that    *)
(* lies in the file is not refused.                                        *)
(***************************************************************************)
EXTENDS MCRangeMath, TLAPS

(* What Plan answers, by what parse_range() finds.                         *)
LEMMA PlanCases ==
  ASSUME NEW hd \in Header, NEW n \in Nat
  PROVE  LET p == Plan(hd, n)
         IN  /\ hd.form \in {"absent", "malformed"} =>
                  /\ p.status = 200 /\ p.start = 0
                  /\ p.length = SatSub(n, 1) + 1
             /\ hd.form = "suffix" =>
                  IF hd.b = 0 \/ hd.b > n THEN p.status = 416
                  ELSE /\ p.status = 206 /\ p.start = n - hd.b
                       /\ p.length = hd.b
             /\ hd.form = "open" =>
                  IF hd.a > SatSub(n, 1) \/ n = 0 THEN p.status = 416
                  ELSE /\ p.status = 206 /\ p.start = hd.a
                       /\ p.length = n - hd.a
             /\ hd.form = "closed" =>
                  IF hd.a > hd.b \/ hd.b >= n THEN p.status = 416
                  ELSE /\ p.status = 206 /\ p.start = hd.a
                       /\ p.length = hd.b - hd.a + 1
<1>1. /\ hd.form \in {"absent", "malformed", "suffix", "open", "closed"}
      /\ hd.a \in Nat /\ hd.b \in Nat
  BY DEF Header
<1>2. CASE hd.form \in {"absent", "malformed"}
  <2>1. ParseRange(hd, n) = None
    BY <1>2 DEF ParseRange
  <2> QED
    BY <1>2, <2>1 DEF Plan, None, SatSub
<1>3. CASE hd.form = "suffix"
  <2>1. ParseRange(hd, n) = ParseSuffix(hd.b, n)
    BY <1>3 DEF ParseRange
  <2> QED
    BY <1>1, <1>3, <2>1 DEF Plan, ParseSuffix, Sat, Unsat, SatSub
<1>4. CASE hd.form = "open"
  <2>1. ParseRange(hd, n) = ParseFrom(hd.a, SatSub(n, 1), n)
    BY <1>4 DEF ParseRange
  <2> QED
    BY <1>1, <1>4, <2>1 DEF Plan, ParseFrom, Sat, Unsat, SatSub
<1>5. CASE hd.form = "closed"
  <2>1. ParseRange(hd, n) = ParseFrom(hd.a, hd.b, n)
    BY <1>5 DEF ParseRange
  <2> QED
    BY <1>1, <1>5, <2>1 DEF Plan, ParseFrom, Sat, Unsat, SatSub
<1> QED
  BY <1>1, <1>2, <1>3, <1>4, <1>5

(* A reply is still to come, or is Plan's.                                 *)
RInv == /\ hdr \in Headers /\ total \in 0 .. MaxTotal
        /\ reply = Pending \/ reply = Plan(hdr, total)

(* Headers and files stay in their ranges, replies are planned ones.       *)
LEMMA RInvariance == Spec => []RInv
<1>1. Init => RInv
  BY DEF Init, RInv
<1>2. RInv /\ [Next]_<< hdr, total, reply >> => RInv'
  BY DEF RInv, Next, Ask, Answer
<1> QED
  BY <1>1, <1>2, PTL DEF Spec

(* The numbers of a header are natural numbers, and so is a file's length. *)
LEMMA RTypes ==
  ASSUME MaxByte \in Nat, MaxTotal \in Nat, RInv
  PROVE  hdr \in Header /\ total \in Nat /\ Pending.status = 0
BY DEF RInv, Headers, Forms, Header, Pending

(* A partial reply announces exactly the bytes asked for; a whole reply    *)
(* goes to a request without a readable range and announces the whole      *)
(* file, or one byte of a file that has none.                              *)
THEOREM RepliesExact ==
  ASSUME MaxByte \in Nat, MaxTotal \in Nat
  PROVE  Spec => []ReplyIsExact
<1>1. ASSUME RInv
      PROVE  ReplyIsExact
  <2> DEFINE s == reply.start
             n == reply.length
             bytes == s .. s + n - 1
  <2>0. Announced = bytes
    BY DEF Announced
  <2> SUFFICES ASSUME reply.status \in {200, 206}
               PROVE  \/ /\ reply.status = 200
                         /\ hdr.form \in {"absent", "malformed"}
                         /\ bytes = IF total = 0 THEN {0} ELSE 0 .. total - 1
                      \/ /\ reply.status = 206
                         /\ hdr.form \in {"suffix", "open", "closed"}
                         /\ bytes = Asked(hdr, total)
    BY <2>0 DEF ReplyIsExact
  <2>1. hdr \in Header /\ total \in Nat /\ reply = Plan(hdr, total)
    BY <1>1, RTypes DEF RInv
  <2>2. /\ hdr.form \in {"absent", "malformed", "suffix", "open", "closed"}
        /\ hdr.a \in Nat /\ hdr.b \in Nat
    BY <2>1 DEF Header
  <2>3. CASE hdr.form \in {"absent", "malformed"}
    <3>1. /\ reply.status = 200 /\ s = 0
          /\ n = IF total = 0 THEN 1 ELSE total
      BY <2>1, <2>3, PlanCases DEF SatSub
    <3>2. CASE total = 0
      BY <2>3, <3>1, <3>2
    <3>3. CASE total # 0
      BY <2>1, <2>3, <3>1, <3>3
    <3> QED
      BY <3>2, <3>3
  <2>4. CASE hdr.form = "suffix"
    <3>1. /\ reply.status = 206
          /\ s = total - hdr.b /\ n = hdr.b /\ hdr.b <= total
      BY <2>1, <2>2, <2>4, PlanCases
    <3>2. Asked(hdr, total) = {k \in 0 .. total - 1 : total < k + 1 + hdr.b}
      BY <2>4 DEF Asked
    <3> QED
      BY <2>1, <2>2, <2>4, <3>1, <3>2
  <2>5. CASE hdr.form = "open"
    <3>1. /\ reply.status = 206
          /\ s = hdr.a /\ n = total - hdr.a /\ hdr.a <= total - 1
      BY <2>1, <2>2, <2>5, PlanCases DEF SatSub
    <3>2. Asked(hdr, total) = {k \in 0 .. total - 1 : k >= hdr.a}
      BY <2>5 DEF Asked
    <3> QED
      BY <2>1, <2>2, <2>5, <3>1, <3>2
  <2>6. CASE hdr.form = "closed"
    <3>1. /\ reply.status = 206 /\ s = hdr.a /\ n = hdr.b - hdr.a + 1
          /\ hdr.a <= hdr.b /\ hdr.b < total
      BY <2>1, <2>2, <2>6, PlanCases
    <3>2. Asked(hdr, total) = {k \in 0 .. total - 1 : hdr.a <= k /\ k <= hdr.b}
      BY <2>6 DEF Asked
    <3> QED
      BY <2>1, <2>2, <2>6, <3>1, <3>2
  <2> QED
    BY <2>2, <2>3, <2>4, <2>5, <2>6
<1> QED
  BY <1>1, RInvariance, PTL

(* Only a range that could be read is refused, and only if it asks for no  *)
(* byte or for one beyond the end.                                         *)
THEOREM RefusedRightly ==
  ASSUME MaxByte \in Nat, MaxTotal \in Nat
  PROVE  Spec => []RefusedOnlyOutside
<1>1. ASSUME RInv
      PROVE  RefusedOnlyOutside
  <2> SUFFICES ASSUME reply.status = 416
               PROVE  \/ /\ hdr.form = "suffix"
                         /\ hdr.b = 0 \/ hdr.b > total
                      \/ hdr.form = "open" /\ Asked(hdr, total) = {}
                      \/ /\ hdr.form = "closed"
                         /\ hdr.b >= total \/ Asked(hdr, total) = {}
    BY DEF RefusedOnlyOutside
  <2>1. hdr \in Header /\ total \in Nat /\ reply = Plan(hdr, total)
    BY <1>1, RTypes DEF RInv
  <2>2. /\ hdr.form \in {"absent", "malformed", "suffix", "open", "closed"}
        /\ hdr.a \in Nat /\ hdr.b \in Nat
    BY <2>1 DEF Header
  <2>3. hdr.form \notin {"absent", "malformed"}
    BY <2>1, PlanCases
  <2>4. CASE hdr.form = "suffix"
    BY <2>1, <2>2, <2>4, PlanCases
  <2>5. CASE hdr.form = "open"
    <3>1. hdr.a >= total
      BY <2>1, <2>2, <2>5, PlanCases DEF SatSub
    <3>2. Asked(hdr, total) = {k \in 0 .. total - 1 : k >= hdr.a}
      BY <2>5 DEF Asked
    <3> QED
      BY <2>1, <2>2, <2>5, <3>1, <3>2
  <2>6. CASE hdr.form = "closed"
    <3>1. hdr.a > hdr.b \/ hdr.b >= total
      BY <2>1, <2>2, <2>6, PlanCases
    <3>2. Asked(hdr, total) = {k \in 0 .. total - 1 : hdr.a <= k /\ k <= hdr.b}
      BY <2>6 DEF Asked
    <3> QED
      BY <2>1, <2>2, <2>6, <3>1, <3>2
  <2> QED
    BY <2>2, <2>3, <2>4, <2>5, <2>6
<1> QED
  BY <1>1, RInvariance, PTL
=============================================================================
