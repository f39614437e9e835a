----------------------------- MODULE RangeMath -----------------------------
(***************************************************************************)
(* The byte-range arithmetic of GET /api/file: parse_range() and the       *)
(* start/end/length computation of file() that follows it, with the        *)
(* saturating u64 subtraction written out.                                 *)
(*                                                                         *)
(* A Range header is abstracted to its form: "absent", "malformed" (every  *)
(* way in which parse_range leaves through `?`), "suffix" (bytes=-b),      *)
(* "open" (bytes=a-) and "closed" (bytes=a-b).                             *)
(***************************************************************************)
EXTENDS Naturals

Header == [form : {"absent", "malformed", "suffix", "open", "closed"},
           a : Nat, b : Nat]

SatSub(x, y) == IF x >= y THEN x - y ELSE 0

None == [kind |-> "none", start |-> 0, end |-> 0]
Unsat == [kind |-> "unsat", start |-> 0, end |-> 0]
Sat(s, e) == [kind |-> "sat", start |-> s, end |-> e]

(* Mutation of ParseSuffix: the range ends where the file does.            *)
SuffixOffByOne(n, total) ==
  IF n = 0 \/ n > total THEN Unsat ELSE Sat(total - n, total)

ParseSuffix(n, total) ==
  IF n = 0 \/ n > total THEN Unsat ELSE Sat(total - n, total - 1)

(* Mutation of ParseFrom: a range of a single byte is refused.             *)
OneByteRefused(start, end, total) ==
  IF start >= end \/ end >= total THEN Unsat ELSE Sat(start, end)

ParseFrom(start, end, total) ==
  IF start > end \/ end >= total THEN Unsat ELSE Sat(start, end)

ParseRange(hdr, total) ==
  CASE hdr.form \in {"absent", "malformed"} -> None
    [] hdr.form = "suffix" -> ParseSuffix(hdr.b, total)
    [] hdr.form = "open"   -> ParseFrom(hdr.a, SatSub(total, 1), total)
    [] hdr.form = "closed" -> ParseFrom(hdr.a, hdr.b, total)

(* The reply file() prepares for a file of `total` bytes: its status, the  *)
(* first byte it seeks to and the Content-Length it announces.             *)
Plan(hdr, total) ==
  LET r == ParseRange(hdr, total)
      end == IF r.kind = "sat" THEN r.end ELSE SatSub(total, 1)
  IN  [status |-> CASE r.kind = "none" -> 200
                    [] r.kind = "sat" -> 206
                    [] r.kind = "unsat" -> 416,
       start  |-> r.start,
       length |-> IF r.kind = "unsat" THEN 0 ELSE SatSub(end, r.start) + 1]

-----------------------------------------------------------------------------
(* What a range denotes, written without the code's arithmetic: the byte   *)
(* positions it asks for, of a file of `total` bytes.  A header that       *)
(* cannot be read is counted as none, as file() does; the comments of the  *)
(* code (handlers.rs:124 and 171-172) say that it is refused.              *)
Asked(hdr, total) ==
  {k \in 0 .. total - 1 :
     CASE hdr.form \in {"absent", "malformed"} -> TRUE
       [] hdr.form = "suffix" -> total < k + 1 + hdr.b
       [] hdr.form = "open"   -> k >= hdr.a
       [] hdr.form = "closed" -> hdr.a <= k /\ k <= hdr.b}
=============================================================================
