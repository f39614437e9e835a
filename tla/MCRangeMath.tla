---------------------------- MODULE MCRangeMath ----------------------------
(***************************************************************************)
(* Every Range header over small numbers, against every small file: each   *)
(* step asks for a range or answers it with RangeMath's Plan.              *)
(***************************************************************************)
EXTENDS RangeMath

CONSTANTS MaxByte,    \* largest number in a header
          MaxTotal    \* largest file

VARIABLES hdr, total, reply

Pending == [status |-> 0, start |-> 0, length |-> 0]
Forms == {"absent", "malformed", "suffix", "open", "closed"}
Headers == [form : Forms, a : 0 .. MaxByte, b : 0 .. MaxByte]

Init == hdr \in Headers /\ total \in 0 .. MaxTotal /\ reply = Pending

Ask == /\ reply # Pending
       /\ hdr' \in Headers /\ total' \in 0 .. MaxTotal /\ reply' = Pending

Answer == /\ reply = Pending /\ reply' = Plan(hdr, total)
          /\ UNCHANGED << hdr, total >>

Next == Ask \/ Answer

Spec == Init /\ [][Next]_<< hdr, total, reply >>

(* The bytes a reply announces: Content-Length from where it seeks to.     *)
Announced == reply.start .. reply.start + reply.length - 1

(* A partial reply announces exactly the bytes the range asks for, whatever*)
(* its form.  A whole reply is for a request without a range that file()   *)
(* can read, also one whose header is malformed; it announces the bytes of *)
(* the file, and one byte for a file of none, which file() then cannot     *)
(* send.                                                                   *)
ReplyIsExact ==
  /\ reply.status = 206
     => /\ hdr.form \in {"suffix", "open", "closed"}
        /\ Announced = Asked(hdr, total)
  /\ reply.status = 200
     => /\ hdr.form \in {"absent", "malformed"}
        /\ Announced = IF total = 0 THEN {0} ELSE 0 .. total - 1

(* A range that lies in the file is never refused: 416 means that file()   *)
(* could read the range, and that it asks for no byte or for one beyond    *)
(* the end.                                                                *)
RefusedOnlyOutside ==
  reply.status = 416
  => \/ hdr.form = "suffix" /\ (hdr.b = 0 \/ hdr.b > total)
     \/ hdr.form = "open" /\ Asked(hdr, total) = {}
     \/ hdr.form = "closed" /\ (hdr.b >= total \/ Asked(hdr, total) = {})
=============================================================================
